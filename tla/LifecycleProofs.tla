-------------------------- MODULE LifecycleProofs --------------------------
(***************************************************************************)
(* A task executes one thread at a time, begins no Execute after Close     *)
(* and, until it is closed, always has something that will execute it      *)
(* again, for any number of tasks and goroutines; and the monitors keep    *)
(* these promises inside the process. What a box leaves behind and what it *)
(* attaches to, for any number of reloads, tags and configurations, and    *)
(* that a signal to stop is not lost among signals to reload.              *)
(***************************************************************************)
EXTENDS Lifecycle, TLAPS

-----------------------------------------------------------------------------
(* Periodic *)

\* What makes NoOverlap inductive: nothing of a task exists before its Start,
\* which happens once, and a task that was closed never runs again.
IInv ==
  /\ TypeOK
  /\ NoOverlap
  /\ closed \subseteq launched
  /\ \A k \in Task \ launched :
       ~running[k] /\ \A t \in Thread : pc[k][t] = "idle"
  /\ \A k \in closed : ~running[k]

\* The initial state satisfies the invariant.
LEMMA InitIInv == Init => IInv
  BY DEF Init, IInv, TypeOK, PC, NoOverlap

\* Every step of every goroutine, and Close, preserves the invariant.
LEMMA NextIInv == IInv /\ [Next]_vars => IInv'
<1> SUFFICES ASSUME IInv, [Next]_vars PROVE IInv'
  OBVIOUS
<1> USE PeriodicAssumption DEF IInv, TypeOK, PC, NoOverlap
<1>1. ASSUME NEW k \in Task, NEW t \in Thread, Start(k, t) PROVE IInv'
  BY <1>1 DEF Start
<1>2. ASSUME NEW k \in Task, NEW t \in Thread, HasClosed(k, t) PROVE IInv'
  BY <1>2 DEF HasClosed
<1>3. ASSUME NEW k \in Task, NEW t \in Thread, Execute(k, t) PROVE IInv'
  <2>1. PICK v \in {"rearm", "fail"} : pc' = [pc EXCEPT ![k][t] = v]
    BY <1>3 DEF Execute
  <2> QED
    BY <2>1, <1>3 DEF Execute
<1>4. ASSUME NEW k \in Task, NEW t \in Thread, Fail(k, t) PROVE IInv'
  BY <1>4 DEF Fail
<1>5. ASSUME NEW k \in Task, NEW t \in Thread, Rearm(k, t) PROVE IInv'
  <2>1. CASE running[k]
    <3>1. PICK n \in Thread :
            /\ n = t \/ pc[k][n] = "idle"
            /\ timer' = [timer EXCEPT ![k] = n]
            /\ pc' = [pc EXCEPT ![k] = [@ EXCEPT ![t] = "idle", ![n] = "armed"]]
      BY <1>5, <2>1 DEF Rearm
    <3>2. pc'[k] = [pc[k] EXCEPT ![t] = "idle", ![n] = "armed"]
      BY <3>1
    <3>3. \A j \in Task : j # k => pc'[j] = pc[j]
      BY <3>1
    <3>4. TypeOK'
      BY <1>5, <3>1 DEF Rearm
    <3>5. NoOverlap'
      BY <1>5, <3>1, <3>2, <3>3, <3>4 DEF Rearm
    <3> QED
      BY <1>5, <2>1, <3>3, <3>4, <3>5 DEF Rearm
  <2>2. CASE ~running[k]
    <3>1. /\ pc[k][t] = "rearm"
          /\ pc' = [pc EXCEPT ![k][t] = "idle"]
          /\ UNCHANGED <<timer, running, launched, closed>>
      BY <1>5, <2>2 DEF Rearm
    <3> QED
      BY <3>1
  <2> QED
    BY <2>1, <2>2
<1>6. ASSUME NEW k \in Task, NEW t \in Thread, Fire(k, t) PROVE IInv'
  BY <1>6 DEF Fire
<1>7. ASSUME NEW k \in Task, Close(k) PROVE IInv'
  BY <1>7 DEF Close
<1>8. CASE UNCHANGED vars
  BY <1>8 DEF vars
<1> QED
  BY <1>1, <1>2, <1>3, <1>4, <1>5, <1>6, <1>7, <1>8, ZenonT(20) DEF Next, Step

\* Execute of a task never overlaps itself, in any controller.
THEOREM TaskNoOverlap == Spec => []NoOverlap
<1>1. IInv => NoOverlap
  BY DEF IInv
<1> QED
  BY InitIInv, NextIInv, <1>1, PTL DEF Spec

\* No closed task begins an Execute in this step.
Quiet == \A k \in closed, t \in Thread : pc'[k][t] = "execute" => pc[k][t] = "execute"

\* hasClosed stops a timer that had fired before Close.
LEMMA QuietStep == IInv /\ [Next]_vars => [Quiet]_vars
<1> SUFFICES ASSUME IInv, Next PROVE Quiet
  OBVIOUS
<1> USE PeriodicAssumption DEF IInv, TypeOK, PC, Quiet
<1>1. ASSUME NEW j \in Task, NEW u \in Thread, Start(j, u) PROVE Quiet
  BY <1>1 DEF Start
<1>2. ASSUME NEW j \in Task, NEW u \in Thread, HasClosed(j, u) PROVE Quiet
  BY <1>2 DEF HasClosed
<1>3. ASSUME NEW j \in Task, NEW u \in Thread, Execute(j, u) PROVE Quiet
  <2>1. PICK v \in {"rearm", "fail"} : pc' = [pc EXCEPT ![j][u] = v]
    BY <1>3 DEF Execute
  <2> QED
    BY <2>1
<1>4. ASSUME NEW j \in Task, NEW u \in Thread, Fail(j, u) PROVE Quiet
  BY <1>4 DEF Fail
<1>5. ASSUME NEW j \in Task, NEW u \in Thread, Rearm(j, u) PROVE Quiet
  <2>1. CASE running[j]
    <3>1. PICK n \in Thread :
            pc' = [pc EXCEPT ![j] = [@ EXCEPT ![u] = "idle", ![n] = "armed"]]
      BY <1>5, <2>1 DEF Rearm
    <3> QED
      BY <3>1
  <2>2. CASE ~running[j]
    BY <1>5, <2>2 DEF Rearm
  <2> QED
    BY <2>1, <2>2
<1>6. ASSUME NEW j \in Task, NEW u \in Thread, Fire(j, u) PROVE Quiet
  BY <1>6 DEF Fire
<1>7. ASSUME NEW j \in Task, Close(j) PROVE Quiet
  BY <1>7 DEF Close
<1> QED
  BY <1>1, <1>2, <1>3, <1>4, <1>5, <1>6, <1>7 DEF Next, Step

\* A closed task begins no Execute.
THEOREM TaskNoExecuteAfterClose == Spec => NoExecuteAfterClose
BY InitIInv, NextIInv, QuietStep, PTL DEF Spec, NoExecuteAfterClose, Quiet

\* A task that is running has a goroutine or an armed timer: it never goes
\* quiet without Close or an error.
NeverQuiet == \A k \in Task : running[k] => \E t \in Thread : pc[k][t] # "idle"

\* An armed timer is the one that t.timer points to, so Close stops it.
NoStrayTimer == \A k \in Task, t \in Thread : pc[k][t] = "armed" => timer[k] = t

\* Start, HasClosed and Rearm hand the task on; only Fail and Close, which
\* clear running, let it end.
LEMMA NextAlive ==
  IInv /\ NeverQuiet /\ NoStrayTimer /\ [Next]_vars => NeverQuiet' /\ NoStrayTimer'
<1> SUFFICES ASSUME IInv, NeverQuiet, NoStrayTimer, [Next]_vars
             PROVE  NeverQuiet' /\ NoStrayTimer'
  OBVIOUS
<1> USE PeriodicAssumption DEF IInv, TypeOK, PC, NeverQuiet, NoStrayTimer
<1>1. ASSUME NEW k \in Task, NEW t \in Thread, Start(k, t)
      PROVE  NeverQuiet' /\ NoStrayTimer'
  <2>1. pc' = [pc EXCEPT ![k][t] = "check"] /\ running' = [running EXCEPT ![k] = TRUE]
    BY <1>1 DEF Start
  <2> QED
    BY <1>1, <2>1 DEF Start
<1>2. ASSUME NEW k \in Task, NEW t \in Thread, HasClosed(k, t)
      PROVE  NeverQuiet' /\ NoStrayTimer'
  BY <1>2 DEF HasClosed, NoOverlap
<1>3. ASSUME NEW k \in Task, NEW t \in Thread, Execute(k, t)
      PROVE  NeverQuiet' /\ NoStrayTimer'
  <2>1. PICK v \in {"rearm", "fail"} : pc' = [pc EXCEPT ![k][t] = v]
    BY <1>3 DEF Execute
  <2> QED
    BY <2>1, <1>3 DEF Execute
<1>4. ASSUME NEW k \in Task, NEW t \in Thread, Fail(k, t)
      PROVE  NeverQuiet' /\ NoStrayTimer'
  BY <1>4 DEF Fail
<1>5. ASSUME NEW k \in Task, NEW t \in Thread, Rearm(k, t)
      PROVE  NeverQuiet' /\ NoStrayTimer'
  <2>1. CASE running[k]
    <3>1. PICK n \in Thread :
            /\ timer' = [timer EXCEPT ![k] = n]
            /\ pc' = [pc EXCEPT ![k] = [@ EXCEPT ![t] = "idle", ![n] = "armed"]]
      BY <1>5, <2>1 DEF Rearm
    <3>2. pc'[k] = [pc[k] EXCEPT ![t] = "idle", ![n] = "armed"] /\ timer'[k] = n
      BY <3>1
    <3>3. \A j \in Task : j # k => pc'[j] = pc[j] /\ timer'[j] = timer[j]
      BY <3>1
    <3>4. pc'[k][n] = "armed" /\ \A u \in Thread : u # n => pc'[k][u] = "idle"
      BY <1>5, <3>2 DEF Rearm, NoOverlap
    <3>5. running' = running
      BY <1>5 DEF Rearm
    <3>6. ASSUME NEW j \in Task, running'[j] PROVE \E u \in Thread : pc'[j][u] # "idle"
      <4>1. CASE j = k
        BY <3>4, <4>1
      <4>2. CASE j # k
        BY <3>3, <3>5, <3>6, <4>2
      <4> QED
        BY <4>1, <4>2
    <3>7. ASSUME NEW j \in Task, NEW u \in Thread, pc'[j][u] = "armed" PROVE timer'[j] = u
      <4>1. CASE j = k
        BY <3>2, <3>4, <3>7, <4>1
      <4>2. CASE j # k
        BY <3>3, <3>7, <4>2
      <4> QED
        BY <4>1, <4>2
    <3> QED
      BY <3>6, <3>7, Zenon
  <2>2. CASE ~running[k]
    <3>1. /\ pc[k][t] = "rearm"
          /\ pc' = [pc EXCEPT ![k][t] = "idle"]
          /\ UNCHANGED <<timer, running, launched, closed>>
      BY <1>5, <2>2 DEF Rearm
    <3> QED
      BY <3>1, <2>2
  <2> QED
    BY <2>1, <2>2
<1>6. ASSUME NEW k \in Task, NEW t \in Thread, Fire(k, t)
      PROVE  NeverQuiet' /\ NoStrayTimer'
  BY <1>6 DEF Fire
<1>7. ASSUME NEW k \in Task, Close(k) PROVE NeverQuiet' /\ NoStrayTimer'
  BY <1>7 DEF Close
<1>8. CASE UNCHANGED vars
  BY <1>8 DEF vars
<1> QED
  BY <1>1, <1>2, <1>3, <1>4, <1>5, <1>6, <1>7, <1>8, ZenonT(20) DEF Next, Step

\* At first no task runs and no timer is set.
LEMMA InitAlive == Init => NeverQuiet /\ NoStrayTimer
BY DEF Init, NeverQuiet, NoStrayTimer

\* A running task always has somebody who will execute it again: what
\* KeepsTicking needs besides fair scheduling.
THEOREM TaskNeverQuiet == Spec => []NeverQuiet
BY InitIInv, NextIInv, InitAlive, NextAlive, PTL DEF Spec

\* Close leaves no timer behind that could fire later: every armed timer is the
\* one it stops.
THEOREM TaskNoStrayTimer == Spec => []NoStrayTimer
BY InitIInv, NextIInv, InitAlive, NextAlive, PTL DEF Spec

-----------------------------------------------------------------------------
(* Lifecycle *)

\* The box is on its way up; or it is up.
Starts == at = "start" \/ (at = "stop" /\ after = "start")
Up == Starts \/ at \in {"finish", "wait"}

\* The box's context is cancelled, or create's goroutine is about to do so.
Cancelled == gen \notin ctx \/ (gen \in Box /\ notified[gen] = "full")

\* The panel was stopped and no other started.
Stopped == at \in {"read", "create", "teardown"} \/ (at = "stop" /\ after = "teardown")

LifeTypes ==
  /\ gen \in Nat
  /\ disk \in Configs
  /\ inbounds \subseteq Tag
  /\ options \subseteq Tag
  /\ registered \in [Tag -> Int]
  /\ notified \in [Box -> {"off", "empty", "full"}]

\* The invariant: where the main goroutine is tells what it has done so far.
LInv ==
  /\ IInv
  /\ LifeTypes
  /\ at = "stop" => after \in {"start", "close", "teardown"}
  /\ Stopped => panel = 0
  /\ Up /\ Cancelled => signals # "none" \/ rejected = TRUE
  /\ Starts => \A t \in inbounds : registered[t] = gen
  /\ AttachedToOwn

\* The process starts without a box, a panel or a registered inbound.
LEMMA InitLInv == LifeInit => LInv
<1> SUFFICES ASSUME LifeInit PROVE LInv
  OBVIOUS
<1>1. IInv
  BY InitIInv DEF LifeInit
<1>2. LifeTypes
  BY LifecycleAssumption DEF LifeInit, LifeTypes
<1> QED
  BY <1>1, <1>2 DEF LifeInit, LInv, Stopped, Up, Starts, AttachedToOwn

\* A process that is gone satisfies the invariant.
LEMMA ExitLInv == LInv /\ Exit => LInv'
<1> SUFFICES ASSUME LInv, Exit PROVE LInv'
  OBVIOUS
<1>1. IInv'
  BY PeriodicAssumption DEF Exit, IInv, TypeOK, PC, NoOverlap
<1>2. LifeTypes'
  BY LifecycleAssumption DEF Exit, LInv, LifeTypes, fileVars
<1> QED
  BY <1>1, <1>2 DEF Exit, LInv, Stopped, Up, Starts, AttachedToOwn

\* Steps of the monitors, of the operator and of a late closeMonitor do not
\* touch what the invariant says of the main goroutine.
LEMMA AsideLInv ==
  ASSUME LInv, IInv',
         UNCHANGED <<procVars, boxVars, panel, attached, signals, notified, registered>>,
         disk' \in Configs, options' \subseteq Tag
  PROVE  LInv'
BY DEF LInv, LifeTypes, Stopped, Up, Starts, Cancelled, AttachedToOwn, procVars, boxVars

\* A failing start goes to Box.Close.
LEMMA StartFailsLInv == LInv /\ at = "start" /\ StartFails => LInv'
<1> SUFFICES ASSUME LInv, at = "start", StartFails PROVE LInv'
  OBVIOUS
<1>1. IInv'
  BY DEF StartFails, LInv, IInv, TypeOK, NoOverlap, vars
<1> QED
  BY <1>1 DEF StartFails, LInv, LifeTypes, Stopped, Up, Starts, AttachedToOwn, panelVars,
     sigVars, fileVars

\* A successful step of the start leaves the box on its way up.
LEMMA NextStepLInv == LInv /\ at = "start" /\ NextStep => LInv'
<1> SUFFICES ASSUME LInv, at = "start", NextStep PROVE LInv'
  OBVIOUS
<1>1. IInv'
  BY DEF NextStep, LInv, IInv, TypeOK, NoOverlap, vars
<1> QED
  BY <1>1 DEF NextStep, LInv, LifeTypes, Stopped, Up, Starts, Cancelled, AttachedToOwn,
              panelVars, sigVars, fileVars

\* The tasks' state does not change.
LEMMA Still == LInv /\ UNCHANGED vars => IInv'
BY DEF LInv, IInv, TypeOK, NoOverlap, vars

\* A function keeps its type when one of its values is changed.
LEMMA Changed ==
  ASSUME NEW D, NEW R, NEW f \in [D -> R], NEW x, NEW v \in R
  PROVE  [f EXCEPT ![x] = v] \in [D -> R]
BY Zenon

\* SetInboud gives the tags of S to box b and keeps the table's type.
LEMMA Registers ==
  ASSUME NEW S, S \subseteq Tag, NEW b \in Int, registered \in [Tag -> Int], SetInboud(S, b)
  PROVE  registered' \in [Tag -> Int] /\ \A t \in S : registered'[t] = b
BY DEF SetInboud

\* Every step of the main goroutine preserves the invariant.
LEMMA MainLInv == LInv /\ Main => LInv'
<1> SUFFICES ASSUME LInv, Main PROVE LInv'
  OBVIOUS
<1> USE LifecycleAssumption DEF LInv
<1>0. CASE ReadConfig
  <2>1. options' \subseteq Tag
    BY <1>0 DEF ReadConfig, LifeTypes
  <2> QED
    BY <1>0, <2>1, Still DEF ReadConfig, LifeTypes, Stopped, Up, Starts, AttachedToOwn,
       boxVars,
       panelVars, sigVars
<1>1. CASE Create
  <2>1. inbounds' \subseteq Tag
    BY <1>1 DEF Create, filterInboundsByPanel, LifeTypes
  <2>2. /\ registered' \in [Tag -> Int]
        /\ \A t \in inbounds' : registered'[t] = gen'
    BY <1>1, <2>1 DEF Create, SetInboud, LifeTypes
  <2>3. LifeTypes'
    <3>1. gen' \in Nat
      BY <1>1 DEF Create, LifeTypes
    <3>2. notified' \in [Box -> {"off", "empty", "full"}]
      BY <1>1, Changed, Zenon DEF Create, LifeTypes
    <3>3. inbounds' \subseteq Tag /\ options' \subseteq Tag /\ disk' \in Configs
      BY <1>1, <2>1 DEF Create, LifeTypes, fileVars
    <3> QED
      BY <2>2, <3>1, <3>2, <3>3 DEF LifeTypes
  <2>4. ~Cancelled'
    BY <1>1 DEF Create, Cancelled, LifeTypes
  <2>5. AttachedToOwn'
    BY <1>1 DEF Create, AttachedToOwn, Stopped, panelVars, LifeTypes
  <2> QED
    BY <1>1, <2>2, <2>3, <2>4, <2>5, Still, Zenon DEF Create, Stopped, Up, Starts
<1>2. CASE CreateFails
  BY <1>2, ExitLInv DEF CreateFails
<1>3. CASE StartLog
  BY <1>3, StartFailsLInv, NextStepLInv, Zenon DEF StartLog
<1>4. CASE StartPanel
  <2>1. AttachedToOwn'
    BY <1>4 DEF StartPanel, Starts, AttachedToOwn, boxVars, LifeTypes
  <2>2. LifeTypes'
    BY <1>4 DEF StartPanel, LifeTypes, boxVars, sigVars, fileVars
  <2>3. Cancelled' => Cancelled
    BY <1>4 DEF StartPanel, Cancelled, boxVars, sigVars
  <2> QED
    BY <1>4, <2>1, <2>2, <2>3, Still, Zenon DEF StartPanel, Stopped, Up, Starts, boxVars,
       sigVars
<1>5. CASE PanelUnreadable
  BY <1>5, StartFailsLInv DEF PanelUnreadable
<1>6. CASE PanelExits
  BY <1>6, ExitLInv DEF PanelExits
<1>7. CASE StartComponent
  BY <1>7, StartFailsLInv, NextStepLInv, Zenon DEF StartComponent
<1>8. CASE FinishStart
  <2>1. LifeTypes' /\ (Cancelled' => Cancelled)
    BY <1>8, Zenon DEF FinishStart, LifeTypes, Cancelled, boxVars, fileVars
  <2> QED
    BY <1>8, <2>1, Still DEF FinishStart, Stopped, Up, Starts, AttachedToOwn, boxVars,
       panelVars
<1>9. CASE TakeSignal
  BY <1>9, Still DEF TakeSignal, LifeTypes, Stopped, Up, Starts, AttachedToOwn, boxVars,
     panelVars, fileVars
<1>10. CASE Check
  <2>1. registered' \in [Tag -> Int]
    BY <1>10, Registers DEF Check, LifeTypes, Checked
  <2> QED
    BY <1>10, <2>1, Still DEF Check, Stop, LifeTypes, Stopped, Up, Starts, AttachedToOwn,
                              boxVars, sigVars, fileVars
<1>11. CASE CheckFails
  <2>1. registered' \in [Tag -> Int]
    BY <1>11, Registers DEF CheckFails, LifeTypes, Checked
  <2> QED
    BY <1>11, <2>1, Still DEF CheckFails, LifeTypes, Stopped, Up, Starts, AttachedToOwn,
                              boxVars, panelVars, sigVars, fileVars
<1>12. CASE BeginClose
  BY <1>12, Still DEF BeginClose, Stop, LifeTypes, Stopped, Up, Starts, AttachedToOwn,
     sigVars, fileVars
<1>13. ASSUME NEW k \in Task, CloseTask(k) PROVE LInv'
  <2>1. IInv'
    BY <1>13, NextIInv DEF CloseTask, Next
  <2> QED
    BY <1>13, <2>1, AsideLInv, Zenon DEF CloseTask, sigVars, fileVars, LifeTypes
<1>14. CASE PanelClosed
  BY <1>14, Still DEF PanelClosed, LifeTypes, Stopped, Up, Starts, Cancelled, AttachedToOwn,
                      boxVars, panelVars, sigVars, fileVars
<1>15. CASE Closed
  <2>1. CASE received = "hup"
    BY <1>15, <2>1, Still DEF Closed, LifeTypes, Stopped, Up, Starts, AttachedToOwn,
                              boxVars, panelVars, sigVars, fileVars
  <2>2. CASE received # "hup"
    BY <1>15, <2>2, ExitLInv DEF Closed
  <2> QED
    BY <2>1, <2>2, Zenon
<1> QED
  BY <1>0, <1>1, <1>2, <1>3, <1>4, <1>5, <1>6, <1>7, <1>8, <1>9, <1>10, <1>11, <1>12,
     <1>13, <1>14, <1>15, ZenonT(20) DEF Main

\* Every step of the process and of its environment preserves the invariant.
LEMMA NextLInv == LInv /\ [LifeNext]_lifeVars => LInv'
<1> SUFFICES ASSUME LInv, [LifeNext]_lifeVars PROVE LInv'
  OBVIOUS
<1> USE DEF LInv
<1>1. CASE Main
  BY <1>1, MainLInv
<1>2. CASE Cleanup
  BY <1>2, Still DEF Cleanup, LifeTypes, Stopped, Up, Starts, AttachedToOwn, procVars,
                     panelVars, sigVars, fileVars
<1>3. CASE CloseMonitor
  BY <1>3, ExitLInv DEF CloseMonitor
<1>4. CASE EditFiles
  BY <1>4, Still, AsideLInv, Zenon DEF EditFiles, LifeTypes, panelVars, sigVars
<1>5. ASSUME NEW s \in {"hup", "term"}, Send(s) PROVE LInv'
  <2>1. signals' # "none" /\ notified' \in [Box -> {"off", "empty", "full"}]
    BY <1>5 DEF Send, Notify, LifeTypes
  <2> QED
    BY <1>5, <2>1, Still DEF Send, LifeTypes, Stopped, Up, Starts, AttachedToOwn, procVars,
       boxVars,
                             panelVars, fileVars
<1>6. ASSUME NEW b \in Box, HelperCancels(b) PROVE LInv'
  <2>1. LifeTypes' /\ (Cancelled' => Cancelled)
    BY <1>6 DEF HelperCancels, LifeTypes, Cancelled, procVars, fileVars
  <2> QED
    BY <1>6, <2>1, Still DEF HelperCancels, Stopped, Up, Starts, AttachedToOwn, procVars,
       panelVars
<1>7. ASSUME NEW b \in Box, HelperTimeout(b) PROVE LInv'
  <2>1. CASE Exit
    BY <2>1, ExitLInv
  <2>2. CASE ~Exit
    BY <1>7, <2>2, Still, AsideLInv, Zenon DEF HelperTimeout, panelVars, fileVars, LifeTypes
  <2> QED
    BY <2>1, <2>2, Zenon
<1>8. ASSUME NEW k \in Task, NEW t \in Thread, Launch(k, t) PROVE LInv'
  <2>1. IInv'
    BY <1>8, NextIInv DEF Launch, Next
  <2> QED
    BY <1>8, <2>1, AsideLInv, Zenon DEF Launch, panelVars, sigVars, fileVars, LifeTypes
<1>9. ASSUME NEW k \in Task, NEW t \in Thread, TaskStep(k, t) PROVE LInv'
  <2>1. IInv'
    BY <1>9, NextIInv DEF TaskStep, Next
  <2> QED
    BY <1>9, <2>1, AsideLInv, Zenon DEF TaskStep, panelVars, sigVars, fileVars, LifeTypes
<1>10. CASE UNCHANGED lifeVars
  BY <1>10, Still, AsideLInv, Zenon DEF lifeVars, panelVars, sigVars, fileVars, LifeTypes
<1> QED
  BY <1>1, <1>2, <1>3, <1>4, <1>5, <1>6, <1>7, <1>8, <1>9, <1>10, ZenonT(20) DEF LifeNext

\* A node whose inbound belongs to the box is attached to that inbound,
\* however many reloads and checks have filled the table of tags before.
THEOREM NodesUseOwnInbounds == LifeSpec => []AttachedToOwn
<1>1. LInv => AttachedToOwn
  BY DEF LInv
<1> QED
  BY InitLInv, NextLInv, <1>1, PTL DEF LifeSpec

\* A box that run keeps has a live context, unless a reload was refused.
THEOREM KeptBoxIsLive == LifeSpec => []CancelledIsClosing
<1>1. LInv => CancelledIsClosing
  BY DEF LInv, CancelledIsClosing, Up, Starts, Cancelled
<1> QED
  BY InitLInv, NextLInv, <1>1, PTL DEF LifeSpec

\* Ticks of one monitor do not overlap in the whole process either: reloads
\* and exits only take steps of Periodic, or end everything.
THEOREM MonitorsDoNotOverlap == LifeSpec => []NoOverlap
<1>1. LInv => NoOverlap
  BY DEF LInv, IInv
<1> QED
  BY InitLInv, NextLInv, <1>1, PTL DEF LifeSpec

-----------------------------------------------------------------------------
(* No monitor is forgotten. *)

\* Every task that Controller.Start launched belongs to the active panel, is
\* about to be closed, or was closed, after its Start or before it.
Accounted ==
  /\ launched \subseteq spawned
  /\ spawned \subseteq Task
  /\ toClose # {} => at = "stop"
  /\ \A k \in spawned : k[1] = panel \/ k \in toClose \/ k \in closed \/ k \in early

\* At first no task is launched.
LEMMA InitAccounted == LifeInit => Accounted
BY DEF LifeInit, Init, Accounted

\* Stop and StartPanel hand the tasks of the active panel to Panel.Close, which
\* closes each of them; no other step takes one from where it was.
LEMMA NextAccounted == Accounted /\ [LifeNext]_lifeVars => Accounted'
<1> SUFFICES ASSUME Accounted, [LifeNext]_lifeVars PROVE Accounted'
  OBVIOUS
<1> USE DEF Accounted
<1>x. CASE Exit
  BY <1>x DEF Exit
<1>u. ASSUME UNCHANGED <<launched, closed, panelVars>>, toClose = {} \/ at' = at
      PROVE  Accounted'
  BY <1>u DEF panelVars
<1>s. ASSUME NEW next, Stop(next), UNCHANGED vars, at # "stop" PROVE Accounted'
  BY <1>s DEF Stop, OfBox, vars
<1>1. CASE ReadConfig \/ Create
  BY <1>1, <1>u DEF ReadConfig, Create, vars
<1>2. CASE StartLog \/ PanelUnreadable \/ StartComponent
  BY <1>2, <1>u DEF StartLog, PanelUnreadable, StartComponent, StartFails, NextStep, vars
<1>3. CASE StartPanel
  BY <1>3 DEF StartPanel, OfBox, vars
<1>4. CASE FinishStart \/ TakeSignal \/ CheckFails
  BY <1>4, <1>u DEF FinishStart, TakeSignal, CheckFails, vars
<1>5. CASE Check \/ BeginClose
  BY <1>5, <1>s DEF Check, BeginClose
<1>6. ASSUME NEW k \in Task, CloseTask(k) PROVE Accounted'
  BY <1>6 DEF CloseTask, Close, procVars
<1>7. CASE PanelClosed
  BY <1>7, <1>u DEF PanelClosed, vars
<1>8. CASE Closed
  BY <1>8, <1>u, <1>x DEF Closed, vars
<1>9. CASE CreateFails \/ PanelExits \/ CloseMonitor
  BY <1>9, <1>x DEF CreateFails, PanelExits, CloseMonitor
<1>10. CASE Cleanup \/ EditFiles \/ \E s \in {"hup", "term"} : Send(s)
  BY <1>10, <1>u DEF Cleanup, EditFiles, Send, procVars, vars
<1>11. CASE \E b \in Box : HelperCancels(b) \/ HelperTimeout(b)
  BY <1>11, <1>u, <1>x, Zenon DEF HelperCancels, HelperTimeout, procVars, vars
<1>12. ASSUME NEW k \in Task, NEW t \in Thread, Launch(k, t) PROVE Accounted'
  BY <1>12 DEF Launch, Start, procVars, panelVars
<1>13. ASSUME NEW k \in Task, NEW t \in Thread, TaskStep(k, t) PROVE Accounted'
  <2>1. UNCHANGED <<launched, closed, panelVars, at>>
    BY <1>13 DEF TaskStep, Step, HasClosed, Execute, Fail, Rearm, Fire, procVars
  <2> QED
    BY <2>1, <1>u
<1>14. CASE UNCHANGED lifeVars
  BY <1>14, <1>u DEF lifeVars, procVars, vars
<1> QED
  BY <1>1, <1>2, <1>3, <1>4, <1>5, <1>6, <1>7, <1>8, <1>9, <1>10, <1>11, <1>12, <1>13, <1>14,
     ZenonT(20) DEF LifeNext, Main

\* No monitor outlives its panel, however often run reloads and wherever a start
\* fails, but one whose Start came after its Close.
THEOREM NothingIsLeftRunning == LifeSpec => []NothingLeftRunning
<1>1. LInv /\ Accounted => NothingLeftRunning
  <2> SUFFICES ASSUME LInv, Accounted, NEW k \in Task, running[k], k \notin early
               PROVE  /\ at \notin {"teardown", "read", "create"}
                      /\ k[1] = panel \/ k \in toClose
    BY DEF NothingLeftRunning
  <2>1. k \in spawned /\ k \notin closed
    BY DEF LInv, IInv, Accounted
  <2>2. k[1] = panel \/ k \in toClose
    BY <2>1 DEF LInv, Accounted
  <2>3. k[1] # 0
    BY LifecycleAssumption DEF Box
  <2> QED
    BY <2>2, <2>3 DEF LInv, Accounted, Stopped
<1> QED
  BY InitLInv, NextLInv, InitAccounted, NextAccounted, <1>1, PTL DEF LifeSpec

-----------------------------------------------------------------------------
(* The promises of Periodic inside the process. *)

\* Every step of the process is one of Periodic for the monitors, or changes
\* nothing of them, or ends everything.
LEMMA LifeSteps == [LifeNext]_lifeVars => [Next]_vars \/ Exit
<1> SUFFICES ASSUME [LifeNext]_lifeVars PROVE [Next]_vars \/ Exit
  OBVIOUS
<1>1. CASE \E k \in Task : CloseTask(k)
  BY <1>1 DEF CloseTask, Next
<1>2. CASE \E k \in Task, t \in Thread : Launch(k, t) \/ TaskStep(k, t)
  BY <1>2 DEF Launch, TaskStep, Next
<1>3. CASE Main /\ ~\E k \in Task : CloseTask(k)
  BY <1>3, Zenon DEF Main, ReadConfig, Create, CreateFails, StartLog, StartPanel,
     PanelUnreadable,
     PanelExits, StartComponent, StartFails, NextStep, FinishStart, TakeSignal, Check,
     CheckFails, BeginClose, PanelClosed, Closed
<1>4. CASE Cleanup \/ CloseMonitor \/ EditFiles
  BY <1>4, Zenon DEF Cleanup, CloseMonitor, EditFiles
<1>5. CASE \E s \in {"hup", "term"} : Send(s)
  BY <1>5, Zenon DEF Send
<1>6. CASE \E b \in Box : HelperCancels(b) \/ HelperTimeout(b)
  BY <1>6, Zenon DEF HelperCancels, HelperTimeout
<1>7. CASE UNCHANGED lifeVars
  BY <1>7, Zenon DEF lifeVars
<1> QED
  BY <1>1, <1>2, <1>3, <1>4, <1>5, <1>6, <1>7, ZenonT(20) DEF LifeNext

\* When the process ends, so do its goroutines and timers.
LEMMA ExitAlive == IInv /\ Exit => NeverQuiet' /\ NoStrayTimer' /\ Quiet
BY DEF Exit, NeverQuiet, NoStrayTimer, Quiet, IInv, TypeOK

\* Reloads and failing starts leave no running monitor without a goroutine or a
\* timer, and no timer that the next Close would miss.
THEOREM MonitorsNeverQuiet == LifeSpec => [](NeverQuiet /\ NoStrayTimer)
<1>1. LifeInit => NeverQuiet /\ NoStrayTimer
  BY InitAlive DEF LifeInit
<1>2. LInv /\ NeverQuiet /\ NoStrayTimer /\ [LifeNext]_lifeVars => NeverQuiet' /\ NoStrayTimer'
  BY LifeSteps, NextAlive, ExitAlive DEF LInv
<1> QED
  BY InitLInv, NextLInv, <1>1, <1>2, PTL DEF LifeSpec

\* A monitor whose panel was closed, by a reload or at the end, begins no
\* further tick.
THEOREM MonitorsNoExecuteAfterClose == LifeSpec => NoExecuteAfterClose
<1>1. LInv /\ [LifeNext]_lifeVars => [Quiet]_vars
  BY LifeSteps, QuietStep, ExitAlive DEF LInv
<1> QED
  BY InitLInv, NextLInv, <1>1, PTL DEF LifeSpec, NoExecuteAfterClose, Quiet

-----------------------------------------------------------------------------
(* A SIGTERM is not lost. *)

\* run is closing the box for good.
ClosingDown == at \in {"close", "teardown"} \/ (at = "stop" /\ after = "teardown")

\* A SIGTERM that run's channel holds, or that run has received, stays until the
\* process ends: no reload, refused reload or failing start drops it.
TermIsKept ==
  [][signals = "term" \/ received = "term" =>
       signals' = "term" \/ received' = "term" \/ at' = "exit"]_lifeVars

\* Having received a SIGTERM, run closes the box and does not come back.
TermIsClosing == received = "term" => ClosingDown

\* Only TakeSignal takes a SIGTERM from the channel, and from then on the main
\* goroutine goes straight to the end.
LEMMA TermStep ==
  TermIsClosing /\ [LifeNext]_lifeVars =>
    /\ TermIsClosing'
    /\ signals = "term" \/ received = "term" =>
         signals' = "term" \/ received' = "term" \/ at' = "exit"
<1> DEFINE Kept == signals = "term" \/ received = "term" =>
                     signals' = "term" \/ received' = "term" \/ at' = "exit"
<1> SUFFICES ASSUME TermIsClosing, [LifeNext]_lifeVars PROVE TermIsClosing' /\ Kept
  OBVIOUS
<1> USE DEF TermIsClosing, ClosingDown
<1>x. CASE Exit
  BY <1>x DEF Exit
<1>u. CASE UNCHANGED <<at, after, received, signals>>
  BY <1>u
<1>1. CASE ReadConfig \/ Create
  BY <1>1 DEF ReadConfig, Create, sigVars
<1>2. CASE StartLog \/ PanelUnreadable \/ StartComponent
  BY <1>2 DEF StartLog, PanelUnreadable, StartComponent, StartFails, NextStep, sigVars
<1>3. CASE StartPanel
  BY <1>3 DEF StartPanel, sigVars
<1>4. CASE FinishStart
  BY <1>4 DEF FinishStart
<1>5. CASE TakeSignal
  BY <1>5 DEF TakeSignal
<1>6. CASE Check \/ CheckFails
  BY <1>6 DEF Check, Stop, CheckFails, sigVars
<1>7. CASE BeginClose
  BY <1>7 DEF BeginClose, Stop, sigVars
<1>8. CASE PanelClosed
  BY <1>8 DEF PanelClosed, sigVars
<1>9. CASE Closed
  BY <1>9, <1>x DEF Closed, sigVars
<1>10. CASE CreateFails \/ PanelExits \/ CloseMonitor
  BY <1>10, <1>x DEF CreateFails, PanelExits, CloseMonitor
<1>11. CASE \E s \in {"hup", "term"} : Send(s)
  BY <1>11 DEF Send, Notify, procVars
<1>12. CASE Cleanup \/ EditFiles \/ \E k \in Task : CloseTask(k)
  BY <1>12, <1>u DEF Cleanup, EditFiles, CloseTask, procVars, sigVars
<1>13. CASE \E b \in Box : HelperCancels(b) \/ HelperTimeout(b)
  BY <1>13, <1>u, <1>x, Zenon DEF HelperCancels, HelperTimeout, procVars
<1>14. CASE \E k \in Task, t \in Thread : Launch(k, t) \/ TaskStep(k, t)
  BY <1>14, <1>u, Zenon DEF Launch, TaskStep, procVars, sigVars
<1>15. CASE UNCHANGED lifeVars
  BY <1>15, <1>u DEF lifeVars, procVars, sigVars
<1> QED
  BY <1>1, <1>2, <1>3, <1>4, <1>5, <1>6, <1>7, <1>8, <1>9, <1>10, <1>11, <1>12, <1>13, <1>14,
     <1>15, ZenonT(20) DEF LifeNext, Main

\* A SIGTERM is never dropped on the way, whatever it meets: what StopsOnTerm
\* needs besides fair scheduling.
THEOREM TermIsNeverLost == LifeSpec => TermIsKept /\ []TermIsClosing
<1>1. LifeInit => TermIsClosing
  BY DEF LifeInit, TermIsClosing
<1> QED
  BY <1>1, TermStep, PTL DEF LifeSpec, TermIsKept

=============================================================================
