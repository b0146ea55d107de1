----------------------------- MODULE Lifecycle -----------------------------
(***************************************************************************)
(* The life of the process: cmd_run.go's run and create, Box.Start and     *)
(* Box.Close over an adapter.Scope, and the panel that POET.Start and      *)
(* POET.Stop run beside it, whose monitors are the tasks of Periodic.      *)
(*                                                                         *)
(* Every SIGHUP makes a new box in the same process.  What outlives a box  *)
(* is the process-wide singleton: the table of inbounds by tag, the active *)
(* panel, and goroutines that nobody waits for.  A task is a pair of the   *)
(* box whose panel runs it and the monitor's name.                         *)
(*                                                                         *)
(* The components of a box are taken in two groups, which is as much as    *)
(* the order of StartOrder tells apart: "core" (network, DNS, router,      *)
(* outbounds) and "inbound" (endpoints, inbounds, services).               *)
(***************************************************************************)
EXTENDS Periodic, Integers, Sequences, SequencesExt

CONSTANTS
  Tag,        \* inbound tags
  Configs,    \* what server.json and panel.json may say
  MaxReloads, \* bound: SIGHUPs sent to the process
  MaxEdits    \* bound: edits of the two files

Box == 1 .. MaxReloads + 1

ASSUME LifecycleAssumption ==
  /\ MaxReloads \in Nat
  /\ MaxEdits \in Nat
  /\ Configs \subseteq [server : SUBSET Tag, panel : SUBSET Tag]
  /\ \A k \in Task : k[1] \in Box

VARIABLES
  at,         \* where the main goroutine is
  after,      \* where it goes on when the panel is closed
  gen,        \* the number of the current box; 0 before the first
  step,       \* how many entries of StartOrder are done
  cleanups,   \* scope.cleanups of the box
  ctx,        \* boxes whose context is not cancelled
  panel,      \* activePanel: the box it was started for, or 0
  spawned,    \* tasks for which a goroutine was launched on Start
  toClose,    \* tasks that Panel.Close has still to close
  early,      \* history: tasks that were closed before their Start
  signals,    \* the channel of run, which holds one signal
  received,   \* why the box is being closed
  notified,   \* per box, the channel of create
  helper,     \* per box, the goroutine of create that reads it
  disk,       \* the two configuration files
  options,    \* the inbounds of server.json as run has read it
  inbounds,   \* the tags of the current box's inbounds
  registered, \* ss.Inbounds: per tag, the box of the inbound; 0 is no entry
  attached,   \* per tag, the box of the inbound its controller drives
  rejected,   \* history: a reload of this box failed its check
  sent,       \* signals sent so far
  edits       \* edits so far

procVars == <<at, after, gen, step, received, rejected>>
boxVars == <<cleanups, ctx, inbounds>>
panelVars == <<panel, spawned, toClose, early, attached>>
sigVars == <<signals, notified, helper, sent>>
fileVars == <<disk, options, edits>>
lifeVars == <<procVars, boxVars, panelVars, sigVars, fileVars, registered, vars>>

\* The inbounds that check's box registers and that nobody ever starts.
Checked == -1

\* The order of preStart and start, for the groups of components.
StartOrder ==
  <<"log", "panel", "core", "inbound", "core", "inbound",
    "core", "inbound", "core", "inbound">>

\* run has read server.json and listens for signals.
LifeInit ==
  /\ Init
  /\ at = "create" /\ after = "create" /\ gen = 0 /\ step = 0
  /\ received = "none" /\ rejected = FALSE
  /\ cleanups = <<>> /\ ctx = {} /\ inbounds = {}
  /\ panel = 0 /\ spawned = {} /\ toClose = {} /\ early = {}
  /\ attached = [t \in Tag |-> 0]
  /\ signals = "none" /\ sent = [hup |-> 0, term |-> 0]
  /\ notified = [b \in Box |-> "off"] /\ helper = [b \in Box |-> "off"]
  /\ disk \in Configs /\ options = disk.server /\ edits = 0
  /\ registered = [t \in Tag |-> 0]

OfBox(b) == {k \in Task : k[1] = b}

\* os.Exit, or run returns: the process and all its goroutines are gone.
Exit ==
  /\ at' = "exit" /\ after' = "create" /\ gen' = 0 /\ step' = 0
  /\ received' = "none" /\ rejected' = FALSE
  /\ cleanups' = <<>> /\ ctx' = {} /\ inbounds' = {}
  /\ panel' = 0 /\ spawned' = {} /\ toClose' = {} /\ early' = {}
  /\ attached' = [t \in Tag |-> 0]
  /\ signals' = "none" /\ sent' = [hup |-> 0, term |-> 0]
  /\ notified' = [b \in Box |-> "off"] /\ helper' = [b \in Box |-> "off"]
  /\ registered' = [t \in Tag |-> 0]
  /\ running' = [k \in Task |-> FALSE]
  /\ timer' = [k \in Task |-> NoThread]
  /\ pc' = [k \in Task |-> [t \in Thread |-> "idle"]]
  /\ launched' = {} /\ closed' = {}
  /\ UNCHANGED fileVars

\* The operator edits server.json and panel.json.
EditFiles ==
  /\ at # "exit" /\ edits < MaxEdits
  /\ disk' \in Configs \ {disk}
  /\ edits' = edits + 1
  /\ UNCHANGED <<options, procVars, boxVars, panelVars, sigVars, registered, vars>>

\* A bug: run listens for signals only while it is waiting for one.
NotifyLate(s) ==
  /\ signals' = IF signals = "none" /\ at = "wait" THEN s ELSE signals
  /\ notified' = [b \in Box |-> IF notified[b] = "empty" THEN "full" ELSE notified[b]]

\* os/signal gives a signal to every registered channel that has room.
Notify(s) ==
  /\ signals' = IF signals = "none" THEN s ELSE signals
  /\ notified' = [b \in Box |-> IF notified[b] = "empty" THEN "full" ELSE notified[b]]

Send(s) ==
  /\ at # "exit"
  /\ sent[s] < (IF s = "hup" THEN MaxReloads ELSE 1)
  /\ sent' = [sent EXCEPT ![s] = @ + 1]
  /\ Notify(s)
  /\ UNCHANGED <<procVars, boxVars, panelVars, helper, fileVars, registered, vars>>

-----------------------------------------------------------------------------
\* Inbounds that no node refers to are dropped, unless no node names any.
filterInboundsByPanel(server, nodes) == IF nodes = {} THEN server ELSE server \cap nodes

\* A bug: a tag that is registered keeps its first inbound.
SetInboudOnce(S, b) ==
  registered' = [t \in Tag |-> IF t \in S /\ registered[t] = 0 THEN b ELSE registered[t]]

\* Manager.Create registers every inbound of a new box under its tag.
SetInboud(S, b) ==
  registered' = [t \in Tag |-> IF t \in S THEN b ELSE registered[t]]

\* readConfigAndMerge, after the last box was closed.
ReadConfig ==
  /\ at = "read"
  /\ options' = disk.server
  /\ at' = "create"
  /\ UNCHANGED <<after, gen, step, received, rejected, boxVars, panelVars, sigVars,
                 disk, edits, registered, vars>>

\* create: what was read of server.json is filtered by panel.json as it is
\* now, unless that cannot be read, box.New makes the inbounds, and a second
\* channel and its goroutine wait for a signal during the start.
Create ==
  /\ at = "create"
  /\ gen' = gen + 1
  /\ inbounds' \in {filterInboundsByPanel(options, disk.panel), options}
  /\ SetInboud(inbounds', gen')
  /\ ctx' = ctx \cup {gen'}
  /\ notified' = [notified EXCEPT ![gen'] = "empty"]
  /\ helper' = [helper EXCEPT ![gen'] = "wait"]
  /\ at' = "start" /\ step' = 0 /\ received' = "none" /\ rejected' = FALSE
  /\ UNCHANGED <<after, cleanups, panelVars, signals, sent, fileVars, vars>>

\* server.json cannot be read, or box.New fails: run returns the error.
CreateFails == at \in {"read", "create"} /\ Exit

\* Box.Start closes what it has started and returns the error.
StartFails ==
  /\ at' = "close" /\ received' = "failed" /\ step' = 0
  /\ UNCHANGED <<after, gen, rejected, ctx, inbounds, panelVars, sigVars,
                 fileVars, registered, vars>>

NextStep ==
  /\ step' = step + 1
  /\ at' = IF step' = Len(StartOrder) THEN "finish" ELSE "start"
  /\ UNCHANGED <<after, gen, received, rejected, ctx, inbounds, panelVars, sigVars,
                 fileVars, registered, vars>>

\* The logger is started before everything, and does not ask the context.
StartLog ==
  /\ at = "start" /\ StartOrder[step + 1] = "log"
  /\ \/ cleanups' = Append(cleanups, "log") /\ NextStep
     \/ StartFails /\ UNCHANGED cleanups

\* POET.Start: panel.json is read again; each node whose tag is in the table
\* gets a controller, whose two monitors are launched and not waited for.
\* An active panel would be closed before this one takes its place.
StartPanel ==
  LET nodes == {t \in disk.panel : registered[t] # 0} IN
  /\ at = "start" /\ StartOrder[step + 1] = "panel"
  /\ nodes # {}
  /\ attached' = [t \in Tag |-> IF t \in nodes THEN registered[t] ELSE 0]
  /\ spawned' = spawned \cup OfBox(gen)
  /\ toClose' = OfBox(panel)
  /\ panel' = gen
  /\ step' = step + 1 /\ at' = "stop" /\ after' = "start"
  /\ UNCHANGED <<gen, received, rejected, boxVars, early, sigVars, fileVars, registered,
                 vars>>

\* panel.json does not parse: Box.Start fails.
PanelUnreadable ==
  /\ at = "start" /\ StartOrder[step + 1] = "panel"
  /\ StartFails
  /\ UNCHANGED cleanups

\* No node has an inbound, or a controller's Start fails: os.Exit.
PanelExits ==
  /\ at = "start" /\ StartOrder[step + 1] = "panel"
  /\ Exit

\* Scope.Start: nothing is started under a cancelled context; a component's
\* first stage registers its cleanup, before the component is asked to start.
StartComponent ==
  LET name == StartOrder[step + 1] IN
  /\ at = "start" /\ name \in {"core", "inbound"}
  /\ \/ /\ gen \notin ctx
        /\ StartFails
        /\ UNCHANGED cleanups
     \/ /\ gen \in ctx
        /\ cleanups' = IF name \in Range(cleanups) THEN cleanups ELSE Append(cleanups, name)
        /\ NextStep \/ StartFails

\* create returns the box and stops its channel; a signal that is already
\* in it is still delivered to the goroutine.
FinishStart ==
  /\ at = "finish"
  /\ at' = "wait" /\ step' = 0
  /\ notified' = [notified EXCEPT ![gen] = IF @ = "full" THEN "full" ELSE "off"]
  /\ helper' = [helper EXCEPT ![gen] = IF notified[gen] = "empty" /\ @ = "wait" THEN "off" ELSE @]
  /\ UNCHANGED <<after, gen, received, rejected, boxVars, panelVars, signals,
                 sent, fileVars, registered, vars>>

\* The goroutine of create: a signal cancels the box's context ...
HelperCancels(b) ==
  /\ at # "exit"
  /\ helper[b] = "wait" /\ notified[b] = "full"
  /\ ctx' = ctx \ {b}
  /\ helper' = [helper EXCEPT ![b] = "timer"]
  /\ notified' = [notified EXCEPT ![b] = "off"]
  /\ UNCHANGED <<procVars, cleanups, inbounds, panelVars, signals, sent, fileVars,
                 registered, vars>>

\* The start of box b has not returned yet.
Starting(b) ==
  /\ b = gen
  /\ \/ at = "start"
     \/ at = "stop" /\ after = "start"
     \/ at \in {"close", "stop", "teardown"} /\ received = "failed"

\* ... and its closeMonitor ends the process if the start does not return.
HelperTimeout(b) ==
  /\ at # "exit"
  /\ helper[b] = "timer"
  /\ \/ Starting(b) /\ Exit
     \/ /\ ~Starting(b)
        /\ helper' = [helper EXCEPT ![b] = "off"]
        /\ UNCHANGED <<procVars, boxVars, panelVars, signals, notified, sent,
                       fileVars, registered, vars>>

-----------------------------------------------------------------------------
\* run takes a signal: SIGHUP is checked first, any other closes the box.
TakeSignal ==
  /\ at = "wait" /\ signals # "none"
  /\ signals' = "none"
  /\ received' = signals
  /\ at' = IF signals = "hup" THEN "check" ELSE "close"
  /\ UNCHANGED <<after, gen, step, rejected, boxVars, panelVars, notified, helper,
                 sent, fileVars, registered, vars>>

\* A bug: the active panel is dropped and its controllers are not closed.
StopForgetting(next) ==
  /\ toClose' = {}
  /\ panel' = 0
  /\ at' = "stop" /\ after' = next
  /\ UNCHANGED <<spawned, early, attached>>

\* POET.Stop takes the active panel and closes its controllers.
Stop(next) ==
  /\ toClose' = OfBox(panel)
  /\ panel' = 0
  /\ at' = "stop" /\ after' = next
  /\ UNCHANGED <<spawned, early, attached>>

\* check makes a whole box of the new files, without the filter, and closes
\* it again; Box.Close stops the panel of the box that is running.
Check ==
  /\ at = "check"
  /\ SetInboud(disk.server, Checked)
  /\ Stop("close")
  /\ UNCHANGED <<gen, step, received, rejected, boxVars, sigVars, fileVars, vars>>

\* box.New fails after it has made some of the inbounds: the reload is
\* refused and the box goes on.
CheckFails ==
  /\ at = "check"
  /\ \E S \in SUBSET disk.server : SetInboud(S, Checked)
  /\ at' = "wait" /\ received' = "none" /\ rejected' = TRUE
  /\ UNCHANGED <<after, gen, step, boxVars, panelVars, sigVars, fileVars, vars>>

\* run cancels the context; Box.Close stops the panel before the scope.
BeginClose ==
  /\ at = "close"
  /\ ctx' = ctx \ {gen}
  /\ Stop("teardown")
  /\ UNCHANGED <<gen, step, received, rejected, cleanups, inbounds, sigVars,
                 fileVars, registered, vars>>

\* Controller.Close closes one task after the other.
CloseTask(k) ==
  /\ at = "stop" /\ k \in toClose
  /\ Close(k)
  /\ toClose' = toClose \ {k}
  /\ early' = early \cup ({k} \ launched)
  /\ UNCHANGED <<procVars, boxVars, panel, spawned, attached, sigVars, fileVars, registered>>

PanelClosed ==
  /\ at = "stop" /\ toClose = {}
  /\ at' = after /\ after' = "create"
  /\ UNCHANGED <<gen, step, received, rejected, boxVars, panelVars, sigVars,
                 fileVars, registered, vars>>

\* Scope.Close runs the cleanups from the last to the first.  One may hang.
Cleanup ==
  /\ at = "teardown" /\ cleanups # <<>>
  /\ cleanups' = Front(cleanups)
  /\ UNCHANGED <<procVars, ctx, inbounds, panelVars, sigVars, fileVars, registered, vars>>

\* The box is closed: after SIGHUP run goes on to the next, otherwise it ends.
Closed ==
  /\ at = "teardown" /\ cleanups = <<>>
  /\ \/ /\ received = "hup"
        /\ at' = "read"
        /\ UNCHANGED <<after, gen, step, received, rejected, boxVars, panelVars,
                       sigVars, fileVars, registered, vars>>
     \/ received # "hup" /\ Exit

\* A bug: a close that hangs is waited for.
CloseMonitorOff == FALSE /\ Exit

\* closeMonitor: a close on a signal that takes too long ends the process.
CloseMonitor ==
  /\ \/ at = "stop" /\ after = "teardown"
     \/ at = "teardown"
  /\ received \in {"hup", "term"}
  /\ Exit

\* The goroutines of the monitors.
Launch(k, t) ==
  /\ k \in spawned
  /\ Start(k, t)
  /\ UNCHANGED <<procVars, boxVars, panelVars, sigVars, fileVars, registered>>

TaskStep(k, t) ==
  /\ Step(k, t)
  /\ UNCHANGED <<procVars, boxVars, panelVars, sigVars, fileVars, registered>>

Main ==
  \/ ReadConfig \/ Create \/ CreateFails \/ StartLog \/ StartPanel \/ PanelUnreadable \/ PanelExits
  \/ StartComponent \/ FinishStart \/ TakeSignal \/ Check \/ CheckFails \/ BeginClose
  \/ \E k \in Task : CloseTask(k)
  \/ PanelClosed \/ Closed

LifeNext ==
  \/ Main \/ Cleanup \/ CloseMonitor \/ EditFiles
  \/ \E s \in {"hup", "term"} : Send(s)
  \/ \E b \in Box : HelperCancels(b) \/ HelperTimeout(b)
  \/ \E k \in Task, t \in Thread : Launch(k, t) \/ TaskStep(k, t)

LifeSpec == LifeInit /\ [][LifeNext]_lifeVars

\* The main goroutine, the two kinds of closeMonitor and the monitors go on.
\* A component's cleanup need not return when a signal closes the box; after
\* a failed start, where run has no closeMonitor, it is assumed to.
MainFairness ==
  /\ WF_lifeVars(Main)
  /\ WF_lifeVars(received = "failed" /\ Cleanup)
  /\ WF_lifeVars(CloseMonitor)
  /\ \A b \in Box : WF_lifeVars(HelperCancels(b) \/ HelperTimeout(b))

LifeFairness ==
  /\ MainFairness
  /\ \A k \in Task : WF_lifeVars(\E t \in Thread : Launch(k, t) \/ TaskStep(k, t))

FairLifeSpec == LifeSpec /\ LifeFairness

-----------------------------------------------------------------------------
\* A monitor that is running belongs to the active panel, or Panel.Close is
\* about to close it.  While the components of a box are taken down, after a
\* signal or a start that failed half-way, and until the next panel starts,
\* there is none: POET.Stop, Panel.Close and Controller.Close forget nobody.
\* The exception is a task whose Start, which Controller.Start does not wait
\* for, came after its Close.
NothingLeftRunning ==
  \A k \in Task :
    running[k] =>
      \/ k \in early
      \/ at \notin {"teardown", "read", "create"} /\ (k[1] = panel \/ k \in toClose)

\* A node whose inbound is part of the current box is attached to that
\* inbound, and not to one of the same tag from a box that was closed or
\* only checked: Panel.Start looks tags up in a table that is never cleared.
AttachedToOwn ==
  panel # 0 /\ panel = gen =>
    \A t \in inbounds : attached[t] \in {0, gen}

\* A box that stays up has a live context.  A signal that arrives as the
\* start ends cancels it, but is also in run's channel and closes the box,
\* unless it is a SIGHUP whose check fails.
CancelledIsClosing ==
  at = "wait" /\ gen \notin ctx => signals # "none" \/ rejected

\* A SIGTERM that run's channel has taken ends the process, in whatever step
\* of a start, a reload or a close it arrives, and if cleanups hang.
StopsOnTerm == signals = "term" ~> at = "exit"

=============================================================================
