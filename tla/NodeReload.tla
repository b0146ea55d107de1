----------------------------- MODULE NodeReload -----------------------------
(***************************************************************************)
(* Who calls an inbound's ConfigureFromPanelNode, and when.  The box runs  *)
(* Controller.Start, then starts the inbound, and at shutdown first stops  *)
(* the panel controllers and then closes the inbound.  Meanwhile the node  *)
(* monitor hands the inbound every changed node, and one that it refused   *)
(* again and again (reloadPending).  A tick that cannot sync the users     *)
(* returns before that, and one that finds a node without a port is the    *)
(* last.                                                                   *)
(*                                                                         *)
(* Stopping a controller does not wait for a tick in flight, so a call may *)
(* arrive when the box has gone on.  ConfigureFromPanelNode, Start and     *)
(* Close exclude each other (reloadMu).  The modules AnyTLSInbound,        *)
(* Hysteria2Inbound and NaiveInbound extend this one with the handlers.    *)
(***************************************************************************)
EXTENDS Naturals, FiniteSets

CONSTANTS
  Type,        \* the inbound's type
  NodeInfo,    \* what the panel can say of the node: type, port and host
  NoHost,      \* an empty host
  Config,      \* port and SNI of the configuration file, which enables TLS
  nil,
  MaxEdits,    \* bound: edits of the panel
  MaxFailures  \* bound: failed calls

MaxPort == 65535
Port == {n.port : n \in NodeInfo} \cup {Config.port}
SNI  == ({n.host : n \in NodeInfo} \ {NoHost}) \cup {Config.sni}
Settings == [port : Port, sni : SNI]

ASSUME ReloadAssumption ==
  /\ \A n \in NodeInfo : n.port \in Nat /\ n = [type |-> n.type, port |-> n.port,
                                                host |-> n.host]
  /\ Config = [port |-> Config.port, sni |-> Config.sni]
  /\ Config.port \in 1 .. MaxPort
  /\ nil \notin Port /\ nil \notin SNI /\ nil \notin Settings /\ nil \notin NodeInfo
  /\ MaxEdits \in Nat /\ MaxFailures \in Nat

VARIABLES
  panel,    \* the node that the panel serves now
  nodeInfo, reloadPending,  \* of the controller
  skipped,  \* history: a tick stored nodeInfo and returned before the inbound
            \* was called, and none has called it since
  ended,    \* the node monitor was ended by an error
  phase,    \* of the box: "boot" until Controller.Start returns, "start"
            \* until the inbound runs, "up", "stopped", "closed"; or "exit"
  pc,       \* "idle" between two calls of ConfigureFromPanelNode, "call" on
            \* the way to one, or where the handler is
  options,  \* the inbound's options
  started,  \* the inbound's started
  edits, failures

gateVars == <<panel, edits, nodeInfo, skipped, ended>>

\* reloadMu is free.
Unlocked == pc \in {"idle", "call"}

InitReload ==
  /\ panel \in NodeInfo
  /\ nodeInfo = nil /\ reloadPending = FALSE
  /\ skipped = FALSE /\ ended = FALSE
  /\ phase = "boot" /\ pc = "idle"
  /\ options = Config /\ started = FALSE
  /\ edits = 0 /\ failures = 0

-----------------------------------------------------------------------------
EditNode ==
  /\ edits < MaxEdits
  /\ edits' = edits + 1
  /\ \E n \in NodeInfo \ {panel} : panel' = n
  /\ UNCHANGED <<nodeInfo, skipped, ended, reloadPending, phase, pc, options, started,
                 failures>>

\* Controller.Start or the node monitor asks the panel for the node.
Ticking == pc = "idle" /\ phase \in {"boot", "start", "up"} /\ ~ended

\* A bug: a tick with an unmodified node never calls the inbound.
TickChangedOnly ==
  /\ Ticking /\ panel.port # 0
  /\ nodeInfo # panel
  /\ nodeInfo' = panel /\ skipped' = FALSE
  /\ pc' = "call"
  /\ UNCHANGED <<panel, edits, ended, reloadPending, phase, options, started, failures>>

\* Controller.Start, or a tick of the node monitor, that is going to call
\* the inbound.
Tick ==
  /\ Ticking /\ panel.port # 0
  /\ nodeInfo # panel \/ reloadPending
  /\ nodeInfo' = panel /\ skipped' = FALSE
  /\ pc' = "call"
  /\ UNCHANGED <<panel, edits, ended, reloadPending, phase, options, started, failures>>

\* A node without a port: Controller.Start fails, and the process ends; the
\* node monitor returns an error, and Periodic does not run it again.
NoPort ==
  /\ Ticking /\ panel.port = 0
  /\ \/ phase = "boot" /\ phase' = "exit" /\ UNCHANGED ended
     \/ phase # "boot" /\ ended' = TRUE /\ UNCHANGED phase
  /\ UNCHANGED <<panel, edits, nodeInfo, skipped, reloadPending, pc, options, started,
                 failures>>

\* Box.Close, first half: no further ticks.
Stop ==
  /\ phase = "up"
  /\ phase' = "stopped"
  /\ UNCHANGED <<gateVars, reloadPending, pc, options, started, failures>>

\* A fallible operation fails, while the bound lasts.
Error == failures < MaxFailures /\ failures' = failures + 1

\* The node monitor has stored a changed node and cannot sync the users: it
\* returns, and the panel will answer the next tick that nothing changed.
SyncFails ==
  /\ Ticking /\ phase # "boot" /\ panel.port # 0
  /\ nodeInfo # panel
  /\ Error
  /\ nodeInfo' = panel /\ skipped' = TRUE
  /\ UNCHANGED <<panel, edits, ended, reloadPending, phase, pc, options, started>>

\* ConfigureFromPanelNode returns nil; an error at boot ends the process.
ReturnNil ==
  /\ pc' = "idle"
  /\ reloadPending' = FALSE
  /\ phase' = IF phase = "boot" THEN "start" ELSE phase

ReturnError ==
  /\ pc' = "idle"
  /\ reloadPending' = TRUE
  /\ phase' = IF phase = "boot" THEN "exit" ELSE phase

-----------------------------------------------------------------------------
(* The beginning of ConfigureFromPanelNode, the same in the three inbounds. *)

Refused(n) == n.type # Type \/ n.port = 0 \/ n.port > MaxPort

\* newOpts: the node's port and, unless it has no host, its SNI.
NewOpts == [port |-> nodeInfo.port,
            sni |-> IF nodeInfo.host = NoHost THEN options.sni ELSE nodeInfo.host]

PortChanged == NewOpts.port # options.port
SniChanged  == NewOpts.sni # options.sni

\* The early returns: another type, a bad port, nothing to do.
EarlyReturn ==
  /\ pc = "call"
  /\ IF Refused(nodeInfo)
       THEN ReturnError
       ELSE started /\ ~PortChanged /\ ~SniChanged /\ ReturnNil
  /\ UNCHANGED <<gateVars, options, started, failures>>

\* The handler goes on to the reload of a running inbound.
HotReload == pc = "call" /\ ~Refused(nodeInfo) /\ started /\ (PortChanged \/ SniChanged)

\* The handler prepares an inbound that is not running yet.
PreStart == pc = "call" /\ ~Refused(nodeInfo) /\ ~started

ReloadTypeOK ==
  /\ panel \in NodeInfo
  /\ nodeInfo \in NodeInfo \cup {nil}
  /\ reloadPending \in BOOLEAN /\ skipped \in BOOLEAN /\ ended \in BOOLEAN
  /\ phase \in {"boot", "start", "up", "stopped", "closed", "exit"}
  /\ options \in Settings
  /\ started \in BOOLEAN
  /\ edits \in 0 .. MaxEdits
  /\ failures \in 0 .. MaxFailures

=============================================================================
