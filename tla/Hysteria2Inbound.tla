-------------------------- MODULE Hysteria2Inbound --------------------------
(***************************************************************************)
(* protocol/hysteria2: Start, Close, the hot reload and the panel's users. *)
(* TLS is part of the QUIC service, so every reload builds a new service   *)
(* and fills it from the mirror currentUsers.  A new port is bound before  *)
(* the old service is closed; for the same port the old service has to go  *)
(* first, and nothing brings it back.                                      *)
(*                                                                         *)
(* A service is named by the settings it is built from: tlsConfig,         *)
(* listener and service are swapped together, so `service' stands for all  *)
(* three.  The panel's users change under usersMu at any time.             *)
(***************************************************************************)
EXTENDS NodeReload

CONSTANTS
  UID,
  MaxUserOps  \* bound: calls that change the users

ASSUME Hysteria2Assumption == MaxUserOps \in Nat

VARIABLES
  service,     \* h.service, h.listener and h.tlsConfig: their settings
  serviceUsers, newUsers,  \* user tables of h.service and of the new service
  currentUsers,  \* the mirror
  open,        \* ports with an open socket
  tlsStarted,  \* TLS configurations started and not closed
  steady,      \* history: users in the mirror ever since the reload began
  wasDown,     \* history: a service has failed to start on the port it had
  userOps

liveVars == <<service, open, tlsStarted, wasDown>>
userVars == <<serviceUsers, newUsers, currentUsers, steady, userOps>>
vars == <<gateVars, reloadPending, phase, pc, options, started, failures, liveVars,
          userVars>>

Init ==
  /\ InitReload
  /\ service = Config
  /\ serviceUsers = {} /\ newUsers = {} /\ currentUsers = {} /\ steady = {}
  /\ open = {} /\ tlsStarted = {}
  /\ wasDown = FALSE /\ userOps = 0

-----------------------------------------------------------------------------
(* The panel's users, by the controller's syncUserList. *)

UserOp ==
  /\ userOps < MaxUserOps
  /\ userOps' = userOps + 1
  /\ UNCHANGED <<gateVars, reloadPending, phase, pc, options, started, failures,
                 liveVars, newUsers>>

AddUsers(U) ==
  /\ UserOp
  /\ currentUsers' = currentUsers \cup U
  /\ serviceUsers' = serviceUsers \cup U
  /\ UNCHANGED steady

RemoveUsers(U) ==
  /\ UserOp
  /\ currentUsers' = currentUsers \ U
  /\ serviceUsers' = serviceUsers \ U
  /\ steady' = steady \ U

RefreshUsers(U) ==
  /\ UserOp
  /\ currentUsers' = U
  /\ serviceUsers' = U
  /\ steady' = steady \cap U

-----------------------------------------------------------------------------
(* ConfigureFromPanelNode. *)

Continue(l) == pc' = l /\ UNCHANGED <<reloadPending, phase>>

Refuse == /\ EarlyReturn
          /\ UNCHANGED <<service, open, tlsStarted, wasDown, userVars>>

\* buildComponents: a new service without users.
BuildComponents ==
  /\ HotReload \/ PreStart
  /\ \/ /\ Continue(IF started THEN "fill" ELSE "stash")
        /\ newUsers' = {}
        /\ steady' = currentUsers
        /\ UNCHANGED failures
     \/ /\ Error
        /\ ReturnError
        /\ UNCHANGED <<newUsers, steady>>
  /\ UNCHANGED <<gateVars, options, started, service, open, tlsStarted, wasDown,
                 serviceUsers, currentUsers, userOps>>

\* Before Start: the new components replace the old ones, of which a failed
\* Start may have started some.
Stash ==
  /\ pc = "stash"
  /\ serviceUsers' = currentUsers
  /\ service' = NewOpts /\ options' = NewOpts
  /\ open' = open \ {service.port}
  /\ tlsStarted' = tlsStarted \ {service.sni}
  /\ ReturnNil
  /\ UNCHANGED <<gateVars, started, failures, wasDown, newUsers, currentUsers, steady,
                 userOps>>

\* A bug: the new service starts without users.
FillUsersLater ==
  /\ pc = "fill"
  /\ Continue(IF PortChanged THEN "start" ELSE "closeOld")
  /\ UNCHANGED <<gateVars, options, started, failures, service, open, tlsStarted,
                 wasDown, userVars>>

\* A bug: the old service is closed also when the port changes.
FillUsersCloseFirst ==
  /\ pc = "fill"
  /\ newUsers' = currentUsers
  /\ Continue("closeOld")
  /\ UNCHANGED <<gateVars, options, started, failures, service, open, tlsStarted,
                 wasDown, serviceUsers, currentUsers, steady, userOps>>

\* The users are in the new service before it serves anybody.
FillUsers ==
  /\ pc = "fill"
  /\ newUsers' = currentUsers
  /\ Continue(IF PortChanged THEN "start" ELSE "closeOld")
  /\ UNCHANGED <<gateVars, options, started, failures, service, open, tlsStarted,
                 wasDown, serviceUsers, currentUsers, steady, userOps>>

\* Only the SNI changed: free the port.
CloseOld ==
  /\ pc = "closeOld"
  /\ open' = open \ {service.port}
  /\ Continue("start")
  /\ UNCHANGED <<gateVars, options, started, failures, service, tlsStarted, wasDown,
                 userVars>>

\* A bug: what startComponents started before it failed is not closed.
StartComponentsLeak ==
  /\ pc = "start"
  /\ \/ /\ open' = open \cup {NewOpts.port}
        /\ tlsStarted' = tlsStarted \cup {NewOpts.sni}
        /\ Continue("swap")
        /\ UNCHANGED <<failures, wasDown>>
     \/ /\ Error
        /\ open' = open \cup {NewOpts.port}
        /\ tlsStarted' = tlsStarted \cup {NewOpts.sni}
        /\ ReturnError
        /\ wasDown' = (wasDown \/ ~PortChanged)
  /\ UNCHANGED <<gateVars, options, started, service, userVars>>

\* startComponents; after a failure all new components are closed.
StartComponents ==
  /\ pc = "start"
  /\ \/ /\ open' = open \cup {NewOpts.port}
        /\ tlsStarted' = tlsStarted \cup {NewOpts.sni}
        /\ Continue("swap")
        /\ UNCHANGED <<failures, wasDown>>
     \/ /\ Error
        /\ ReturnError
        /\ wasDown' = (wasDown \/ ~PortChanged)
        /\ UNCHANGED <<open, tlsStarted>>
  /\ UNCHANGED <<gateVars, options, started, service, userVars>>

\* The second applyUsersLocked and the swap of h.service.
SwapService ==
  /\ pc = "swap"
  /\ serviceUsers' = currentUsers
  /\ Continue("closeRest")
  /\ UNCHANGED <<gateVars, options, started, failures, service, open, tlsStarted,
                 wasDown, newUsers, currentUsers, steady, userOps>>

\* The rest of the swap; what is left of the old components is closed.
CloseRest ==
  /\ pc = "closeRest"
  /\ service' = NewOpts /\ options' = NewOpts
  /\ open' = IF PortChanged THEN open \ {service.port} ELSE open
  /\ tlsStarted' = IF SniChanged THEN tlsStarted \ {service.sni} ELSE tlsStarted
  /\ ReturnNil
  /\ UNCHANGED <<gateVars, started, failures, wasDown, userVars>>

-----------------------------------------------------------------------------
\* Start brings the current components up.  An error makes the box close.
Start ==
  /\ phase = "start" /\ Unlocked
  /\ \/ /\ tlsStarted' = {service.sni} /\ open' = {service.port}
        /\ started' = TRUE
        /\ phase' = "up"
        /\ UNCHANGED failures
     \/ /\ Error
        /\ phase' = "stopped"
        /\ \/ UNCHANGED <<tlsStarted, open>>
           \/ tlsStarted' = {service.sni} /\ open' \in {{}, {service.port}}
        /\ UNCHANGED started
  /\ UNCHANGED <<gateVars, reloadPending, pc, options, service, wasDown, userVars>>

\* Close whatever is current now.
Close ==
  /\ phase = "stopped" /\ Unlocked
  /\ phase' = "closed"
  /\ open' = open \ {service.port}
  /\ tlsStarted' = tlsStarted \ {service.sni}
  /\ UNCHANGED <<gateVars, reloadPending, pc, options, started, failures, service,
                 wasDown, userVars>>

ConfigureFromPanelNode ==
  \/ Refuse \/ BuildComponents \/ Stash \/ FillUsers \/ CloseOld
  \/ StartComponents \/ SwapService \/ CloseRest

Next == \/ (EditNode \/ Tick \/ NoPort \/ SyncFails \/ Stop) /\ UNCHANGED <<liveVars, userVars>>
        \/ ConfigureFromPanelNode
        \/ Start \/ Close
        \/ \E U \in SUBSET UID : AddUsers(U) \/ RemoveUsers(U) \/ RefreshUsers(U)

Spec == Init /\ [][Next]_vars

\* The node monitor keeps ticking (Periodic!KeepsTicking) and its calls and
\* the box's Start return.
FairSpec == /\ Spec
            /\ WF_vars(Tick /\ UNCHANGED <<liveVars, userVars>>)
            /\ WF_vars(ConfigureFromPanelNode)
            /\ WF_vars(Start)

-----------------------------------------------------------------------------
TypeOK ==
  /\ ReloadTypeOK
  /\ pc \in {"idle", "call", "stash", "fill", "closeOld", "start", "swap", "closeRest"}
  /\ service \in Settings
  /\ open \subseteq Port /\ tlsStarted \subseteq SNI
  /\ serviceUsers \subseteq UID /\ newUsers \subseteq UID
  /\ currentUsers \subseteq UID /\ steady \subseteq UID
  /\ wasDown \in BOOLEAN /\ userOps \in 0 .. MaxUserOps

\* Whatever user updates fall between the steps of a reload, the service that
\* the panel's updates go to has exactly the users of the mirror.
\* And a new service that has a socket knows every user who was there all
\* along: "it never serves on a live port with an empty user table".
UsersSurvive ==
  /\ serviceUsers = currentUsers
  /\ pc = "swap" => steady \subseteq newUsers

\* Between two calls, whatever failed, a running inbound has no socket but
\* the one of its options and no TLS configuration but theirs.
NothingLeaked ==
  phase = "up" /\ pc = "idle" =>
    open \subseteq {options.port} /\ tlsStarted = {options.sni} /\ service = options

\* A reload does what the controller relies on, with a gap in service where
\* only the SNI changes, until a service fails to start on the port that was
\* just freed: from then on nothing is claimed, as of a closed inbound.
Contract == INSTANCE ReloadContract WITH
  Gap <- TRUE,
  phase <- IF phase = "closed" \/ wasDown THEN "closed" ELSE IF started THEN "up" ELSE "new",
  settings <- options,
  request <- IF pc = "idle" THEN nil ELSE NewOpts,
  serving <- IF pc \in {"swap", "closeRest"} THEN NewOpts
             ELSE IF started /\ service.port \in open THEN service ELSE nil

ContractSpec == Contract!Spec

\* An inbound that a failed restart left down is brought up by the retries of
\* the node monitor, unless the panel changes the node before that.
Retrying == /\ phase = "up" /\ pc = "idle" /\ open = {}
            /\ reloadPending /\ nodeInfo = panel /\ ~Refused(panel)
            /\ ~skipped /\ ~ended

RetryBringsUp == Retrying ~> (open # {} \/ nodeInfo # panel \/ phase # "up")

=============================================================================
