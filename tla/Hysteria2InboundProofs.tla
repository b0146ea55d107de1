----------------------- MODULE Hysteria2InboundProofs -----------------------
(***************************************************************************)
(* A reload of a Hysteria2 inbound loses no user and leaks nothing, moves  *)
(* a port without a pause, is never taken for done when it is not and,     *)
(* until a service fails to start on the port that was freed for it, does  *)
(* what the controller relies on: for any nodes of the panel, any users    *)
(* and any number of edits, failures and changes of the users.             *)
(***************************************************************************)
EXTENDS Hysteria2Inbound, TLAPS

Reloading == pc \in {"fill", "closeOld", "start", "swap", "closeRest"}

\* Who may be where: a call has a node, only a running inbound reloads, and
\* only for a change; the box knows whether the inbound runs.
Order ==
  /\ pc # "idle" \/ phase \notin {"boot", "exit"} => nodeInfo \in NodeInfo
  /\ pc = "stash" => ~started
  /\ Reloading => started /\ (PortChanged \/ SniChanged)
  /\ pc = "closeOld" => ~PortChanged
  /\ phase \in {"boot", "start", "exit"} => ~started
  /\ phase = "up" => started

\* The mirror has the users of the service and all users who stayed, and the
\* new service has the latter from the moment it is filled.
Users ==
  /\ serviceUsers = currentUsers
  /\ steady \subseteq currentUsers
  /\ pc \in {"closeOld", "start", "swap"} => steady \subseteq newUsers

\* What is open at every step of the handler.  Before the inbound runs, a
\* failed Start may have left some of its components; when it runs, the
\* socket can only be missing if a restart has failed (wasDown), or between
\* CloseOld and StartComponents.
Live ==
  /\ ~started => open \subseteq {options.port} /\ tlsStarted \subseteq {options.sni}
  /\ started /\ pc \notin {"swap", "closeRest"} =>
       /\ open \subseteq {options.port}
       /\ tlsStarted = {options.sni}
       /\ ~wasDown /\ (pc = "start" => PortChanged) => open = {options.port}
       /\ pc = "start" /\ ~PortChanged => open = {}
  /\ pc \in {"swap", "closeRest"} =>
       /\ NewOpts.port \in open /\ open \subseteq {options.port, NewOpts.port}
       /\ tlsStarted = {options.sni, NewOpts.sni}

\* Close does not wait for a tick in flight, and nothing is said of what a
\* closed inbound has open.
IInv == TypeOK /\ Order /\ service = options /\ (phase # "closed" => Live)

\* A running inbound that is not in the middle of a call has the settings of
\* the node that the controller fetched last, unless a retry of it is pending or
\* the tick that fetched it could not sync the users; and serves it, unless a
\* restart has failed.
ServesUnlessPending ==
  phase = "up" /\ pc = "idle" /\ ~reloadPending /\ ~skipped =>
    /\ service.port = nodeInfo.port
    /\ nodeInfo.host # NoHost => service.sni = nodeInfo.host
    /\ ~wasDown => open = {nodeInfo.port}

\* Until a restart fails, nobody listens only while the service is restarted
\* on its port for another SNI.
GapOnlyForSNI ==
  started /\ phase # "closed" /\ ~wasDown /\ open = {} =>
    pc = "start" /\ ~PortChanged /\ SniChanged

\* Only a pending retry, or a tick that could not sync the users, excuses
\* options that are not the node's.
Applied ==
  phase \notin {"boot", "exit"} /\ pc = "idle" /\ ~reloadPending /\ ~skipped =>
    options.port = nodeInfo.port /\ (nodeInfo.host # NoHost => options.sni = nodeInfo.host)

-----------------------------------------------------------------------------
\* newOpts is a pair of a port and an SNI, and not nil.
LEMMA NewOptsType ==
  nodeInfo \in NodeInfo /\ options \in Settings => NewOpts \in Settings /\ NewOpts # nil
<1> SUFFICES ASSUME nodeInfo \in NodeInfo, options \in Settings
             PROVE  NewOpts \in Settings /\ NewOpts # nil
  OBVIOUS
<1>1. nodeInfo.port \in Port /\ options.sni \in SNI
  BY DEF Port, Settings
<1>2. nodeInfo.host # NoHost => nodeInfo.host \in SNI
  BY DEF SNI
<1> QED
  BY <1>1, <1>2, ReloadAssumption DEF NewOpts, Settings

\* The same after a step.
LEMMA NewOptsNext ==
  (nodeInfo \in NodeInfo /\ options \in Settings => NewOpts \in Settings /\ NewOpts # nil)'
BY NewOptsType, PTL

\* The settings of the configuration file are settings.
LEMMA ConfigType == Config \in Settings
BY ReloadAssumption DEF Settings, Port, SNI

-----------------------------------------------------------------------------
\* No step of a reload, and no change of the users in between, loses a user:
\* Users is inductive by itself.
LEMMA NextUsers == Users /\ [Next]_vars => Users'
<1> SUFFICES ASSUME Users, [Next]_vars PROVE Users'
  OBVIOUS
<1> USE DEF Users
<1>1. CASE (EditNode \/ Tick \/ NoPort \/ SyncFails \/ Stop) /\ UNCHANGED <<liveVars, userVars>>
  BY <1>1 DEF EditNode, Tick, NoPort, SyncFails, Stop, userVars
<1>2. CASE Refuse
  BY <1>2 DEF Refuse, EarlyReturn, ReturnNil, ReturnError, userVars
<1>3. CASE BuildComponents
  BY <1>3 DEF BuildComponents, HotReload, PreStart, Continue, ReturnError
<1>4. CASE Stash
  BY <1>4 DEF Stash, ReturnNil
<1>5. CASE FillUsers
  BY <1>5 DEF FillUsers, Continue
<1>6. CASE CloseOld
  BY <1>6 DEF CloseOld, Continue, userVars
<1>7. CASE StartComponents
  BY <1>7 DEF StartComponents, Continue, ReturnError, userVars
<1>8. CASE SwapService
  BY <1>8 DEF SwapService, Continue
<1>9. CASE CloseRest
  BY <1>9 DEF CloseRest, ReturnNil, userVars
<1>10. CASE Start \/ Close
  BY <1>10 DEF Start, Close, userVars
<1>11. CASE \E U \in SUBSET UID : AddUsers(U) \/ RemoveUsers(U) \/ RefreshUsers(U)
  BY <1>11 DEF AddUsers, RemoveUsers, RefreshUsers, UserOp
<1>12. CASE UNCHANGED vars
  BY <1>12 DEF vars, userVars
<1> QED
  BY <1>1, <1>2, <1>3, <1>4, <1>5, <1>6, <1>7, <1>8, <1>9, <1>10, <1>11, <1>12
     DEF Next, ConfigureFromPanelNode

\* Whatever changes of the users fall into a reload, the service has the users
\* of the mirror, and a new service that has a socket knows everybody who
\* stayed.
THEOREM ReloadKeepsUsers == Spec => []UsersSurvive
<1>1. Init => Users
  BY DEF Init, InitReload, Users
<1>2. Users => UsersSurvive
  BY DEF Users, UsersSurvive
<1> QED
  BY <1>1, <1>2, NextUsers, PTL DEF Spec

-----------------------------------------------------------------------------
\* Before the first call there is nothing open.
LEMMA InitIInv == Init => IInv
<1> SUFFICES ASSUME Init PROVE IInv
  OBVIOUS
<1>1. TypeOK
  <2>1. 0 \in 0 .. MaxEdits /\ 0 \in 0 .. MaxFailures /\ 0 \in 0 .. MaxUserOps
    BY ReloadAssumption, Hysteria2Assumption
  <2> QED
    BY <2>1, ConfigType, Zenon DEF Init, InitReload, TypeOK, ReloadTypeOK
<1> QED
  BY <1>1 DEF Init, InitReload, IInv, Order, Live, Reloading

\* Every step of the box, of the monitor, of the handler and of the users
\* keeps the invariant.
LEMMA NextIInv == IInv /\ [Next]_vars => IInv'
<1> SUFFICES ASSUME IInv, [Next]_vars PROVE IInv'
  OBVIOUS
<1> USE DEF IInv
<1>0. /\ options \in Settings /\ options.port \in Port /\ options.sni \in SNI
      /\ nodeInfo \in NodeInfo =>
           NewOpts \in Settings /\ NewOpts.port \in Port /\ NewOpts.sni \in SNI
  BY NewOptsType DEF TypeOK, ReloadTypeOK, Settings
<1>c. ASSUME UNCHANGED <<nodeInfo, options>>
      PROVE  NewOpts' = NewOpts /\ PortChanged' = PortChanged /\ SniChanged' = SniChanged
  BY <1>c DEF NewOpts, PortChanged, SniChanged
<1>f. ASSUME Error PROVE failures' \in 0 .. MaxFailures
  BY <1>f, ReloadAssumption DEF Error, TypeOK, ReloadTypeOK
<1>1. CASE EditNode /\ UNCHANGED <<liveVars, userVars>>
  <2>1. TypeOK'
    <3>1. edits' \in 0 .. MaxEdits
      BY <1>1, ReloadAssumption DEF EditNode, TypeOK, ReloadTypeOK
    <3> QED
      BY <1>1, <3>1 DEF EditNode, TypeOK, ReloadTypeOK, liveVars, userVars
  <2> QED
    BY <1>1, <2>1, <1>c DEF EditNode, Order, Live, Reloading, liveVars
<1>2. CASE Tick /\ UNCHANGED <<liveVars, userVars>>
  <2>1. TypeOK'
    BY <1>2 DEF Tick, Ticking, TypeOK, ReloadTypeOK, liveVars, userVars
  <2> QED
    BY <1>2, <2>1 DEF Tick, Ticking, Order, Live, Reloading, liveVars, TypeOK, ReloadTypeOK
<1>3. CASE Stop /\ UNCHANGED <<liveVars, userVars>>
  <2>1. TypeOK'
    BY <1>3 DEF Stop, TypeOK, ReloadTypeOK, liveVars, userVars, gateVars
  <2> QED
    BY <1>3, <2>1, <1>c DEF Stop, Order, Live, Reloading, liveVars, gateVars
<1>4. CASE Refuse
  <2>1. TypeOK'
    BY <1>4, Zenon DEF Refuse, EarlyReturn, ReturnNil, ReturnError, TypeOK, ReloadTypeOK,
       gateVars,
       userVars
  <2> QED
    BY <1>4, <2>1 DEF Refuse, EarlyReturn, ReturnNil, ReturnError, Order, Live, Reloading,
       gateVars
<1>5. CASE BuildComponents
  <2>1. TypeOK'
    BY <1>5, <1>f, Zenon DEF BuildComponents, HotReload, PreStart, Continue, ReturnError,
       TypeOK,
       ReloadTypeOK, gateVars
  <2>2. Order'
    BY <1>5, <1>c DEF BuildComponents, HotReload, PreStart, Continue, ReturnError, Order,
       Reloading, gateVars
  <2> QED
    BY <1>5, <2>1, <2>2 DEF BuildComponents, HotReload, PreStart, Continue, ReturnError,
       Live, gateVars
<1>6. CASE Stash
  <2>1. TypeOK'
    BY <1>6, <1>0, Zenon DEF Stash, ReturnNil, TypeOK, ReloadTypeOK, gateVars, Order
  <2>2. Order'
    BY <1>6 DEF Stash, ReturnNil, Order, Reloading, gateVars
  <2> QED
    BY <1>6, <2>1, <2>2 DEF Stash, ReturnNil, Order, Live, gateVars
<1>7. CASE FillUsers
  <2>1. TypeOK'
    BY <1>7 DEF FillUsers, Continue, TypeOK, ReloadTypeOK, gateVars
  <2>2. Order'
    BY <1>7, <1>c DEF FillUsers, Continue, Order, Reloading, gateVars
  <2> QED
    BY <1>7, <2>1, <2>2, <1>c DEF FillUsers, Continue, Live, gateVars
<1>8. CASE CloseOld
  <2>1. TypeOK'
    BY <1>8 DEF CloseOld, Continue, TypeOK, ReloadTypeOK, gateVars, userVars
  <2>2. Order'
    BY <1>8, <1>c DEF CloseOld, Continue, Order, Reloading, gateVars
  <2> QED
    BY <1>8, <2>1, <2>2, <1>c DEF CloseOld, Continue, Live, gateVars, Order, Reloading
<1>9. CASE StartComponents
  <2>1. TypeOK'
    BY <1>9, <1>0, <1>f, Zenon DEF StartComponents, Continue, ReturnError, TypeOK,
       ReloadTypeOK,
       gateVars, userVars, Order
  <2>2. Order'
    BY <1>9, <1>c DEF StartComponents, Continue, ReturnError, Order, Reloading, gateVars
  <2> QED
    BY <1>9, <2>1, <2>2, <1>c, Zenon DEF StartComponents, Continue, ReturnError, Live,
       gateVars,
       Order, Reloading
<1>10. CASE SwapService
  <2>1. TypeOK'
    BY <1>10 DEF SwapService, Continue, TypeOK, ReloadTypeOK, gateVars
  <2>2. Order'
    BY <1>10, <1>c DEF SwapService, Continue, Order, Reloading, gateVars
  <2> QED
    BY <1>10, <2>1, <2>2, <1>c DEF SwapService, Continue, Live, gateVars
<1>11. CASE CloseRest
  <2>1. TypeOK'
    BY <1>11, <1>0, Zenon DEF CloseRest, ReturnNil, TypeOK, ReloadTypeOK, gateVars, userVars,
       Order
  <2>2. Order'
    BY <1>11 DEF CloseRest, ReturnNil, Order, Reloading, gateVars
  <2> QED
    BY <1>11, <2>1, <2>2 DEF CloseRest, ReturnNil, Live, PortChanged, SniChanged, Order,
       Reloading
<1>12. CASE Start
  <2>1. TypeOK'
    <3>1. open' \subseteq Port /\ tlsStarted' \subseteq SNI
      BY <1>12, <1>0 DEF Start, TypeOK
    <3> QED
      BY <1>12, <3>1, <1>f, Zenon DEF Start, TypeOK, ReloadTypeOK, gateVars, userVars
  <2>2. Order'
    BY <1>12 DEF Start, Order, Reloading, Unlocked, gateVars
  <2> QED
    BY <1>12, <2>1, <2>2, <1>c DEF Start, Order, Live, Unlocked, gateVars
<1>13. CASE Close
  <2>1. TypeOK'
    BY <1>13 DEF Close, TypeOK, ReloadTypeOK, gateVars, userVars
  <2> QED
    BY <1>13, <2>1, <1>c DEF Close, Order, Reloading, gateVars
<1>14. ASSUME NEW U \in SUBSET UID, AddUsers(U) \/ RemoveUsers(U) \/ RefreshUsers(U)
       PROVE  IInv'
  <2>1. UserOp /\ UNCHANGED <<gateVars, reloadPending, phase, pc, options, started, failures,
                             liveVars, newUsers>>
    BY <1>14 DEF AddUsers, RemoveUsers, RefreshUsers, UserOp
  <2>2. TypeOK'
    <3>1. userOps' \in 0 .. MaxUserOps
      BY <2>1, Hysteria2Assumption DEF UserOp, TypeOK
    <3>2. currentUsers' \subseteq UID /\ serviceUsers' \subseteq UID /\ steady' \subseteq UID
      BY <1>14 DEF AddUsers, RemoveUsers, RefreshUsers, TypeOK
    <3> QED
      BY <2>1, <3>1, <3>2 DEF TypeOK, ReloadTypeOK, gateVars, liveVars
  <2> QED
    BY <2>1, <2>2, <1>c DEF Order, Live, Reloading, gateVars, liveVars
<1>15. CASE UNCHANGED vars
  <2>1. TypeOK'
    BY <1>15 DEF vars, gateVars, liveVars, userVars, TypeOK, ReloadTypeOK
  <2>2. Order'
    BY <1>15, <1>c DEF vars, gateVars, liveVars, Order, Reloading
  <2>3. UNCHANGED <<options, started, pc, phase, open, tlsStarted, wasDown, service, nodeInfo>>
    BY <1>15 DEF vars, gateVars, liveVars
  <2> QED
    BY <2>1, <2>2, <2>3, <1>c DEF Live
<1>16. CASE (NoPort \/ SyncFails) /\ UNCHANGED <<liveVars, userVars>>
  <2>1. TypeOK'
    BY <1>16, <1>f DEF NoPort, SyncFails, Ticking, TypeOK, ReloadTypeOK, liveVars, userVars
  <2>2. /\ pc = "idle" /\ UNCHANGED <<pc, options, started>>
        /\ phase' = phase \/ (phase' = "exit" /\ phase = "boot")
    BY <1>16 DEF NoPort, SyncFails, Ticking
  <2>3. phase' \notin {"boot", "exit"} => nodeInfo' \in NodeInfo
    BY <1>16 DEF NoPort, SyncFails, Ticking, Order, TypeOK, ReloadTypeOK
  <2> QED
    BY <1>16, <2>1, <2>2, <2>3 DEF Order, Live, Reloading, liveVars
<1> QED
  BY <1>1, <1>2, <1>3, <1>4, <1>5, <1>6, <1>7, <1>8, <1>9, <1>10, <1>11, <1>12, <1>13,
     <1>14, <1>15, <1>16 DEF Next, ConfigureFromPanelNode

\* Between two calls, whatever failed before, a running inbound has no socket
\* but the one of its options and no TLS configuration but theirs.
THEOREM ReloadsLeakNothing == Spec => []NothingLeaked
<1>1. IInv => NothingLeaked
  BY DEF IInv, Order, Live, NothingLeaked
<1> QED
  BY InitIInv, NextIInv, <1>1, PTL DEF Spec

\* A change of the port never leaves clients without a listener: only the
\* restart of the service for another SNI does, or one that failed.
THEOREM PortMovesWithoutGap == Spec => []GapOnlyForSNI
<1>1. IInv => GapOnlyForSNI
  BY DEF IInv, Order, Live, Reloading, TypeOK, GapOnlyForSNI
<1> QED
  BY InitIInv, NextIInv, <1>1, PTL DEF Spec

\* Every step keeps the options the node's, or a retry pending.
LEMMA NextApplied == Applied /\ [Next]_vars => Applied'
<1> SUFFICES ASSUME Applied, [Next]_vars, pc' = "idle", ~reloadPending', ~skipped',
                    phase' \notin {"boot", "exit"}
             PROVE  (options.port = nodeInfo.port
                      /\ (nodeInfo.host # NoHost => options.sni = nodeInfo.host))'
  BY DEF Applied
<1>1. CASE /\ pc = "idle" /\ phase \notin {"boot", "exit"}
           /\ UNCHANGED <<nodeInfo, reloadPending, options, skipped>>
  BY <1>1 DEF Applied
<1>2. CASE UNCHANGED nodeInfo /\ options' = NewOpts
  BY <1>2 DEF NewOpts
<1>3. CASE UNCHANGED <<nodeInfo, options>> /\ ~PortChanged /\ ~SniChanged
  BY <1>3 DEF NewOpts, PortChanged, SniChanged
<1>4. CASE (EditNode \/ Tick \/ NoPort \/ SyncFails \/ Stop) /\ UNCHANGED <<liveVars, userVars>>
  BY <1>4, <1>1 DEF EditNode, Tick, NoPort, SyncFails, Ticking, Stop, gateVars
<1>5. CASE Refuse
  BY <1>5, <1>3 DEF Refuse, EarlyReturn, ReturnError, gateVars
<1>6. CASE Stash \/ CloseRest
  BY <1>6, <1>2 DEF Stash, CloseRest, gateVars
<1>7. CASE BuildComponents \/ FillUsers \/ CloseOld \/ StartComponents \/ SwapService
  BY <1>7 DEF BuildComponents, FillUsers, CloseOld, StartComponents, SwapService, Continue,
     ReturnError
<1>8. CASE Start \/ Close
  BY <1>8, <1>1 DEF Start, Close, gateVars
<1>9. CASE \E U \in SUBSET UID : AddUsers(U) \/ RemoveUsers(U) \/ RefreshUsers(U)
  BY <1>9, <1>1 DEF AddUsers, RemoveUsers, RefreshUsers, UserOp, gateVars
<1>10. CASE UNCHANGED vars
  BY <1>10, <1>1 DEF vars, gateVars
<1> QED
  BY <1>4, <1>5, <1>6, <1>7, <1>8, <1>9, <1>10 DEF Next, ConfigureFromPanelNode

\* A running Hysteria2 inbound that is not in the middle of a call has what the
\* node asks for, unless the controller knows that it has to try again or the
\* users could not be synced in the tick that fetched the node.
THEOREM ForgetsNothing == Spec => []ServesUnlessPending
<1>1. Init => Applied
  BY DEF Init, InitReload, Applied
<1>2. IInv /\ Applied => ServesUnlessPending
  BY DEF IInv, Order, Live, Applied, ServesUnlessPending
<1> QED
  BY InitIInv, NextIInv, NextApplied, <1>1, <1>2, PTL DEF Spec

-----------------------------------------------------------------------------
(* The contract, step by step.  An inbound that was closed, or that a failed *)
(* restart left down once, stays where nothing is claimed, so it is enough   *)
(* to look at one that was not.                                              *)

\* What clients are served, and what the call in progress asks for.
Serving == IF pc \in {"swap", "closeRest"} THEN NewOpts
           ELSE IF started /\ service.port \in open THEN service ELSE nil
Requested == IF pc = "idle" THEN nil ELSE NewOpts
Stage == IF phase = "closed" \/ wasDown THEN "closed" ELSE IF started THEN "up" ELSE "new"

\* What clients are served, told by where the handler is.
Served ==
  /\ ~started => Serving = nil
  /\ started /\ pc \in {"idle", "call", "fill", "closeOld"} => Serving = options
  /\ pc = "start" => Serving = IF PortChanged THEN options ELSE nil
  /\ pc \in {"swap", "closeRest"} => Serving = NewOpts

\* The invariant gives what clients are served.
LEMMA ServedIs == IInv /\ Stage # "closed" => Served
BY DEF Served, Serving, Stage, IInv, Live, Order, Reloading, TypeOK

\* The same after a step.
LEMMA ServedNext == (IInv /\ Stage # "closed" => Served)'
BY ServedIs, PTL

\* Every step of the system is a step of the contract.
LEMMA StepImplements ==
  ASSUME IInv, IInv', Next PROVE [Contract!Next]_(Contract!vars)
<1> USE DEF IInv
<1>0. CASE Stage = "closed"
  <2>1. Stage' = "closed"
    BY <1>0 DEF Stage, Next, ConfigureFromPanelNode, EditNode, Tick, NoPort, SyncFails,
       Ticking, Stop, Refuse,
       EarlyReturn,
       BuildComponents, Continue, Stash, FillUsers, CloseOld, StartComponents, SwapService,
       CloseRest, Start, Close, ReturnNil, ReturnError, AddUsers, RemoveUsers, RefreshUsers,
       UserOp, liveVars, TypeOK
  <2> QED
    BY <1>0, <2>1, Zenon DEF Stage, Contract!Next
<1> SUFFICES ASSUME Stage # "closed" PROVE [Contract!Next]_(Contract!vars)
  BY <1>0
<1>a. /\ options \in Settings
      /\ pc # "idle" => NewOpts \in Settings /\ NewOpts # nil
  BY NewOptsType DEF TypeOK, ReloadTypeOK, Order
<1>b. Served
  BY ServedIs
<1>c. Stage' # "closed" => Served'
  BY ServedNext
<1>d. ASSUME Stage' = Stage, options' = options, Requested' = Requested, Serving' = Serving
      PROVE  UNCHANGED Contract!vars
  BY <1>d, Zenon DEF Stage, Requested, Serving, Contract!vars
<1>e. ASSUME UNCHANGED <<nodeInfo, options>>
      PROVE  NewOpts' = NewOpts /\ PortChanged' = PortChanged
  BY <1>e DEF NewOpts, PortChanged
<1>m. ASSUME pc # "idle", Stage = "up", UNCHANGED <<Stage, options, Requested>>,
             Serving' \in {NewOpts, nil}
      PROVE  Contract!Next
  <2>1. NewOpts = [port |-> NewOpts.port, sni |-> NewOpts.sni]
    BY DEF NewOpts
  <2>2. Contract!Move
    BY <1>m, <1>a, <2>1 DEF Contract!Move, Contract!Between, Stage, Requested, Serving
  <2> QED
    BY <1>m, <2>2, Zenon DEF Contract!Next, Stage
<1>s. ASSUME pc # "idle", Stage' = Stage, options' = NewOpts, Requested' = nil,
             Serving' = IF started THEN NewOpts ELSE nil
      PROVE  Contract!Next
  <2>1. Contract!Succeed
    BY <1>s, <1>a DEF Contract!Succeed, Stage, Requested, Serving
  <2> QED
    BY <2>1 DEF Contract!Next, Stage
<1>x. ASSUME pc # "idle", Stage' = Stage, options' = options, Requested' = nil,
             Serving' = IF started THEN options ELSE nil
      PROVE  Contract!Next
  <2>1. Contract!Fail
    BY <1>x, <1>a DEF Contract!Fail, Stage, Requested, Serving
  <2> QED
    BY <2>1 DEF Contract!Next, Stage
<1>z. ASSUME Stage' = "closed" PROVE Contract!Next
  <2>1. Contract!Close
    BY <1>z DEF Contract!Close, Stage
  <2> QED
    BY <2>1 DEF Contract!Next, Stage
<1>1. CASE EditNode /\ UNCHANGED <<liveVars, userVars>>
  BY <1>1, <1>d, <1>e DEF EditNode, liveVars, Stage, Requested, Serving
<1>2. CASE Tick /\ UNCHANGED <<liveVars, userVars>>
  <2>1. Requested = nil /\ Requested' = NewOpts'
    BY <1>2 DEF Tick, Ticking, Requested
  <2>2. NewOpts' \in Settings
    <3>1. nodeInfo' \in NodeInfo /\ options' \in Settings
      BY <1>2 DEF Tick, Ticking, TypeOK, ReloadTypeOK
    <3> QED
      BY <3>1, NewOptsNext
  <2>3. Stage' = Stage /\ options' = options /\ Serving' = Serving
    BY <1>2 DEF Tick, Ticking, liveVars, Stage, Serving
  <2>4. Contract!Ask
    BY <2>1, <2>2, <2>3 DEF Contract!Ask, Contract!Settings, Settings, Requested, Stage,
       Serving
  <2> QED
    BY <2>4 DEF Contract!Next, Stage
<1>3. CASE Stop /\ UNCHANGED <<liveVars, userVars>>
  BY <1>3, <1>d, <1>e DEF Stop, gateVars, liveVars, Stage, Requested, Serving
<1>4. CASE Refuse
  <2>1. /\ pc # "idle" /\ Stage' = Stage /\ options' = options /\ Requested' = nil
        /\ Serving' = IF started THEN options ELSE nil
    BY <1>4, <1>c DEF Refuse, EarlyReturn, ReturnNil, ReturnError, Stage, Requested, Served
  <2> QED
    BY <2>1, <1>x
<1>5. CASE BuildComponents
  <2>1. /\ pc = "call" /\ Stage' = Stage /\ UNCHANGED <<nodeInfo, options, started>>
        /\ Serving = (IF started THEN options ELSE nil) /\ Serving' = Serving
        /\ pc' \in {"fill", "stash", "idle"}
    BY <1>5, <1>b, <1>c DEF BuildComponents, HotReload, PreStart, Continue, ReturnError,
       Stage,
       Served, gateVars
  <2>2. CASE pc' = "idle"
    BY <2>1, <2>2, <1>x DEF Requested
  <2> QED
    BY <2>1, <2>2, <1>d, <1>e DEF Requested
<1>6. CASE Stash
  <2>1. /\ pc # "idle" /\ Stage' = Stage /\ Requested' = nil /\ options' = NewOpts
        /\ ~started /\ Serving' = nil
    BY <1>6, <1>c DEF Stash, ReturnNil, Stage, Requested, Served, Order
  <2> QED
    BY <2>1, <1>s
<1>7. CASE FillUsers
  <2>1. /\ Stage' = Stage /\ UNCHANGED <<nodeInfo, options>>
        /\ pc # "idle" /\ pc' # "idle" /\ Serving = options
    BY <1>7, <1>b DEF FillUsers, Continue, gateVars, Stage, Served, Order, Reloading
  <2>2. Serving' = options
    BY <1>7, <2>1, <1>c, <1>e DEF FillUsers, Continue, Served, Order, Reloading
  <2> QED
    BY <2>1, <2>2, <1>d, <1>e DEF Requested
<1>8. CASE CloseOld
  <2>1. /\ pc # "idle" /\ pc' # "idle" /\ Stage = "up" /\ Stage' = Stage
        /\ UNCHANGED <<nodeInfo, options>>
    BY <1>8 DEF CloseOld, Continue, gateVars, Stage, Order, Reloading
  <2>2. Serving' = nil
    BY <1>8, <2>1, <1>c, <1>e DEF CloseOld, Continue, Served, Order
  <2> QED
    BY <2>1, <2>2, <1>m, <1>e DEF Requested
<1>9. CASE StartComponents
  <2>1. /\ pc = "start" /\ started /\ Stage = "up"
        /\ UNCHANGED <<nodeInfo, options, started, phase>>
    BY <1>9 DEF StartComponents, Continue, ReturnError, gateVars, Stage, Order, Reloading
  <2>2. CASE pc' = "swap"
    <3>1. Stage' = Stage /\ Serving' = NewOpts
      BY <1>9, <2>1, <2>2, <1>c, <1>e DEF StartComponents, ReturnError, Stage, Served
    <3> QED
      BY <2>1, <2>2, <3>1, <1>m, <1>e DEF Requested
  <2>3. CASE pc' = "idle" /\ PortChanged
    <3>1. Stage' = Stage /\ Serving' = options
      BY <1>9, <2>1, <2>3, <1>c DEF StartComponents, Continue, Stage, Served, TypeOK
    <3> QED
      BY <2>1, <2>3, <3>1, <1>x DEF Requested
  <2>4. CASE pc' = "idle" /\ ~PortChanged
    BY <1>9, <2>4, <1>z, Zenon DEF StartComponents, Continue, Stage
  <2> QED
    BY <1>9, <2>2, <2>3, <2>4 DEF StartComponents, Continue, ReturnError
<1>10. CASE SwapService
  <2>1. /\ pc = "swap" /\ pc' = "closeRest" /\ Stage' = Stage
        /\ UNCHANGED <<nodeInfo, options>>
    BY <1>10 DEF SwapService, Continue, gateVars, Stage
  <2> QED
    BY <2>1, <1>d, <1>e DEF Requested, Serving
<1>11. CASE CloseRest
  <2>1. /\ pc # "idle" /\ started /\ Stage' = Stage /\ options' = NewOpts
        /\ Requested' = nil /\ Serving' = NewOpts
    BY <1>11, <1>c DEF CloseRest, ReturnNil, Stage, Requested, Served, Order, Reloading
  <2> QED
    BY <2>1, <1>s
<1>12. CASE Start
  <2>1. CASE started'
    <3>1. /\ Stage = "new" /\ Stage' = "up" /\ options' = options /\ Requested' = Requested
          /\ Serving' = options
      BY <1>12, <2>1, <1>c, <1>e, Zenon DEF Start, Unlocked, gateVars, Stage, Requested,
         Served, Order
    <3>2. Contract!Start
      BY <3>1 DEF Contract!Start, Stage, Requested, Serving
    <3> QED
      BY <3>1, <3>2 DEF Contract!Next, Stage
  <2>2. CASE ~started'
    <3>1. /\ Stage' = Stage /\ options' = options /\ Requested' = Requested
          /\ Serving' = Serving
      BY <1>12, <2>2, <1>b, <1>c, <1>e DEF Start, gateVars, Stage, Requested, Served, Order
    <3> QED
      BY <3>1, <1>d
  <2> QED
    BY <2>1, <2>2
<1>13. CASE Close
  BY <1>13, <1>z DEF Close, Stage
<1>14. CASE \E U \in SUBSET UID : AddUsers(U) \/ RemoveUsers(U) \/ RefreshUsers(U)
  <2>1. UNCHANGED <<nodeInfo, options, pc, phase, started, wasDown, service, open>>
    BY <1>14 DEF AddUsers, RemoveUsers, RefreshUsers, UserOp, gateVars, liveVars
  <2> QED
    BY <2>1, <1>d, <1>e DEF Stage, Requested, Serving
<1>16. CASE (NoPort \/ SyncFails) /\ UNCHANGED <<liveVars, userVars>>
  <2>1. /\ pc = "idle" /\ UNCHANGED <<pc, options, started>>
        /\ phase' = phase \/ (phase' = "exit" /\ phase = "boot")
    BY <1>16 DEF NoPort, SyncFails, Ticking
  <2> QED
    BY <1>16, <2>1, <1>d DEF liveVars, Stage, Requested, Serving
<1> QED
  BY <1>1, <1>2, <1>3, <1>4, <1>5, <1>6, <1>7, <1>8, <1>9, <1>10, <1>11, <1>12, <1>13,
     <1>14, <1>16 DEF Next, ConfigureFromPanelNode

\* A reload of a Hysteria2 inbound does what the controller relies on, with a
\* gap where only the SNI changes, until a service fails to start on the port
\* that was freed for it: it implements ReloadContract.
THEOREM ImplementsContract == Spec => ContractSpec
<1>1. Init => Contract!Init
  BY ConfigType, ReloadAssumption DEF Init, InitReload, Contract!Init, Contract!Settings,
     Settings
<1>2. ASSUME UNCHANGED vars PROVE UNCHANGED Contract!vars
  BY <1>2 DEF vars, gateVars, liveVars, Contract!vars, NewOpts
<1>3. IInv /\ IInv' /\ [Next]_vars => [Contract!Next]_(Contract!vars)
  BY StepImplements, <1>2
<1> QED
  BY InitIInv, NextIInv, <1>1, <1>3, PTL DEF Spec, ContractSpec, Contract!Spec

=============================================================================
