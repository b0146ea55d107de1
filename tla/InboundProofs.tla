---------------------------- MODULE InboundProofs ----------------------------
(***************************************************************************)
(* The two inbounds that bring up the new before they close the old.       *)
(*                                                                         *)
(* Naive and AnyTLS inbounds are clean between two reloads, are served     *)
(* without a pause, never lose a reload that the controller takes for done *)
(* and implement the contract that the controller relies on, for any       *)
(* networks, nodes of the panel, and number of edits and failures.  A      *)
(* Naive inbound also stays closed once it was closed.                     *)
(*                                                                         *)
(* What both share comes first, in terms of TLSReload.  A is the           *)
(* specification of AnyTLS, with the variables and constants of the same   *)
(* names, and what is defined here of it has a name that begins with A.    *)
(***************************************************************************)
EXTENDS NaiveInbound, TLAPS

A == INSTANCE AnyTLSInbound

-----------------------------------------------------------------------------
(* Both *)

\* Ports do not share sockets.
LEMMA SocketsApart ==
  ASSUME NEW p, NEW q, p # q
  PROVE  Sockets(p) \ Sockets(q) = Sockets(p)
BY DEF Sockets

\* The sockets of a port are those of TCP and those of UDP.
LEMMA Halves ==
  ASSUME NEW p \in Port
  PROVE  Sockets(p) = (Sockets(p) \cap (Port \X {"tcp"})) \cup (Sockets(p) \cap (Port \X {"udp"}))
BY NetworkAssumption, Zenon DEF Sockets

\* Sockets are pairs of a port and a network.
LEMMA SocketsType == ASSUME NEW p \in Port PROVE Sockets(p) \subseteq Port \X Network
BY DEF Sockets

\* newOpts is a pair of a port and an SNI, and not nil.
LEMMA NewOptsType ==
  nodeInfo \in NodeInfo /\ options \in Settings => NewOpts \in Settings /\ NewOpts # nil
<1> SUFFICES ASSUME nodeInfo \in NodeInfo, options \in Settings
             PROVE  NewOpts \in Settings /\ NewOpts # nil
  OBVIOUS
<1>1. nodeInfo.port \in Port /\ options.sni \in SNI
  BY DEF Port, Settings
<1>2. nodeInfo.host # NoHost => nodeInfo.host \in SNI
  BY DEF SNI
<1> QED
  BY <1>1, <1>2, ReloadAssumption DEF NewOpts, Settings

\* The same after a step.
LEMMA NewOptsNext ==
  (nodeInfo \in NodeInfo /\ options \in Settings => NewOpts \in Settings /\ NewOpts # nil)'
BY NewOptsType, PTL

\* The settings of the configuration file are settings.
LEMMA ConfigType == Config \in Settings
BY ReloadAssumption DEF Settings, Port, SNI

\* What clients are served, and what the call in progress asks for.
Serving == IF started /\ Sockets(listener) \subseteq open /\ tlsConfig \in tlsStarted
             THEN [port |-> listener, sni |-> tlsConfig] ELSE nil
Requested == IF pc = "idle" THEN nil ELSE NewOpts
Stage == IF phase = "closed" THEN "closed" ELSE IF started THEN "up" ELSE "new"

\* The options are what a node asks for.
Takes(n) == options.port = n.port /\ (n.host # NoHost => options.sni = n.host)

\* Only a pending retry, or a tick that could not sync the users, excuses
\* options that are not the node's.
Applied ==
  phase \notin {"boot", "exit", "closed"} /\ pc = "idle" /\ ~reloadPending /\ ~skipped
    => Takes(nodeInfo)

\* A running inbound that is not in the middle of a call serves the node that
\* the controller fetched last, unless a retry of it is pending or the tick that
\* fetched it could not sync the users.
ServesUnlessPending ==
  phase = "up" /\ pc = "idle" /\ ~reloadPending /\ ~skipped => Serves(nodeInfo)

\* From Start to Close clients are served on all networks: as the options say
\* or, in the middle of a call, on the port that it asks for.
AlwaysServed ==
  started /\ phase # "closed" =>
    Serving \in {options} \cup (IF pc = "idle" THEN {}
                                ELSE {[port |-> NewOpts.port, sni |-> options.sni]})

\* A step that changes nothing of it is a stuttering step of the contract.
LEMMA ContractStutter ==
  ASSUME Stage' = Stage, options' = options, Requested' = Requested, Serving' = Serving
  PROVE  UNCHANGED Contract!vars
BY DEF Stage, Requested, Serving, Contract!vars

\* A call that begins is a request.
LEMMA ContractAsk ==
  ASSUME Stage # "closed", Requested = nil, Requested' \in Settings,
         Stage' = Stage, options' = options, Serving' = Serving
  PROVE  Contract!Next
<1>1. Contract!Ask
  BY DEF Contract!Ask, Contract!Settings, Settings, Requested, Stage, Serving
<1> QED
  BY <1>1 DEF Contract!Next, Stage

\* The new port may be served with the old TLS configuration in the middle of
\* a call.
LEMMA ContractMove ==
  ASSUME options \in Settings, pc # "idle", NewOpts # nil, Stage = "up",
         UNCHANGED <<Stage, options, Requested>>,
         Serving' = [port |-> NewOpts.port, sni |-> options.sni]
  PROVE  Contract!Next
<1>1. Contract!Move
  BY DEF Contract!Move, Contract!Between, Stage, Requested, Serving
<1> QED
  BY <1>1 DEF Contract!Next, Stage

\* A call that returns nil has succeeded.
LEMMA ContractSucceed ==
  ASSUME phase # "closed", pc # "idle", NewOpts # nil, Stage' = Stage, options' = NewOpts,
         Requested' = nil, Serving' = IF started THEN NewOpts ELSE nil
  PROVE  Contract!Next
<1>1. Contract!Succeed
  BY DEF Contract!Succeed, Stage, Requested, Serving
<1> QED
  BY <1>1 DEF Contract!Next

\* A call that leaves the inbound as it was has failed.
LEMMA ContractFail ==
  ASSUME phase # "closed", pc # "idle", NewOpts # nil, Stage' = Stage, options' = options,
         Requested' = nil, Serving' = IF started THEN options ELSE nil
  PROVE  Contract!Next
<1>1. Contract!Fail
  BY DEF Contract!Fail, Stage, Requested, Serving
<1> QED
  BY <1>1 DEF Contract!Next

\* Start serves what was remembered.
LEMMA ContractStart ==
  ASSUME Stage = "new", Stage' = "up", options' = options, Requested' = Requested,
         Serving' = options
  PROVE  Contract!Next
<1>1. Contract!Start
  BY DEF Contract!Start, Stage, Requested, Serving
<1> QED
  BY <1>1 DEF Contract!Next, Stage

\* Close ends it.
LEMMA ContractClose == ASSUME phase # "closed", phase' = "closed" PROVE Contract!Next
<1>1. Contract!Close
  BY DEF Contract!Close
<1> QED
  BY <1>1 DEF Contract!Next

-----------------------------------------------------------------------------
(* Naive *)

Reloading == pc \in {"tcp", "udp", "swap", "swapTLS"}

\* Who may be where: a call has a node, only a running inbound reloads, no
\* reload is under way when Close takes the lock, nor begins afterwards.
Order ==
  /\ pc # "idle" \/ phase \notin {"boot", "exit"} => nodeInfo \in NodeInfo
  /\ Reloading => started /\ ~closed
  /\ phase \in {"boot", "start", "exit"} => ~started
  /\ phase = "up" => started
  /\ closed <=> phase = "closed"

\* The sockets of the new port that exist after TCP was bound.
Half(net) == Sockets(NewOpts.port) \cap (Port \X {net})

\* What is open and what is current at every step of the handler.
Live ==
  /\ listener = (IF pc = "swapTLS" THEN NewOpts.port ELSE options.port)
  /\ tlsConfig = options.sni
  /\ ~started => open = {} /\ tlsStarted \subseteq {tlsConfig}
  /\ started /\ Unlocked => open = Sockets(options.port) /\ tlsStarted = {options.sni}
  /\ pc = "tcp" => open = Sockets(options.port)
  /\ pc = "udp" => open = Sockets(options.port) \cup Half("tcp")
  /\ pc = "swap" => open = Sockets(options.port) \cup Sockets(NewOpts.port)
  /\ pc = "swapTLS" => open = Sockets(NewOpts.port)
  /\ Reloading => tlsStarted = {options.sni, NewOpts.sni}

IInv == TypeOK /\ Order /\ ClosedStaysClosed /\ (phase # "closed" => Live)

-----------------------------------------------------------------------------
\* Before the first call there is nothing open.
LEMMA InitIInv == Init => IInv
<1> SUFFICES ASSUME Init PROVE IInv
  OBVIOUS
<1>1. Config.port \in Port /\ Config.sni \in SNI
  BY ConfigType DEF Settings
<1>2. TypeOK
  <2>1. 0 \in 0 .. MaxEdits /\ 0 \in 0 .. MaxFailures
    BY ReloadAssumption
  <2> QED
    BY <1>1, <2>1, ConfigType, Zenon DEF Init, InitTLS, InitReload, TypeOK, TLSTypeOK,
       ReloadTypeOK
<1> QED
  BY <1>2 DEF Init, InitTLS, InitReload, IInv, Order, Live, Reloading, Unlocked,
     ClosedStaysClosed

\* Every step of the box, of the monitor and of the handler keeps the
\* invariant.
LEMMA NextIInv == IInv /\ [Next]_vars => IInv'
<1> SUFFICES ASSUME IInv, [Next]_vars PROVE IInv'
  OBVIOUS
<1> USE DEF IInv
<1>0. options \in Settings /\ (nodeInfo \in NodeInfo => NewOpts \in Settings)
  BY NewOptsType DEF TypeOK, TLSTypeOK, ReloadTypeOK
<1>t. /\ options.port \in Port /\ options.sni \in SNI
      /\ nodeInfo \in NodeInfo => NewOpts.port \in Port /\ NewOpts.sni \in SNI
  BY <1>0 DEF Settings
<1>c. ASSUME UNCHANGED <<nodeInfo, options>>
      PROVE  NewOpts' = NewOpts /\ Half("tcp")' = Half("tcp")
  BY <1>c DEF NewOpts, Half
<1>f. ASSUME Error PROVE failures' \in 0 .. MaxFailures
  BY <1>f, ReloadAssumption DEF Error, TypeOK, TLSTypeOK, ReloadTypeOK
<1>g. ClosedStaysClosed /\ (phase = "closed" => closed /\ Unlocked)
  BY DEF Order, Reloading, Unlocked, TypeOK, TLSTypeOK
<1>1. CASE EditNode /\ UNCHANGED liveVars
  <2>1. TypeOK'
    <3>1. edits' \in 0 .. MaxEdits
      BY <1>1, ReloadAssumption DEF EditNode, TypeOK, TLSTypeOK, ReloadTypeOK
    <3> QED
      BY <1>1, <3>1 DEF EditNode, TypeOK, TLSTypeOK, ReloadTypeOK, liveVars
  <2> QED
    BY <1>1, <2>1, <1>c DEF EditNode, Order, Live, Reloading, Unlocked, liveVars,
       ClosedStaysClosed
<1>2. CASE Tick /\ UNCHANGED liveVars
  <2>1. TypeOK'
    BY <1>2 DEF Tick, Ticking, TypeOK, TLSTypeOK, ReloadTypeOK, liveVars
  <2> QED
    BY <1>2, <2>1 DEF Tick, Ticking, Order, Live, Reloading, Unlocked, liveVars, TypeOK,
       TLSTypeOK,
       ReloadTypeOK,
       ClosedStaysClosed
<1>3. CASE Stop /\ UNCHANGED liveVars
  <2>1. TypeOK'
    BY <1>3 DEF Stop, TypeOK, TLSTypeOK, ReloadTypeOK, liveVars, gateVars
  <2> QED
    BY <1>3, <2>1, <1>c DEF Stop, Order, Live, Reloading, Unlocked, liveVars, gateVars,
       ClosedStaysClosed
<1>4. CASE Stash
  <2>1. TypeOK'
    BY <1>4, <1>0, <1>t, <1>f, Zenon DEF Stash, PreStart, ReturnNil, ReturnError, TypeOK,
       TLSTypeOK,
       ReloadTypeOK, gateVars, Order
  <2>2. Order' /\ ClosedStaysClosed'
    BY <1>4 DEF Stash, PreStart, ReturnNil, ReturnError, Order, Reloading, gateVars,
       ClosedStaysClosed
  <2> QED
    BY <1>4, <2>1, <2>2 DEF Stash, PreStart, ReturnNil, ReturnError, Order, Live, Reloading,
       Unlocked, gateVars
<1>5. CASE StartTLS
  <2>1. TypeOK'
    BY <1>5, <1>0, <1>t, <1>f, Zenon DEF StartTLS, HotReload, ReturnError, TypeOK, TLSTypeOK,
       ReloadTypeOK,
       gateVars, Order
  <2>2. Order' /\ ClosedStaysClosed'
    BY <1>5 DEF StartTLS, HotReload, ReturnError, Order, Reloading, gateVars,
       ClosedStaysClosed
  <2> QED
    BY <1>5, <2>1, <2>2, <1>c DEF StartTLS, HotReload, ReturnError, Live, Reloading,
       Unlocked, gateVars, SniChanged, Order
<1>6. CASE ServeTCP \/ ServeUDP
  <2> DEFINE net == IF pc = "tcp" THEN "tcp" ELSE "udp"
             next == IF pc = "tcp" THEN "udp" ELSE "swap"
  <2>1. pc \in {"tcp", "udp"} /\ ServeOn(net, next)
    BY <1>6 DEF ServeTCP, ServeUDP
  <2>2. /\ nodeInfo \in NodeInfo /\ started /\ ~closed /\ phase # "closed" /\ Live
        /\ tlsStarted = {options.sni, NewOpts.sni}
    BY <2>1 DEF Order, Live, Reloading
  <2>3. UNCHANGED <<gateVars, options, started, listener, tlsConfig, closed>>
    BY <2>1 DEF ServeOn
  <2>4. CASE pc' = next /\ UNCHANGED <<reloadPending, phase, failures, tlsStarted>>
             /\ open' = IF PortChanged THEN open \cup Half(net) ELSE open
    <3>1. Half(net) \subseteq Port \X Network
      BY <2>2, <1>t, SocketsType DEF Half
    <3>2. TypeOK'
      BY <2>1, <2>3, <2>4, <3>1 DEF TypeOK, TLSTypeOK, ReloadTypeOK, gateVars
    <3>3. Order' /\ ClosedStaysClosed'
      BY <2>1, <2>2, <2>3, <2>4 DEF Order, Reloading, gateVars, ClosedStaysClosed
    <3>4. Sockets(NewOpts.port) = Half("tcp") \cup Half("udp")
      BY <2>2, <1>t, Halves DEF Half
    <3>5. ~PortChanged => Sockets(NewOpts.port) = Sockets(options.port)
      BY DEF PortChanged
    <3>6. Live'
      <4>1. CASE pc = "tcp"
        BY <4>1, <2>2, <2>3, <2>4, <3>4, <3>5, <1>c DEF Live, Reloading, Unlocked, gateVars
      <4>2. CASE pc = "udp"
        BY <4>2, <2>2, <2>3, <2>4, <3>4, <3>5, <1>c DEF Live, Reloading, Unlocked, gateVars
      <4> QED
        BY <2>1, <4>1, <4>2
    <3> QED
      BY <3>2, <3>3, <3>6
  <2>5. CASE PortChanged /\ ServeFails
    <3>1. TypeOK'
      BY <2>3, <2>5, <1>f DEF ServeFails, ReturnError, TypeOK, TLSTypeOK, ReloadTypeOK,
         gateVars
    <3>2. Order' /\ ClosedStaysClosed'
      BY <2>2, <2>3, <2>5 DEF ServeFails, ReturnError, Order, Reloading, gateVars,
         ClosedStaysClosed
    <3>3. open' = Sockets(options.port)
      <4>1. Sockets(options.port) \ Sockets(NewOpts.port) = Sockets(options.port)
        BY <2>5, SocketsApart DEF PortChanged
      <4>2. open = Sockets(options.port) \/ open = Sockets(options.port) \cup Half("tcp")
        BY <2>1, <2>2 DEF Live
      <4> QED
        BY <4>1, <4>2, <2>5 DEF ServeFails, Half
    <3>4. tlsStarted' = {options.sni}
      BY <2>2, <2>5 DEF ServeFails, SniChanged
    <3> QED
      BY <2>1, <2>2, <2>3, <2>5, <3>1, <3>2, <3>3, <3>4 DEF ServeFails, ReturnError, Live,
         Reloading, Unlocked, gateVars
  <2> QED
    BY <2>1, <2>4, <2>5 DEF ServeOn, Half
<1>7. CASE SwapListener
  <2>1. TypeOK'
    BY <1>7, <1>0, <1>t DEF SwapListener, TypeOK, TLSTypeOK, ReloadTypeOK, gateVars, Order
  <2>2. Order' /\ ClosedStaysClosed'
    BY <1>7 DEF SwapListener, Order, Reloading, gateVars, ClosedStaysClosed
  <2>3. PortChanged => Sockets(NewOpts.port) \ Sockets(options.port) = Sockets(NewOpts.port)
    BY SocketsApart DEF PortChanged
  <2>4. ~PortChanged => NewOpts.port = options.port
    BY DEF PortChanged
  <2>5. phase' # "closed" => open' = Sockets(NewOpts.port)
    BY <1>7, <2>3, <2>4 DEF SwapListener, Live
  <2> QED
    BY <1>7, <2>1, <2>2, <2>5, <1>c DEF SwapListener, Live, Reloading, Unlocked, gateVars,
       Order
<1>8. CASE SwapTLS
  <2>1. TypeOK'
    BY <1>8, <1>0, <1>t, Zenon DEF SwapTLS, ReturnNil, TypeOK, TLSTypeOK, ReloadTypeOK,
       gateVars, Order
  <2>2. Order' /\ ClosedStaysClosed'
    BY <1>8 DEF SwapTLS, ReturnNil, Order, Reloading, gateVars, ClosedStaysClosed
  <2> QED
    BY <1>8, <2>1, <2>2 DEF SwapTLS, ReturnNil, Live, Reloading, Unlocked, gateVars,
       SniChanged, Order
<1>9. CASE Refuse
  <2>1. TypeOK'
    BY <1>9, Zenon DEF Refuse, EarlyReturn, ReturnNil, ReturnError, TypeOK, TLSTypeOK,
       ReloadTypeOK,
       liveVars,
       gateVars
  <2> QED
    BY <1>9, <2>1 DEF Refuse, EarlyReturn, ReturnNil, ReturnError, Order, Live, Reloading,
       Unlocked, liveVars, gateVars, ClosedStaysClosed
<1>10. CASE Start
  <2>1. TypeOK'
    <3>1. open' \subseteq Port \X Network /\ tlsStarted' \subseteq SNI
      BY <1>10, SocketsType DEF Start, TypeOK, TLSTypeOK
    <3> QED
      BY <1>10, <3>1, <1>f, Zenon DEF Start, TypeOK, TLSTypeOK, ReloadTypeOK, gateVars
  <2>2. Order' /\ ClosedStaysClosed'
    BY <1>10 DEF Start, Order, Reloading, Unlocked, gateVars, ClosedStaysClosed
  <2> QED
    BY <1>10, <2>1, <2>2, <1>c DEF Start, Order, Live, Reloading, Unlocked, gateVars
<1>11. CASE Close
  <2>1. TypeOK'
    BY <1>11 DEF Close, TypeOK, TLSTypeOK, ReloadTypeOK, gateVars
  <2>2. Order'
    BY <1>11 DEF Close, Order, Reloading, Unlocked, gateVars
  <2>3. open' = {} /\ tlsStarted' = {}
    BY <1>11 DEF Close, Live, Unlocked
  <2> QED
    BY <1>11, <2>1, <2>2, <2>3 DEF Close, ClosedStaysClosed
<1>12. CASE UNCHANGED vars
  <2>1. TypeOK'
    BY <1>12 DEF vars, gateVars, liveVars, TypeOK, TLSTypeOK, ReloadTypeOK
  <2> QED
    BY <1>12, <2>1, <1>c DEF vars, gateVars, liveVars, Order, Live, Reloading, Unlocked,
       ClosedStaysClosed
<1>13. CASE (NoPort \/ SyncFails) /\ UNCHANGED liveVars
  <2>1. TypeOK'
    BY <1>13, <1>f DEF NoPort, SyncFails, Ticking, TypeOK, TLSTypeOK, ReloadTypeOK, liveVars
  <2>2. /\ pc = "idle" /\ UNCHANGED <<pc, options, started>>
        /\ phase' = phase \/ (phase' = "exit" /\ phase = "boot")
    BY <1>13 DEF NoPort, SyncFails, Ticking
  <2>3. phase' \notin {"boot", "exit"} => nodeInfo' \in NodeInfo
    BY <1>13 DEF NoPort, SyncFails, Ticking, Order, TypeOK, TLSTypeOK, ReloadTypeOK
  <2> QED
    BY <1>13, <2>1, <2>2, <2>3 DEF Order, Live, Reloading, Unlocked, liveVars,
       ClosedStaysClosed
<1> QED
  BY <1>1, <1>2, <1>3, <1>4, <1>5, <1>6, <1>7, <1>8, <1>9, <1>10, <1>11, <1>12, <1>13
     DEF Next, ConfigureFromPanelNode

\* Between two calls a running inbound holds the sockets of its options, on
\* all its networks, and their TLS configuration, whatever failed before.
THEOREM NaiveReloadsAreClean == Spec => []CleanBetweenCalls
<1>1. IInv => CleanBetweenCalls
  BY DEF IInv, Order, Live, Unlocked, CleanBetweenCalls
<1> QED
  BY InitIInv, NextIInv, <1>1, PTL DEF Spec

\* No tick in flight brings a closed inbound back.
THEOREM ClosedForGood == Spec => []ClosedStaysClosed
<1>1. IInv => ClosedStaysClosed
  BY DEF IInv
<1> QED
  BY InitIInv, NextIInv, <1>1, PTL DEF Spec

-----------------------------------------------------------------------------
(* The contract, step by step.  A step of a closed inbound leaves it closed, *)
(* so it is enough to look at an inbound that is not.                        *)

\* What clients are served, told by where the handler is.
Served ==
  /\ ~started => Serving = nil
  /\ started /\ pc # "swapTLS" => Serving = options
  /\ started /\ pc = "swapTLS" => Serving = [port |-> NewOpts.port, sni |-> options.sni]

\* The invariant gives what clients are served.
LEMMA ServedIs == IInv /\ phase # "closed" => Served
<1> SUFFICES ASSUME IInv, phase # "closed" PROVE Served
  OBVIOUS
<1>1. options = [port |-> options.port, sni |-> options.sni]
  BY DEF IInv, TypeOK, TLSTypeOK, ReloadTypeOK, Settings
<1> QED
  BY <1>1 DEF Served, Serving, IInv, Live, Reloading, Unlocked, TypeOK, TLSTypeOK

\* The same after a step.
LEMMA ServedNext == (IInv /\ phase # "closed" => Served)'
BY ServedIs, PTL

\* Every step of the system is a step of the contract.
LEMMA StepImplements ==
  ASSUME IInv, IInv', Next PROVE [Contract!Next]_(Contract!vars)
<1> USE DEF IInv
<1>0. CASE phase = "closed"
  BY <1>0 DEF Next, ConfigureFromPanelNode, EditNode, Tick, NoPort, SyncFails, Ticking, Stop,
     Stash, StartTLS, ServeTCP,
     ServeUDP, ServeOn, ServeFails, SwapListener, SwapTLS, Refuse, EarlyReturn, Start, Close,
     ReturnNil, ReturnError, Contract!Next
<1> SUFFICES ASSUME phase # "closed" PROVE [Contract!Next]_(Contract!vars)
  BY <1>0
<1>a. /\ options \in Settings
      /\ pc # "idle" => NewOpts \in Settings /\ NewOpts # nil
  BY NewOptsType DEF TypeOK, TLSTypeOK, ReloadTypeOK, Order
<1>b. Served
  BY ServedIs
<1>c. phase' # "closed" => Served'
  BY ServedNext
<1>e. ASSUME UNCHANGED <<nodeInfo, options>> PROVE NewOpts' = NewOpts
  BY <1>e DEF NewOpts
<1>1. CASE EditNode /\ UNCHANGED liveVars
  BY <1>1, ContractStutter, <1>e DEF EditNode, liveVars, Stage, Requested, Serving
<1>2. CASE Tick /\ UNCHANGED liveVars
  <2>1. Requested = nil /\ Requested' = NewOpts'
    BY <1>2 DEF Tick, Ticking, Requested
  <2>2. NewOpts' \in Settings
    <3>1. nodeInfo' \in NodeInfo /\ options' \in Settings
      BY <1>2 DEF Tick, Ticking, TypeOK, TLSTypeOK, ReloadTypeOK
    <3> QED
      BY <3>1, NewOptsNext
  <2>3. Stage' = Stage /\ options' = options /\ Serving' = Serving
    BY <1>2 DEF Tick, Ticking, liveVars, Stage, Serving
  <2> QED
    BY <2>1, <2>2, <2>3, ContractAsk DEF Stage
<1>3. CASE Stop /\ UNCHANGED liveVars
  BY <1>3, ContractStutter, <1>e DEF Stop, gateVars, liveVars, Stage, Requested, Serving
<1>4. CASE Stash
  <2>1. pc # "idle" /\ Stage' = Stage /\ Requested' = nil /\ ~started /\ Serving' = nil
    BY <1>4, <1>c DEF Stash, PreStart, ReturnNil, ReturnError, Stage, Requested, Served
  <2>2. options' = NewOpts \/ options' = options
    BY <1>4 DEF Stash
  <2> QED
    BY <2>1, <2>2, <1>a, ContractSucceed, ContractFail
<1>5. CASE StartTLS
  <2>1. /\ pc = "call" /\ started /\ Stage' = Stage /\ options' = options
        /\ Serving' = options /\ Serving = options
    BY <1>5, <1>b, <1>c DEF StartTLS, HotReload, ReturnError, Stage, Served
  <2>2. CASE pc' = "tcp"
    BY <1>5, <2>1, <2>2, ContractStutter, <1>e DEF StartTLS, gateVars, Requested
  <2>3. CASE pc' = "idle"
    BY <2>1, <2>3, <1>a, ContractFail DEF Requested
  <2> QED
    BY <1>5, <2>2, <2>3 DEF StartTLS, ReturnError
<1>6. CASE ServeTCP \/ ServeUDP
  <2>1. /\ pc \in {"tcp", "udp"} /\ pc' \in {"udp", "swap", "idle"}
        /\ UNCHANGED <<nodeInfo, options, started>>
        /\ phase' = phase \/ (phase' = "exit" /\ phase = "boot")
    BY <1>6 DEF ServeTCP, ServeUDP, ServeOn, ServeFails, ReturnError, gateVars
  <2>2. started /\ Stage' = Stage /\ Serving' = options /\ Serving = options
    BY <2>1, <1>b, <1>c DEF Stage, Served, Order, Reloading
  <2>3. CASE pc' # "idle"
    BY <2>1, <2>2, <2>3, ContractStutter, <1>e DEF Requested
  <2>4. CASE pc' = "idle"
    BY <2>1, <2>2, <2>4, <1>a, ContractFail DEF Requested
  <2> QED
    BY <2>3, <2>4
<1>7. CASE SwapListener
  <2>1. pc = "swap" /\ Stage = "up" /\ Stage' = Stage /\ UNCHANGED <<nodeInfo, options>>
    BY <1>7 DEF SwapListener, gateVars, Stage, Order, Reloading
  <2>2. Requested' = Requested /\ Serving' = [port |-> NewOpts.port, sni |-> options.sni]
    BY <1>7, <2>1, <1>c, <1>e DEF SwapListener, Requested, Served, Order, Reloading
  <2> QED
    BY <2>1, <2>2, <1>a, ContractMove
<1>8. CASE SwapTLS
  <2>1. /\ pc = "swapTLS" /\ started /\ Stage' = Stage /\ options' = NewOpts
        /\ Requested' = nil /\ Serving' = NewOpts
    BY <1>8, <1>c DEF SwapTLS, ReturnNil, Stage, Requested, Served, Order, Reloading
  <2> QED
    BY <2>1, <1>a, ContractSucceed
<1>9. CASE Refuse
  <2>1. /\ pc # "idle" /\ Stage' = Stage /\ options' = options /\ Requested' = nil
        /\ Serving' = IF started THEN options ELSE nil
    BY <1>9, <1>c DEF Refuse, EarlyReturn, ReturnNil, ReturnError, Stage, Requested, Served
  <2> QED
    BY <2>1, <1>a, ContractFail
<1>10. CASE Start
  <2>1. CASE started'
    <3>1. /\ Stage = "new" /\ Stage' = "up" /\ options' = options /\ Requested' = Requested
          /\ Serving' = options
      BY <1>10, <2>1, <1>c, <1>e DEF Start, Unlocked, gateVars, Stage, Requested, Served,
         Order
    <3> QED
      BY <3>1, ContractStart
  <2>2. CASE ~started'
    <3>1. /\ Stage' = Stage /\ options' = options /\ Requested' = Requested
          /\ Serving' = Serving
      BY <1>10, <2>2, <1>b, <1>c, <1>e DEF Start, gateVars, Stage, Requested, Served, Order
    <3> QED
      BY <3>1, ContractStutter
  <2> QED
    BY <2>1, <2>2
<1>11. CASE Close
  BY <1>11, ContractClose DEF Close
<1>13. CASE (NoPort \/ SyncFails) /\ UNCHANGED liveVars
  <2>1. /\ pc = "idle" /\ UNCHANGED <<pc, options, started>>
        /\ phase' = phase \/ (phase' = "exit" /\ phase = "boot")
    BY <1>13 DEF NoPort, SyncFails, Ticking
  <2> QED
    BY <1>13, <2>1, ContractStutter DEF liveVars, Stage, Requested, Serving
<1> QED
  BY <1>1, <1>2, <1>3, <1>4, <1>5, <1>6, <1>7, <1>8, <1>9, <1>10, <1>11, <1>13, Zenon
     DEF Next, ConfigureFromPanelNode

\* A reload of a Naive inbound does what the controller relies on, on all
\* networks at once and without a pause: it implements ReloadContract.
THEOREM NaiveImplementsContract == Spec => ContractSpec
<1>1. Init => Contract!Init
  BY ConfigType, ReloadAssumption DEF Init, InitTLS, InitReload, Contract!Init,
     Contract!Settings,
     Settings
<1>2. ASSUME UNCHANGED vars PROVE UNCHANGED Contract!vars
  BY <1>2 DEF vars, gateVars, liveVars, Contract!vars, NewOpts
<1>3. IInv /\ IInv' /\ [Next]_vars => [Contract!Next]_(Contract!vars)
  BY StepImplements, <1>2
<1> QED
  BY InitIInv, NextIInv, <1>1, <1>3, PTL DEF Spec, ContractSpec, Contract!Spec

-----------------------------------------------------------------------------
(* What the controller remembers as applied is applied. *)

\* Every step keeps it.
LEMMA NextApplied == IInv /\ Applied /\ [Next]_vars => Applied'
<1> SUFFICES ASSUME IInv, Applied, [Next]_vars, pc' = "idle", ~reloadPending', ~skipped',
                    phase' \notin {"boot", "exit", "closed"}
             PROVE  Takes(nodeInfo)'
  BY DEF Applied
<1>1. CASE /\ pc = "idle" /\ UNCHANGED <<nodeInfo, reloadPending, options, skipped>>
           /\ phase \notin {"boot", "exit", "closed"}
  BY <1>1 DEF Applied, Takes
<1>2. CASE UNCHANGED nodeInfo /\ options' = NewOpts
  BY <1>2 DEF Takes, NewOpts
<1>3. CASE UNCHANGED <<nodeInfo, options>> /\ ~PortChanged /\ ~SniChanged
  BY <1>3 DEF Takes, NewOpts, PortChanged, SniChanged
<1>4. phase # "closed"
  BY DEF Next, ConfigureFromPanelNode, EditNode, Tick, NoPort, SyncFails, Ticking, Stop,
     Stash, StartTLS, ServeTCP,
     ServeUDP, ServeOn, ServeFails, SwapListener, SwapTLS, Refuse, EarlyReturn, Start, Close,
     ReturnNil, ReturnError, vars
<1>5. ~closed
  BY <1>4 DEF IInv, Order
<1>6. CASE (EditNode \/ Tick \/ NoPort \/ SyncFails \/ Stop) /\ UNCHANGED liveVars
  BY <1>6, <1>1, <1>4 DEF EditNode, Tick, NoPort, SyncFails, Ticking, Stop, gateVars
<1>7. CASE Stash \/ SwapTLS
  BY <1>7, <1>2 DEF Stash, SwapTLS, ReturnError, gateVars
<1>8. CASE StartTLS \/ ServeTCP \/ ServeUDP \/ SwapListener
  BY <1>8 DEF StartTLS, ServeTCP, ServeUDP, ServeOn, ServeFails, SwapListener, ReturnError
<1>9. CASE Refuse
  BY <1>9, <1>3, <1>5 DEF Refuse, EarlyReturn, ReturnError, gateVars
<1>10. CASE Start \/ Close
  BY <1>10, <1>1, <1>4 DEF Start, Close, gateVars
<1>11. CASE UNCHANGED vars
  BY <1>11, <1>1 DEF vars, gateVars
<1> QED
  BY <1>6, <1>7, <1>8, <1>9, <1>10, <1>11 DEF Next, ConfigureFromPanelNode

\* A running Naive inbound that is not in the middle of a call serves the node
\* the controller fetched last, unless the controller knows that it has to try
\* again or the users could not be synced in the tick that fetched it: no call
\* loses a reload.
THEOREM NaiveForgetsNothing == Spec => []ServesUnlessPending
<1>1. Init => Applied
  BY DEF Init, InitTLS, InitReload, Applied
<1>2. IInv /\ Applied => ServesUnlessPending
  BY DEF IInv, Order, Live, Unlocked, Applied, Takes, ServesUnlessPending, Serves
<1> QED
  BY InitIInv, NextIInv, NextApplied, <1>1, <1>2, PTL DEF Spec

\* From Start to Close clients always meet a Naive inbound: during every call,
\* failed or not, at the port of the last successful call or of this one, with
\* the same port on all networks.
THEOREM NaiveAlwaysServes == Spec => []AlwaysServed
<1>1. IInv => AlwaysServed
  <2> SUFFICES ASSUME IInv, started, phase # "closed"
               PROVE  Serving \in {options} \cup
                        (IF pc = "idle" THEN {}
                         ELSE {[port |-> NewOpts.port, sni |-> options.sni]})
    BY DEF AlwaysServed
  <2> QED
    BY ServedIs DEF Served
<1> QED
  BY InitIInv, NextIInv, <1>1, PTL DEF Spec

-----------------------------------------------------------------------------
(* AnyTLS *)

AReloading == pc \in {"bind", "swap", "swapTLS"}

\* Who may be where: a call has a node, only a running inbound reloads, and
\* the box knows whether the inbound runs.
AOrder ==
  /\ pc # "idle" \/ phase \notin {"boot", "exit"} => nodeInfo \in NodeInfo
  /\ AReloading => started
  /\ phase \in {"boot", "start", "exit"} => ~started
  /\ phase = "up" => started

\* What is open and what is current at every step of the handler.
ALive ==
  /\ listener = (IF pc = "swapTLS" THEN NewOpts.port ELSE options.port)
  /\ tlsConfig = options.sni
  /\ ~started => open = {} /\ tlsStarted \subseteq {tlsConfig}
  /\ started /\ Unlocked => open = Sockets(options.port) /\ tlsStarted = {options.sni}
  /\ pc = "bind" => open = Sockets(options.port)
  /\ pc = "swap" => open = Sockets(options.port) \cup Sockets(NewOpts.port)
  /\ pc = "swapTLS" => open = Sockets(NewOpts.port)
  /\ AReloading => tlsStarted = {options.sni, NewOpts.sni}

ATypeOK == TLSTypeOK /\ pc \in {"idle", "call", "bind", "swap", "swapTLS"}

\* Close does not wait for a tick in flight, and nothing is said of a closed
\* inbound.
AInv == ATypeOK /\ AOrder /\ (phase # "closed" => ALive)

-----------------------------------------------------------------------------
\* Both inbounds are called in the same way, by the same controller.
LEMMA ASame ==
  /\ A!NewOpts = NewOpts
  /\ A!PortChanged <=> PortChanged
  /\ A!SniChanged <=> SniChanged
  /\ A!Unlocked <=> Unlocked
  /\ A!HotReload <=> HotReload
  /\ A!PreStart <=> PreStart
  /\ A!InitTLS <=> InitTLS
  /\ A!EditNode <=> EditNode
  /\ A!Tick <=> Tick
  /\ A!NoPort <=> NoPort
  /\ A!SyncFails <=> SyncFails
  /\ A!Stop <=> Stop
  /\ A!Error <=> Error
  /\ A!ReturnNil <=> ReturnNil
  /\ A!ReturnError <=> ReturnError
  /\ A!EarlyReturn <=> EarlyReturn
  /\ \A p : A!Sockets(p) = Sockets(p)
<1> USE DEF A!NewOpts, NewOpts, A!PortChanged, PortChanged, A!SniChanged, SniChanged,
            A!Unlocked, Unlocked, A!ReturnNil, ReturnNil, A!ReturnError, ReturnError,
            A!Refused, Refused, A!MaxPort, MaxPort, A!gateVars, gateVars
<1>1. A!HotReload <=> HotReload
  BY DEF A!HotReload, HotReload
<1>2. A!PreStart <=> PreStart
  BY DEF A!PreStart, PreStart
<1>3. A!InitTLS <=> InitTLS
  BY DEF A!InitTLS, InitTLS, A!InitReload, InitReload
<1>4. A!EditNode <=> EditNode
  BY DEF A!EditNode, EditNode
<1>5. (A!Tick <=> Tick) /\ (A!Stop <=> Stop) /\ (A!Error <=> Error)
  BY DEF A!Tick, Tick, A!Ticking, Ticking, A!Stop, Stop, A!Error, Error
<1>11. (A!NoPort <=> NoPort) /\ (A!SyncFails <=> SyncFails)
  BY DEF A!NoPort, NoPort, A!SyncFails, SyncFails, A!Ticking, Ticking, A!Error, Error
<1>6. A!EarlyReturn <=> EarlyReturn
  BY DEF A!EarlyReturn, EarlyReturn
<1>7. \A p : A!Sockets(p) = Sockets(p)
  BY DEF A!Sockets, Sockets
<1>8. A!NewOpts = NewOpts
  OBVIOUS
<1>9. (A!PortChanged <=> PortChanged) /\ (A!SniChanged <=> SniChanged)
  OBVIOUS
<1>10. /\ A!Unlocked <=> Unlocked
       /\ A!ReturnNil <=> ReturnNil
       /\ A!ReturnError <=> ReturnError
  OBVIOUS
<1> HIDE DEF NewOpts, PortChanged, SniChanged, Unlocked, ReturnNil, ReturnError
<1> QED
  BY <1>1, <1>2, <1>3, <1>4, <1>5, <1>6, <1>7, <1>8, <1>9, <1>10, <1>11, Zenon

\* Before the first call there is nothing open.
LEMMA AInitInv == A!Init => AInv
<1> SUFFICES ASSUME InitTLS PROVE AInv
  BY ASame DEF A!Init
<1>1. Config.port \in Port /\ Config.sni \in SNI
  BY ConfigType DEF Settings
<1>2. ATypeOK
  <2>1. 0 \in 0 .. MaxEdits /\ 0 \in 0 .. MaxFailures
    BY ReloadAssumption
  <2> QED
    BY <1>1, <2>1, ConfigType, Zenon DEF InitTLS, InitReload, ATypeOK, TLSTypeOK, ReloadTypeOK
<1> QED
  BY <1>2 DEF InitTLS, InitReload, AInv, AOrder, ALive, AReloading, Unlocked

\* Every step of the box, of the monitor and of the handler keeps the
\* invariant.
LEMMA ANextInv == AInv /\ [A!Next]_(A!vars) => AInv'
<1> SUFFICES ASSUME AInv, [A!Next]_(A!vars) PROVE AInv'
  OBVIOUS
<1> USE DEF AInv
<1>0. options \in Settings /\ (nodeInfo \in NodeInfo => NewOpts \in Settings)
  BY NewOptsType DEF ATypeOK, TLSTypeOK, ReloadTypeOK
<1>t. /\ options.port \in Port /\ options.sni \in SNI
      /\ nodeInfo \in NodeInfo => NewOpts.port \in Port /\ NewOpts.sni \in SNI
  BY <1>0 DEF Settings
<1>c. ASSUME UNCHANGED <<nodeInfo, options>> PROVE NewOpts' = NewOpts
  BY <1>c DEF NewOpts
<1>f. ASSUME Error PROVE failures' \in 0 .. MaxFailures
  BY <1>f, ReloadAssumption DEF Error, ATypeOK, TLSTypeOK, ReloadTypeOK
<1>s. nodeInfo \in NodeInfo => Sockets(NewOpts.port) \subseteq Port \X Network
  BY <1>t, SocketsType
<1>1. CASE EditNode /\ UNCHANGED A!liveVars
  <2>1. ATypeOK'
    <3>1. edits' \in 0 .. MaxEdits
      BY <1>1, ReloadAssumption DEF EditNode, ATypeOK, TLSTypeOK, ReloadTypeOK
    <3> QED
      BY <1>1, <3>1 DEF EditNode, ATypeOK, TLSTypeOK, ReloadTypeOK, A!liveVars
  <2> QED
    BY <1>1, <2>1, <1>c DEF EditNode, AOrder, ALive, AReloading, Unlocked, A!liveVars
<1>2. CASE Tick /\ UNCHANGED A!liveVars
  <2>1. ATypeOK'
    BY <1>2 DEF Tick, Ticking, ATypeOK, TLSTypeOK, ReloadTypeOK, A!liveVars
  <2> QED
    BY <1>2, <2>1 DEF Tick, Ticking, AOrder, ALive, AReloading, Unlocked, A!liveVars, ATypeOK,
       TLSTypeOK,
       ReloadTypeOK
<1>3. CASE Stop /\ UNCHANGED A!liveVars
  <2>1. ATypeOK'
    BY <1>3 DEF Stop, ATypeOK, TLSTypeOK, ReloadTypeOK, A!liveVars, gateVars
  <2> QED
    BY <1>3, <2>1, <1>c DEF Stop, AOrder, ALive, AReloading, Unlocked, A!liveVars, gateVars
<1>4. CASE A!Stash
  <2>0. /\ PreStart
        /\ \/ /\ options' = NewOpts /\ listener' = NewOpts.port /\ tlsConfig' = NewOpts.sni
              /\ tlsStarted' = tlsStarted \ {tlsConfig}
              /\ ReturnNil /\ UNCHANGED failures
           \/ Error /\ ReturnError /\ UNCHANGED <<options, listener, tlsConfig, tlsStarted>>
        /\ UNCHANGED <<gateVars, started, open>>
    BY <1>4, ASame, Zenon DEF A!Stash, A!gateVars, gateVars
  <2>1. ATypeOK'
    BY <2>0, <1>0, <1>t, <1>f, Zenon DEF PreStart, ReturnNil, ReturnError, ATypeOK, TLSTypeOK,
       ReloadTypeOK, gateVars, AOrder
  <2>2. AOrder'
    BY <2>0 DEF PreStart, ReturnNil, ReturnError, AOrder, AReloading, gateVars
  <2> QED
    BY <2>0, <2>1, <2>2 DEF PreStart, ReturnNil, ReturnError, AOrder, ALive, AReloading,
       Unlocked, gateVars
<1>5. CASE A!StartTLS
  <2>0. /\ HotReload
        /\ \/ /\ pc' = "bind"
              /\ tlsStarted' = IF SniChanged THEN tlsStarted \cup {NewOpts.sni} ELSE tlsStarted
              /\ UNCHANGED <<reloadPending, phase, failures>>
           \/ SniChanged /\ Error /\ ReturnError /\ UNCHANGED tlsStarted
        /\ UNCHANGED <<gateVars, options, started, listener, tlsConfig, open>>
    BY <1>5, ASame, Zenon DEF A!StartTLS, A!gateVars, gateVars
  <2>1. ATypeOK'
    BY <2>0, <1>0, <1>t, <1>f, Zenon DEF HotReload, ReturnError, ATypeOK, TLSTypeOK,
       ReloadTypeOK, gateVars, AOrder
  <2>2. AOrder'
    BY <2>0 DEF HotReload, ReturnError, AOrder, AReloading, gateVars
  <2> QED
    BY <2>0, <2>1, <2>2, <1>c DEF HotReload, ReturnError, ALive, AReloading, Unlocked,
       gateVars, SniChanged, AOrder
<1>6. CASE A!Bind
  <2>0. /\ pc = "bind"
        /\ \/ /\ pc' = "swap"
              /\ open' = IF PortChanged THEN open \cup Sockets(NewOpts.port) ELSE open
              /\ UNCHANGED <<reloadPending, phase, failures, tlsStarted>>
           \/ /\ PortChanged /\ Error /\ ReturnError
              /\ tlsStarted' = IF SniChanged THEN tlsStarted \ {NewOpts.sni} ELSE tlsStarted
              /\ UNCHANGED open
        /\ UNCHANGED <<gateVars, options, started, listener, tlsConfig>>
    BY <1>6, ASame, Zenon DEF A!Bind, A!gateVars, gateVars
  <2>1. ATypeOK'
    BY <2>0, <1>0, <1>t, <1>s, <1>f, Zenon DEF ReturnError, ATypeOK, TLSTypeOK, ReloadTypeOK,
       gateVars, AOrder
  <2>2. AOrder'
    BY <2>0 DEF ReturnError, AOrder, AReloading, gateVars
  <2> QED
    BY <2>0, <2>1, <2>2, <1>c DEF ReturnError, ALive, AReloading, Unlocked, gateVars,
       SniChanged, PortChanged, AOrder
<1>7. CASE A!SwapListener
  <2>0. /\ pc = "swap" /\ pc' = "swapTLS"
        /\ listener' = NewOpts.port
        /\ open' = IF PortChanged THEN open \ Sockets(listener) ELSE open
        /\ UNCHANGED <<gateVars, reloadPending, phase, options, started, failures, tlsConfig,
                       tlsStarted>>
    BY <1>7, ASame, Zenon DEF A!SwapListener, A!gateVars, gateVars
  <2>1. ATypeOK'
    BY <2>0, <1>0, <1>t DEF ATypeOK, TLSTypeOK, ReloadTypeOK, gateVars, AOrder
  <2>2. AOrder'
    BY <2>0 DEF AOrder, AReloading, gateVars
  <2>3. phase # "closed" => open' = Sockets(NewOpts.port)
    BY <2>0, SocketsApart DEF ALive, PortChanged
  <2> QED
    BY <2>0, <2>1, <2>2, <2>3, <1>c DEF ALive, AReloading, Unlocked, gateVars, AOrder
<1>8. CASE A!SwapTLS
  <2>0. /\ pc = "swapTLS" /\ tlsConfig' = NewOpts.sni
        /\ tlsStarted' = IF SniChanged THEN tlsStarted \ {tlsConfig} ELSE tlsStarted
        /\ options' = NewOpts /\ ReturnNil
        /\ UNCHANGED <<gateVars, started, failures, listener, open>>
    BY <1>8, ASame, Zenon DEF A!SwapTLS, A!gateVars, gateVars
  <2>1. ATypeOK'
    BY <2>0, <1>0, <1>t, Zenon DEF ReturnNil, ATypeOK, TLSTypeOK, ReloadTypeOK, gateVars,
       AOrder
  <2>2. AOrder'
    BY <2>0 DEF ReturnNil, AOrder, AReloading, gateVars
  <2> QED
    BY <2>0, <2>1, <2>2 DEF ReturnNil, ALive, AReloading, Unlocked, gateVars, SniChanged,
       AOrder
<1>9. CASE EarlyReturn /\ UNCHANGED A!liveVars
  <2>1. ATypeOK'
    BY <1>9, Zenon DEF EarlyReturn, ReturnNil, ReturnError, ATypeOK, TLSTypeOK, ReloadTypeOK,
       A!liveVars, gateVars
  <2> QED
    BY <1>9, <2>1 DEF EarlyReturn, ReturnNil, ReturnError, AOrder, ALive, AReloading,
       Unlocked, A!liveVars, gateVars
<1>10. CASE A!Start
  <2>0. /\ phase = "start" /\ Unlocked
        /\ \/ /\ tlsStarted' = {tlsConfig} /\ open' = Sockets(listener)
              /\ started' = TRUE /\ phase' = "up" /\ UNCHANGED failures
           \/ /\ Error /\ phase' = "stopped"
              /\ tlsStarted' \in {{}, {tlsConfig}}
              /\ UNCHANGED <<started, open>>
        /\ UNCHANGED <<gateVars, reloadPending, pc, options, listener, tlsConfig>>
    BY <1>10, ASame, Zenon DEF A!Start, A!gateVars, gateVars
  <2>1. ATypeOK'
    <3>1. open' \subseteq Port \X Network /\ tlsStarted' \subseteq SNI
      BY <2>0, SocketsType DEF ATypeOK, TLSTypeOK
    <3> QED
      BY <2>0, <3>1, <1>f, Zenon DEF ATypeOK, TLSTypeOK, ReloadTypeOK, gateVars
  <2>2. AOrder'
    BY <2>0 DEF AOrder, AReloading, Unlocked, gateVars
  <2> QED
    BY <2>0, <2>1, <2>2, <1>c DEF AOrder, ALive, AReloading, Unlocked, gateVars
<1>11. CASE A!Close
  <2>1. ATypeOK'
    BY <1>11 DEF A!Close, ATypeOK, TLSTypeOK, ReloadTypeOK, A!gateVars
  <2> QED
    BY <1>11, <2>1 DEF A!Close, AOrder, AReloading, A!gateVars
<1>12. CASE UNCHANGED A!vars
  <2>1. ATypeOK'
    BY <1>12 DEF A!vars, A!gateVars, A!liveVars, ATypeOK, TLSTypeOK, ReloadTypeOK
  <2> QED
    BY <1>12, <2>1, <1>c DEF A!vars, A!gateVars, A!liveVars, AOrder, ALive, AReloading,
       Unlocked
<1>13. CASE (NoPort \/ SyncFails) /\ UNCHANGED A!liveVars
  <2>1. ATypeOK'
    BY <1>13, <1>f DEF NoPort, SyncFails, Ticking, ATypeOK, TLSTypeOK, ReloadTypeOK,
       A!liveVars
  <2>2. /\ pc = "idle" /\ UNCHANGED <<pc, options, started>>
        /\ phase' = phase \/ (phase' = "exit" /\ phase = "boot")
    BY <1>13 DEF NoPort, SyncFails, Ticking
  <2>3. phase' \notin {"boot", "exit"} => nodeInfo' \in NodeInfo
    BY <1>13 DEF NoPort, SyncFails, Ticking, AOrder, ATypeOK, TLSTypeOK, ReloadTypeOK
  <2> QED
    BY <1>13, <2>1, <2>2, <2>3 DEF AOrder, ALive, AReloading, Unlocked, A!liveVars
<1> QED
  BY <1>1, <1>2, <1>3, <1>4, <1>5, <1>6, <1>7, <1>8, <1>9, <1>10, <1>11, <1>12, <1>13, ASame,
     Zenon
     DEF A!Next, A!ConfigureFromPanelNode

\* Between two calls a running AnyTLS inbound holds the socket and the TLS
\* configuration of its options and no others, whatever failed before.
THEOREM AnyTLSReloadsAreClean == A!Spec => []CleanBetweenCalls
<1>1. AInv => CleanBetweenCalls
  BY DEF AInv, AOrder, ALive, Unlocked, CleanBetweenCalls
<1> QED
  BY AInitInv, ANextInv, <1>1, PTL DEF A!Spec

\* The invariant gives what clients are served.
LEMMA AServedIs == AInv /\ phase # "closed" => Served
<1> SUFFICES ASSUME AInv, phase # "closed" PROVE Served
  OBVIOUS
<1>1. options = [port |-> options.port, sni |-> options.sni]
  BY DEF AInv, ATypeOK, TLSTypeOK, ReloadTypeOK, Settings
<1> QED
  BY <1>1 DEF Served, Serving, AInv, ALive, AReloading, Unlocked, ATypeOK

\* The same after a step.
LEMMA AServedNext == (AInv /\ phase # "closed" => Served)'
BY AServedIs, PTL

\* Every step of the system is a step of the contract.
LEMMA AStepImplements ==
  ASSUME AInv, AInv', A!Next PROVE [Contract!Next]_(Contract!vars)
<1> USE DEF AInv
<1>0. CASE phase = "closed"
  BY <1>0 DEF A!Next, A!ConfigureFromPanelNode, A!EditNode, A!Tick, A!NoPort, A!SyncFails,
     A!Ticking, A!Stop, A!Stash,
     A!StartTLS, A!Bind, A!SwapListener, A!SwapTLS, A!EarlyReturn, A!Start, A!Close,
     A!ReturnNil, A!ReturnError, Contract!Next
<1> SUFFICES ASSUME phase # "closed" PROVE [Contract!Next]_(Contract!vars)
  BY <1>0
<1>a. /\ options \in Settings
      /\ pc # "idle" => NewOpts \in Settings /\ NewOpts # nil
  BY NewOptsType DEF ATypeOK, TLSTypeOK, ReloadTypeOK, AOrder
<1>b. Served
  BY AServedIs
<1>c. phase' # "closed" => Served'
  BY AServedNext
<1>e. ASSUME UNCHANGED <<nodeInfo, options>> PROVE NewOpts' = NewOpts
  BY <1>e DEF NewOpts
<1>1. CASE EditNode /\ UNCHANGED A!liveVars
  BY <1>1, ContractStutter, <1>e DEF EditNode, A!liveVars, Stage, Requested, Serving
<1>2. CASE Tick /\ UNCHANGED A!liveVars
  <2>1. Requested = nil /\ Requested' = NewOpts'
    BY <1>2 DEF Tick, Ticking, Requested
  <2>2. NewOpts' \in Settings
    <3>1. nodeInfo' \in NodeInfo /\ options' \in Settings
      BY <1>2 DEF Tick, Ticking, ATypeOK, TLSTypeOK, ReloadTypeOK
    <3> QED
      BY <3>1, NewOptsNext
  <2>3. Stage' = Stage /\ options' = options /\ Serving' = Serving
    BY <1>2 DEF Tick, Ticking, A!liveVars, Stage, Serving
  <2> QED
    BY <2>1, <2>2, <2>3, ContractAsk DEF Stage
<1>3. CASE Stop /\ UNCHANGED A!liveVars
  BY <1>3, ContractStutter, <1>e DEF Stop, gateVars, A!liveVars, Stage, Requested, Serving
<1>4. CASE A!Stash
  <2>1. pc # "idle" /\ Stage' = Stage /\ Requested' = nil /\ ~started /\ Serving' = nil
    BY <1>4, <1>c DEF A!Stash, A!PreStart, A!ReturnNil, A!ReturnError, Stage, Requested,
       Served
  <2>2. options' = NewOpts \/ options' = options
    BY <1>4, ASame DEF A!Stash
  <2> QED
    BY <2>1, <2>2, <1>a, ContractSucceed, ContractFail
<1>5. CASE A!StartTLS
  <2>1. /\ pc = "call" /\ started /\ Stage' = Stage /\ options' = options
        /\ Serving' = options /\ Serving = options
    BY <1>5, <1>b, <1>c DEF A!StartTLS, A!HotReload, A!ReturnError, Stage, Served
  <2>2. CASE pc' = "bind"
    BY <1>5, <2>1, <2>2, ContractStutter, <1>e DEF A!StartTLS, A!gateVars, Requested
  <2>3. CASE pc' = "idle"
    BY <2>1, <2>3, <1>a, ContractFail DEF Requested
  <2> QED
    BY <1>5, <2>2, <2>3 DEF A!StartTLS, A!ReturnError
<1>6. CASE A!Bind
  <2>1. /\ pc = "bind" /\ started /\ Stage' = Stage /\ options' = options
        /\ Serving' = options /\ Serving = options
    BY <1>6, <1>b, <1>c DEF A!Bind, A!ReturnError, Stage, Served, AOrder, AReloading
  <2>2. CASE pc' = "swap"
    BY <1>6, <2>1, <2>2, ContractStutter, <1>e DEF A!Bind, A!gateVars, Requested
  <2>3. CASE pc' = "idle"
    BY <2>1, <2>3, <1>a, ContractFail DEF Requested
  <2> QED
    BY <1>6, <2>2, <2>3 DEF A!Bind, A!ReturnError
<1>7. CASE A!SwapListener
  <2>1. pc = "swap" /\ Stage = "up" /\ Stage' = Stage /\ UNCHANGED <<nodeInfo, options>>
    BY <1>7 DEF A!SwapListener, A!gateVars, Stage, AOrder, AReloading
  <2>2. Requested' = Requested /\ Serving' = [port |-> NewOpts.port, sni |-> options.sni]
    BY <1>7, <2>1, <1>c, <1>e DEF A!SwapListener, Requested, Served, AOrder, AReloading
  <2> QED
    BY <2>1, <2>2, <1>a, ContractMove
<1>8. CASE A!SwapTLS
  <2>1. /\ pc = "swapTLS" /\ started /\ Stage' = Stage /\ options' = NewOpts
        /\ Requested' = nil /\ Serving' = NewOpts
    BY <1>8, <1>c, ASame DEF A!SwapTLS, A!ReturnNil, Stage, Requested, Served, AOrder,
       AReloading
  <2> QED
    BY <2>1, <1>a, ContractSucceed
<1>9. CASE EarlyReturn /\ UNCHANGED A!liveVars
  <2>1. /\ pc # "idle" /\ Stage' = Stage /\ options' = options /\ Requested' = nil
        /\ Serving' = IF started THEN options ELSE nil
    BY <1>9, <1>c DEF EarlyReturn, ReturnNil, ReturnError, Stage, Requested, Served
  <2> QED
    BY <2>1, <1>a, ContractFail
<1>10. CASE A!Start
  <2>1. CASE started'
    <3>1. /\ Stage = "new" /\ Stage' = "up" /\ options' = options
          /\ Requested' = Requested /\ Serving' = options
      BY <1>10, <2>1, <1>c, <1>e, Zenon DEF A!Start, A!Unlocked, A!gateVars, Stage, Requested,
         Served, AOrder
    <3> QED
      BY <3>1, ContractStart
  <2>2. CASE ~started'
    <3>1. /\ Stage' = Stage /\ options' = options /\ Requested' = Requested
          /\ Serving' = Serving
      BY <1>10, <2>2, <1>b, <1>c, <1>e DEF A!Start, A!gateVars, Stage, Requested, Served,
         AOrder
    <3> QED
      BY <3>1, ContractStutter
  <2> QED
    BY <2>1, <2>2
<1>11. CASE A!Close
  BY <1>11, ContractClose DEF A!Close
<1>13. CASE (NoPort \/ SyncFails) /\ UNCHANGED A!liveVars
  <2>1. /\ pc = "idle" /\ UNCHANGED <<pc, options, started>>
        /\ phase' = phase \/ (phase' = "exit" /\ phase = "boot")
    BY <1>13 DEF NoPort, SyncFails, Ticking
  <2> QED
    BY <1>13, <2>1, ContractStutter DEF A!liveVars, Stage, Requested, Serving
<1> QED
  BY <1>1, <1>2, <1>3, <1>4, <1>5, <1>6, <1>7, <1>8, <1>9, <1>10, <1>11, <1>13, ASame, Zenon
     DEF A!Next, A!ConfigureFromPanelNode

\* A reload of an AnyTLS inbound does what the controller relies on, without a
\* pause: it implements ReloadContract.
THEOREM AnyTLSImplementsContract == A!Spec => ContractSpec
<1>1. A!Init => Contract!Init
  BY ASame, ConfigType, ReloadAssumption DEF A!Init, InitTLS, InitReload, Contract!Init,
     Contract!Settings, Settings
<1>2. ASSUME UNCHANGED A!vars PROVE UNCHANGED Contract!vars
  BY <1>2 DEF A!vars, A!gateVars, A!liveVars, Contract!vars, NewOpts
<1>3. AInv /\ AInv' /\ [A!Next]_(A!vars) => [Contract!Next]_(Contract!vars)
  BY AStepImplements, <1>2
<1> QED
  BY AInitInv, ANextInv, <1>1, <1>3, PTL DEF A!Spec, ContractSpec, Contract!Spec

-----------------------------------------------------------------------------
(* What the controller remembers as applied is applied. *)

\* Every step keeps it.
LEMMA ANextApplied == AInv /\ Applied /\ [A!Next]_(A!vars) => Applied'
<1> SUFFICES ASSUME AInv, Applied, [A!Next]_(A!vars), pc' = "idle", ~reloadPending', ~skipped',
                    phase' \notin {"boot", "exit", "closed"}
             PROVE  Takes(nodeInfo)'
  BY DEF Applied
<1>1. CASE /\ pc = "idle" /\ UNCHANGED <<nodeInfo, reloadPending, options, skipped>>
           /\ phase \notin {"boot", "exit", "closed"}
  BY <1>1 DEF Applied, Takes
<1>2. CASE UNCHANGED nodeInfo /\ options' = NewOpts
  BY <1>2 DEF Takes, NewOpts
<1>3. CASE UNCHANGED <<nodeInfo, options>> /\ ~PortChanged /\ ~SniChanged
  BY <1>3 DEF Takes, NewOpts, PortChanged, SniChanged
<1>4. phase # "closed"
  BY DEF A!Next, A!ConfigureFromPanelNode, A!EditNode, A!Tick, A!NoPort, A!SyncFails,
     A!Ticking, A!Stop, A!Stash, A!StartTLS,
     A!Bind, A!SwapListener, A!SwapTLS, A!EarlyReturn, A!Start, A!Close, A!ReturnNil,
     A!ReturnError, A!vars
<1>6. CASE (EditNode \/ Tick \/ NoPort \/ SyncFails \/ Stop) /\ UNCHANGED A!liveVars
  BY <1>6, <1>1, <1>4 DEF EditNode, Tick, NoPort, SyncFails, Ticking, Stop, gateVars
<1>7. CASE A!Stash \/ A!SwapTLS
  BY <1>7, <1>2, ASame DEF A!Stash, A!SwapTLS, A!ReturnError, A!gateVars
<1>8. CASE A!StartTLS \/ A!Bind \/ A!SwapListener
  BY <1>8 DEF A!StartTLS, A!Bind, A!SwapListener, A!ReturnError
<1>9. CASE EarlyReturn
  BY <1>9, <1>3 DEF EarlyReturn, ReturnError, gateVars
<1>10. CASE A!Start \/ A!Close
  BY <1>10, <1>1, <1>4 DEF A!Start, A!Close, A!gateVars
<1>11. CASE UNCHANGED A!vars
  BY <1>11, <1>1 DEF A!vars, A!gateVars
<1> QED
  BY <1>6, <1>7, <1>8, <1>9, <1>10, <1>11, ASame, Zenon DEF A!Next, A!ConfigureFromPanelNode

\* A running AnyTLS inbound that is not in the middle of a call serves the node
\* the controller fetched last, unless the controller knows that it has to try
\* again or the users could not be synced in the tick that fetched it: no call
\* loses a reload.
THEOREM AnyTLSForgetsNothing == A!Spec => []ServesUnlessPending
<1>1. A!Init => Applied
  BY ASame DEF A!Init, InitTLS, InitReload, Applied
<1>2. AInv /\ Applied => ServesUnlessPending
  BY DEF AInv, AOrder, ALive, Unlocked, Applied, Takes, ServesUnlessPending, Serves
<1> QED
  BY AInitInv, ANextInv, ANextApplied, <1>1, <1>2, PTL DEF A!Spec

\* From Start to Close clients always meet an AnyTLS inbound: during every
\* call, failed or not, at the port of the last successful call or of this one.
THEOREM AnyTLSAlwaysServes == A!Spec => []AlwaysServed
<1>1. AInv => AlwaysServed
  <2> SUFFICES ASSUME AInv, started, phase # "closed"
               PROVE  Serving \in {options} \cup
                        (IF pc = "idle" THEN {}
                         ELSE {[port |-> NewOpts.port, sni |-> options.sni]})
    BY DEF AlwaysServed
  <2> QED
    BY AServedIs DEF Served
<1> QED
  BY AInitInv, ANextInv, <1>1, PTL DEF A!Spec

=============================================================================
