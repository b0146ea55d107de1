---------------------------- MODULE AnyTLSInbound ----------------------------
(***************************************************************************)
(* protocol/anytls/inbound.go: Start, Close and the hot reload of an       *)
(* inbound that serves TCP only.                                           *)
(***************************************************************************)
EXTENDS TLSReload

ASSUME AnyTLSAssumption == Network = {"tcp"}

liveVars == <<listener, tlsConfig, open, tlsStarted>>
vars == <<gateVars, reloadPending, phase, pc, options, started, failures, liveVars>>

Init == InitTLS

\* Before Start: remember the options and replace the TLS configuration,
\* which a failed Start may have started, unless the TLS options are bad.
Stash ==
  /\ PreStart
  /\ \/ /\ options' = NewOpts
        /\ listener' = NewOpts.port /\ tlsConfig' = NewOpts.sni
        /\ tlsStarted' = tlsStarted \ {tlsConfig}
        /\ ReturnNil
        /\ UNCHANGED failures
     \/ /\ Error
        /\ ReturnError
        /\ UNCHANGED <<options, listener, tlsConfig, tlsStarted>>
  /\ UNCHANGED <<gateVars, started, open>>

\* Build and start the new TLS configuration, if the SNI changed.
StartTLS ==
  /\ HotReload
  /\ \/ /\ pc' = "bind"
        /\ tlsStarted' = IF SniChanged THEN tlsStarted \cup {NewOpts.sni} ELSE tlsStarted
        /\ UNCHANGED <<reloadPending, phase, failures>>
     \/ /\ SniChanged /\ Error
        /\ ReturnError
        /\ UNCHANGED tlsStarted
  /\ UNCHANGED <<gateVars, options, started, listener, tlsConfig, open>>

\* A bug: the old listener is closed before the new one is bound.
BindCloseFirst ==
  /\ pc = "bind"
  /\ \/ /\ pc' = "swap"
        /\ open' = (open \ Sockets(listener)) \cup Sockets(NewOpts.port)
        /\ UNCHANGED <<reloadPending, phase, failures, tlsStarted>>
     \/ /\ PortChanged /\ Error
        /\ ReturnError
        /\ open' = open \ Sockets(listener)
        /\ tlsStarted' = IF SniChanged THEN tlsStarted \ {NewOpts.sni} ELSE tlsStarted
  /\ UNCHANGED <<gateVars, options, started, listener, tlsConfig>>

\* A bug: a failed bind leaves the new TLS configuration running.
BindLeakTLS ==
  /\ pc = "bind"
  /\ \/ /\ pc' = "swap"
        /\ open' = IF PortChanged THEN open \cup Sockets(NewOpts.port) ELSE open
        /\ UNCHANGED <<reloadPending, phase, failures>>
     \/ /\ PortChanged /\ Error
        /\ ReturnError
        /\ UNCHANGED open
  /\ UNCHANGED <<gateVars, options, started, listener, tlsConfig, tlsStarted>>

\* Bind the new port, if it changed; a failure takes the new TLS back.
Bind ==
  /\ pc = "bind"
  /\ \/ /\ pc' = "swap"
        /\ open' = IF PortChanged THEN open \cup Sockets(NewOpts.port) ELSE open
        /\ UNCHANGED <<reloadPending, phase, failures, tlsStarted>>
     \/ /\ PortChanged /\ Error
        /\ ReturnError
        /\ tlsStarted' = IF SniChanged THEN tlsStarted \ {NewOpts.sni} ELSE tlsStarted
        /\ UNCHANGED open
  /\ UNCHANGED <<gateVars, options, started, listener, tlsConfig>>

\* The new listener becomes the current one and the old one is closed.
SwapListener ==
  /\ pc = "swap"
  /\ pc' = "swapTLS"
  /\ listener' = NewOpts.port
  /\ open' = IF PortChanged THEN open \ Sockets(listener) ELSE open
  /\ UNCHANGED <<gateVars, reloadPending, phase, options, started, failures, tlsConfig,
                 tlsStarted>>

\* The same for the TLS configuration, and the options are committed.
SwapTLS ==
  /\ pc = "swapTLS"
  /\ tlsConfig' = NewOpts.sni
  /\ tlsStarted' = IF SniChanged THEN tlsStarted \ {tlsConfig} ELSE tlsStarted
  /\ options' = NewOpts
  /\ ReturnNil
  /\ UNCHANGED <<gateVars, started, failures, listener, open>>

\* Start: TLS first, then the listener.  An error makes the box close.
Start ==
  /\ phase = "start" /\ Unlocked
  /\ \/ /\ tlsStarted' = {tlsConfig} /\ open' = Sockets(listener)
        /\ started' = TRUE
        /\ phase' = "up"
        /\ UNCHANGED failures
     \/ /\ Error
        /\ phase' = "stopped"
        /\ tlsStarted' \in {{}, {tlsConfig}}
        /\ UNCHANGED <<started, open>>
  /\ UNCHANGED <<gateVars, reloadPending, pc, options, listener, tlsConfig>>

\* Close whatever is current now.
Close ==
  /\ phase = "stopped" /\ Unlocked
  /\ phase' = "closed"
  /\ open' = open \ Sockets(listener)
  /\ tlsStarted' = tlsStarted \ {tlsConfig}
  /\ UNCHANGED <<gateVars, reloadPending, pc, options, started, failures, listener,
                 tlsConfig>>

-----------------------------------------------------------------------------
ConfigureFromPanelNode ==
  \/ Stash \/ StartTLS \/ Bind \/ SwapListener \/ SwapTLS
  \/ EarlyReturn /\ UNCHANGED liveVars

Next == \/ (EditNode \/ Tick \/ NoPort \/ SyncFails \/ Stop) /\ UNCHANGED liveVars
        \/ ConfigureFromPanelNode
        \/ Start \/ Close

Spec == Init /\ [][Next]_vars

\* The node monitor keeps ticking (Periodic!KeepsTicking) and its calls and
\* the box's Start return.
FairSpec == /\ Spec
            /\ WF_vars(Tick /\ UNCHANGED liveVars)
            /\ WF_vars(ConfigureFromPanelNode)
            /\ WF_vars(Start)

-----------------------------------------------------------------------------
TypeOK ==
  /\ TLSTypeOK
  /\ pc \in {"idle", "call", "bind", "swap", "swapTLS"}

\* Once the panel is left alone and reloads stop failing, the inbound serves
\* the panel's node, provided that its type and port are valid, that the users
\* could be synced in the tick that fetched it (if not, and no reload was due,
\* nobody asks for this one until the node changes again), and that no node
\* without a port has ended the monitor before.
Converges ==
  <>[](\/ Serves(panel) \/ Refused(panel)
       \/ skipped \/ ended \/ phase \in {"stopped", "closed", "exit"})

=============================================================================
