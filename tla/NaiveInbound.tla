---------------------------- MODULE NaiveInbound ----------------------------
(***************************************************************************)
(* protocol/naive: Start, Close and the hot reload.  The inbound serves    *)
(* HTTP/2 on TCP and HTTP/3 on UDP, on the same port number; both ask for  *)
(* the current TLS configuration per connection, so an SNI change touches  *)
(* no socket.  A port moves with both networks or not at all.              *)
(***************************************************************************)
EXTENDS TLSReload

VARIABLE closed  \* n.closed

liveVars == <<listener, tlsConfig, open, tlsStarted, closed>>
vars == <<gateVars, reloadPending, phase, pc, options, started, failures, liveVars>>

Init == InitTLS /\ closed = FALSE

-----------------------------------------------------------------------------
\* Every early return: EarlyReturn, and a call that arrives after Close.
Refuse ==
  /\ \/ EarlyReturn
     \/ /\ pc = "call" /\ ~Refused(nodeInfo) /\ closed
        /\ ReturnNil
        /\ UNCHANGED <<gateVars, options, started, failures>>
  /\ UNCHANGED liveVars

\* Before Start: remember the options and replace the TLS configuration,
\* which a failed Start may have started, unless the TLS options are bad.
Stash ==
  /\ PreStart /\ ~closed
  /\ \/ /\ options' = NewOpts
        /\ listener' = NewOpts.port /\ tlsConfig' = NewOpts.sni
        /\ tlsStarted' = tlsStarted \ {tlsConfig}
        /\ ReturnNil
        /\ UNCHANGED failures
     \/ /\ Error
        /\ ReturnError
        /\ UNCHANGED <<options, listener, tlsConfig, tlsStarted>>
  /\ UNCHANGED <<gateVars, started, open, closed>>

\* A bug: a call that arrives after Close reloads.
StartTLSAfterClose ==
  /\ HotReload
  /\ \/ /\ pc' = "tcp"
        /\ tlsStarted' = IF SniChanged THEN tlsStarted \cup {NewOpts.sni} ELSE tlsStarted
        /\ UNCHANGED <<reloadPending, phase, failures>>
     \/ /\ SniChanged /\ Error
        /\ ReturnError
        /\ UNCHANGED tlsStarted
  /\ UNCHANGED <<gateVars, options, started, listener, tlsConfig, open, closed>>

\* Build and start the new TLS configuration, if the SNI changed.
StartTLS ==
  /\ HotReload /\ ~closed
  /\ \/ /\ pc' = "tcp"
        /\ tlsStarted' = IF SniChanged THEN tlsStarted \cup {NewOpts.sni} ELSE tlsStarted
        /\ UNCHANGED <<reloadPending, phase, failures>>
     \/ /\ SniChanged /\ Error
        /\ ReturnError
        /\ UNCHANGED tlsStarted
  /\ UNCHANGED <<gateVars, options, started, listener, tlsConfig, open, closed>>

\* serve fails on a network: whatever was brought up for the reload is closed.
ServeFails ==
  /\ Error
  /\ ReturnError
  /\ open' = open \ Sockets(NewOpts.port)
  /\ tlsStarted' = IF SniChanged THEN tlsStarted \ {NewOpts.sni} ELSE tlsStarted

\* One half of serve: bind the new port on a network, if it changed and the
\* inbound uses that network.
ServeOn(net, next) ==
  /\ \/ /\ pc' = next
        /\ open' = IF PortChanged THEN open \cup (Sockets(NewOpts.port) \cap (Port \X {net}))
                   ELSE open
        /\ UNCHANGED <<reloadPending, phase, failures, tlsStarted>>
     \/ PortChanged /\ net \in Network /\ ServeFails
  /\ UNCHANGED <<gateVars, options, started, listener, tlsConfig, closed>>

ServeTCP == pc = "tcp" /\ ServeOn("tcp", "udp")

\* A bug: an HTTP/3 failure is not fatal, as it is not in upstream.
ServeUDPOptional ==
  /\ pc = "udp"
  /\ \/ ServeOn("udp", "swap")
     \/ /\ PortChanged /\ Error /\ pc' = "swap"
        /\ UNCHANGED <<gateVars, reloadPending, phase, options, started, listener,
                       tlsConfig, open, tlsStarted, closed>>

\* A bug: an HTTP/3 failure leaves the TCP socket of the new port open.
ServeUDPLeak ==
  /\ pc = "udp"
  /\ \/ ServeOn("udp", "swap")
     \/ /\ PortChanged /\ Error /\ ReturnError
        /\ tlsStarted' = IF SniChanged THEN tlsStarted \ {NewOpts.sni} ELSE tlsStarted
        /\ UNCHANGED <<gateVars, options, started, listener, tlsConfig, open, closed>>

ServeUDP == pc = "udp" /\ ServeOn("udp", "swap")

\* The new port becomes the current one and closeServing ends the old one.
SwapListener ==
  /\ pc = "swap"
  /\ pc' = "swapTLS"
  /\ listener' = NewOpts.port
  /\ open' = IF PortChanged THEN open \ Sockets(listener) ELSE open
  /\ UNCHANGED <<gateVars, reloadPending, phase, options, started, failures, tlsConfig,
                 tlsStarted, closed>>

\* The new TLS configuration becomes the current one; commit the options.
SwapTLS ==
  /\ pc = "swapTLS"
  /\ tlsConfig' = NewOpts.sni
  /\ tlsStarted' = IF SniChanged THEN tlsStarted \ {tlsConfig} ELSE tlsStarted
  /\ options' = NewOpts
  /\ ReturnNil
  /\ UNCHANGED <<gateVars, started, failures, listener, open, closed>>

-----------------------------------------------------------------------------
\* Start: TLS, then TCP, then UDP.  An error makes the box close; if it is
\* HTTP/3 that fails, serve has closed the HTTP/2 server and its socket.
Start ==
  /\ phase = "start" /\ Unlocked
  /\ \/ /\ tlsStarted' = {tlsConfig} /\ open' = Sockets(listener)
        /\ started' = TRUE
        /\ phase' = "up"
        /\ UNCHANGED failures
     \/ /\ Error
        /\ phase' = "stopped"
        /\ tlsStarted' \in {{}, {tlsConfig}}
        /\ UNCHANGED <<started, open>>
  /\ UNCHANGED <<gateVars, reloadPending, pc, options, listener, tlsConfig, closed>>

\* Close whatever is current now, and let no later call reload.
Close ==
  /\ phase = "stopped" /\ Unlocked
  /\ phase' = "closed"
  /\ closed' = TRUE
  /\ open' = open \ Sockets(listener)
  /\ tlsStarted' = tlsStarted \ {tlsConfig}
  /\ UNCHANGED <<gateVars, reloadPending, pc, options, started, failures, listener,
                 tlsConfig>>

ConfigureFromPanelNode ==
  Refuse \/ Stash \/ StartTLS \/ ServeTCP \/ ServeUDP \/ SwapListener \/ SwapTLS

Next == \/ (EditNode \/ Tick \/ NoPort \/ SyncFails \/ Stop) /\ UNCHANGED liveVars
        \/ ConfigureFromPanelNode
        \/ Start \/ Close

Spec == Init /\ [][Next]_vars

-----------------------------------------------------------------------------
TypeOK ==
  /\ TLSTypeOK
  /\ pc \in {"idle", "call", "tcp", "udp", "swap", "swapTLS"}
  /\ closed \in BOOLEAN

\* A closed inbound has no socket and no running TLS configuration, also when
\* a tick in flight calls it afterwards or Start had failed half-way.
ClosedStaysClosed == phase = "closed" => open = {} /\ tlsStarted = {}

=============================================================================
