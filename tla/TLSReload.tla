------------------------------ MODULE TLSReload ------------------------------
(***************************************************************************)
(* What an inbound has open whose TLS lives outside its service: AnyTLS    *)
(* and Naive.  A reload brings up a new TLS configuration and new sockets  *)
(* next to the old ones, and then swaps.                                   *)
(*                                                                         *)
(* A socket is a pair of a port and a network; a TLS configuration is      *)
(* named by its SNI: two of the same name are never alive together.        *)
(***************************************************************************)
EXTENDS NodeReload

CONSTANT Network  \* the networks of the inbound: "tcp", "udp" or both

ASSUME NetworkAssumption == Network \subseteq {"tcp", "udp"} /\ Network # {}

VARIABLES
  listener, tlsConfig,  \* the current ones
  open,       \* open sockets
  tlsStarted  \* TLS configurations started and not closed

Sockets(p) == {p} \X Network

InitTLS ==
  /\ InitReload
  /\ listener = Config.port /\ tlsConfig = Config.sni
  /\ open = {} /\ tlsStarted = {}

TLSTypeOK ==
  /\ ReloadTypeOK
  /\ listener \in Port /\ tlsConfig \in SNI
  /\ open \subseteq Port \X Network /\ tlsStarted \subseteq SNI

-----------------------------------------------------------------------------
\* Between two calls, after any sequence of successful and failed reloads, a
\* running inbound holds exactly the sockets and the TLS configuration of its
\* options: nothing leaked, and a failed reload left "a clean rollback"
\* (AnyTLS), "if either fails to bind, both are rolled back and the old port
\* keeps serving" (Naive).
CleanBetweenCalls ==
  phase = "up" /\ pc = "idle" =>
    /\ open = Sockets(options.port) /\ listener = options.port
    /\ tlsStarted = {options.sni} /\ tlsConfig = options.sni

\* A reload does what the controller relies on, and a running inbound is never
\* down: in the middle of every reload, failed or not, the current listener is
\* open on all networks and the current TLS configuration runs.
Contract == INSTANCE ReloadContract WITH
  Gap <- FALSE,
  phase <- IF phase = "closed" THEN "closed" ELSE IF started THEN "up" ELSE "new",
  settings <- options,
  request <- IF pc = "idle" THEN nil ELSE NewOpts,
  serving <- IF started /\ Sockets(listener) \subseteq open /\ tlsConfig \in tlsStarted
               THEN [port |-> listener, sni |-> tlsConfig] ELSE nil

ContractSpec == Contract!Spec

\* The inbound serves what a node asks for.
Serves(n) ==
  /\ open = Sockets(n.port) /\ listener = n.port
  /\ n.host # NoHost => tlsConfig = n.host

=============================================================================
