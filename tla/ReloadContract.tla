--------------------------- MODULE ReloadContract ---------------------------
(***************************************************************************)
(* What the controller relies on when it hands a node to an inbound, and   *)
(* what Controller!Reload and Controller!BootConfigure assume:             *)
(*   - a call that returns nil leaves the inbound serving the requested    *)
(*     port and SNI, one that returns an error leaves it as it was;        *)
(*   - in between, clients meet the old or the new port with the old or    *)
(*     the new SNI, and, only if Gap, sometimes nobody;                    *)
(*   - before Start the request is only remembered, and Start serves it.   *)
(* Nothing is said of an inbound that was closed.                          *)
(***************************************************************************)
CONSTANTS Port, SNI, nil, Gap

VARIABLES
  phase,     \* "new", "up" or "closed"
  settings,  \* what the last successful call asked for
  request,   \* what the call in progress asks for, or nil
  serving    \* the port and the SNI at which clients are served, or nil

vars == <<phase, settings, request, serving>>

Settings == [port : Port, sni : SNI]

Init ==
  /\ phase = "new"
  /\ settings \in Settings
  /\ request = nil /\ serving = nil

Ask ==
  /\ request = nil
  /\ request' \in Settings
  /\ UNCHANGED <<phase, settings, serving>>

Between == [port : {settings.port, request.port}, sni : {settings.sni, request.sni}]
             \cup (IF Gap THEN {nil} ELSE {})

Move ==
  /\ request # nil /\ phase = "up"
  /\ serving' \in Between
  /\ UNCHANGED <<phase, settings, request>>

Succeed ==
  /\ request # nil
  /\ settings' = request
  /\ serving' = IF phase = "up" THEN request ELSE nil
  /\ request' = nil
  /\ UNCHANGED phase

Fail ==
  /\ request # nil
  /\ serving' = IF phase = "up" THEN settings ELSE nil
  /\ request' = nil
  /\ UNCHANGED <<phase, settings>>

Start ==
  /\ phase = "new"
  /\ phase' = "up"
  /\ serving' = settings
  /\ UNCHANGED <<settings, request>>

Close == phase' = "closed"

Next == \/ phase # "closed" /\ (Ask \/ Move \/ Succeed \/ Fail \/ Start \/ Close)
        \/ phase = "closed" /\ phase' = "closed"

Spec == Init /\ [][Next]_vars
=============================================================================
