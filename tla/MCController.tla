---------------------------- MODULE MCController ----------------------------
(***************************************************************************)
(* Nodes that differ in port, host name and speed limit, one without a     *)
(* port and one without a host name; inbounds of both kinds and panels     *)
(* with and without ETags, with different calls that fail.                 *)
(***************************************************************************)
EXTENDS Controller

MCNodeInfo == {[port |-> 1, sni |-> "a", speed |-> 0],
               [port |-> 2, sni |-> "b", speed |-> 2],
               [port |-> 2, sni |-> "", speed |-> 2],
               [port |-> 0, sni |-> "a", speed |-> 0]}

CONSTANTS c1, c2

MCMaterial == {[cred |-> c1, speed |-> 0], [cred |-> c2, speed |-> 1]}

Incremental(calls) ==
  [inbound |-> "incremental", panel |-> "tagged", mayFail |-> calls]

MCWorlds ==
  {Incremental({"GetNodeInfo", "ConfigureFromPanelNode"}),
   Incremental(Calls \ {"RefreshUsers"}),
   [inbound |-> "refresh", panel |-> "tagged", mayFail |-> {"GetUserList", "RefreshUsers"}],
   [inbound |-> "incremental", panel |-> "plain",
    mayFail |-> {"RemoveUsers", "ConfigureFromPanelNode"}]}

MCWorldsUserList == {Incremental({"GetUserList"})}
=============================================================================
