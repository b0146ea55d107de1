---------------------------- MODULE MCUserMonitor ----------------------------
(***************************************************************************)
(* One user with two User objects, addresses and connections, and rules    *)
(* that are replaced by ones that do not compile and by others that do.    *)
(* Three things share little, so a behaviour is about one of them:         *)
(*   "table"  two connections race with the monitor for one ipTable;       *)
(*   "limit"  one connection, which moves between the ticks, and lists     *)
(*            that change the limit, drop the user and bring them back;    *)
(*            as in "table", a tick whose 304 does nothing is left out;    *)
(*   "hits"   audit hits and no addresses: the one list has no user.       *)
(***************************************************************************)
EXTENDS UserMonitor

VARIABLE world

MCKey == {"k1", "k2"}
MCRulesOf == [v \in 0 .. 2 |-> CASE v = 0 -> {} [] v = 1 -> {"k1"} [] v = 2 -> MCKey]

MCInit == Init /\ world \in {"table", "limit", "hits"}

\* Where the user monitor does nothing that another step could tell from what
\* it did before or does next, it goes on at once.
Passing == {"audit"} \cup (CASE world = "table" -> {"post"}
                             [] world = "hits"  -> {"users"}
                             [] world = "limit" -> {})

MCNext ==
  /\ Next
  /\ mon.state \in Passing => mon' # mon
  /\ world = "table" => /\ syncs' <= 1 /\ others' = others /\ alive' = alive
                        /\ sync # "idle" => conn' = conn /\ mon' = mon
  /\ world = "limit" =>
       /\ \A k \in Conn : conn'[k] # conn[k] => k = (CHOOSE j \in Conn : TRUE)
       /\ \A u \in UID : others'[u] \in {0, DeviceLimit}
       /\ mon.state \in {"range", "minus"} => sync' = sync
       /\ sync \in {"apply", "rules"} => mon' = mon
       /\ mon' = mon /\ sync' = sync => mon.state = "idle" /\ sync \in {"idle", "pending", "delta"}
  /\ IF world = "hits"
       THEN /\ syncs' = 1 /\ others' = [u \in UID |-> DeviceLimit]
            /\ sync # "idle" => sync' # sync
            /\ mon.state # "idle" => sync' = sync
       ELSE panelRules' = 0 /\ clock' = clock /\ ~(sync = "idle" /\ sync' = "rules")
  /\ UNCHANGED world

MCSpec == MCInit /\ [][MCNext]_<<vars, world>> /\ WF_vars(UserInfoMonitor) /\ SF_vars(FetchRules)
=============================================================================
