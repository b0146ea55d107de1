------------------------------ MODULE OnlineIPs ------------------------------
(***************************************************************************)
(* The addresses that a user is online from.  Connections enter them into  *)
(* the ipTable of a User (AddIP), the user monitor drains the tables and   *)
(* reports them, the panel counts them over all its nodes, and the next    *)
(* user list, parsed against LastReportOnline, gives every user this       *)
(* node's share of the device limit, or drops the user.                    *)
(*                                                                         *)
(* A meter is one User object, as in UserTraffic, where the way to delete  *)
(* and add users is modelled call by call; here syncUserList resets the    *)
(* traffic of the users it is about to delete, and then either fails or    *)
(* commits the list in one step.                                           *)
(***************************************************************************)
EXTENDS Integers, FiniteSets

CONSTANTS
  UID, Meter, Conn, IP, nil,
  DeviceLimit,        \* the panel's limit per user; 0: none
  EnableDeviceLimit,  \* Config.EnableDeviceLimit
  MaxOthers,          \* bound: devices of a user at the panel's other nodes
  MaxCount,           \* bound: ipNum, which may outgrow the table (IPNumCovers)
  MaxSyncs            \* bound: user lists that the panel serves

ASSUME OnlineAssumption ==
  /\ IsFiniteSet(Conn) /\ IsFiniteSet(IP) /\ IsFiniteSet(UID) /\ IsFiniteSet(Meter)
  /\ nil \notin UID \cup Meter
  /\ {DeviceLimit, MaxOthers, MaxCount, MaxSyncs} \subseteq Nat
  /\ EnableDeviceLimit \in BOOLEAN

VARIABLES
  users, uidOf,              \* Authenticator.users and User.UID
  ipTable, ipNum, maxIPNum,  \* of every meter
  active,                    \* has the meter counted bytes since ResetTraffic?
  conn,                      \* every connection, and where it is in AddIP
  mon,                       \* userInfoMonitor: where it is, users left, user
                             \* in hand, keys its Range owes and has visited
  onlineUsers,               \* userInfoMonitor: the list it is building
  LastReportOnline,          \* APIClient.LastReportOnline
  alive, others,             \* the panel: addresses it knows from this node,
                             \* and how many it knew from others at the last list
  sync, aliveIP, list,       \* syncUserList: where it is, alive_ip of the
                             \* answer, and the device limits it parsed or,
                             \* while "pending", kept in lastUserList
  syncs

onlineVars == <<users, uidOf, ipTable, ipNum, maxIPNum, active, conn, mon, onlineUsers,
                LastReportOnline, alive, others, sync, aliveIP, list, syncs>>

tableVars == <<ipTable, ipNum, maxIPNum, active>>
monVars   == <<mon, onlineUsers, LastReportOnline, alive>>
syncVars  == <<users, uidOf, sync, aliveIP, list, syncs>>

NoConn == [state |-> "idle", meter |-> nil, ip |-> nil]
Resting == [state |-> "idle", todo |-> {}, meter |-> nil, due |-> {}, visited |-> {}]
Dropped == -1    \* a user that ParseUserListResponse leaves out

Registered == {users[u] : u \in UID} \ {nil}
Unused == {m \in Meter : uidOf[m] = nil}

OnlineInit ==
  /\ users = [u \in UID |-> nil] /\ uidOf = [m \in Meter |-> nil]
  /\ ipTable = [m \in Meter |-> {}]
  /\ ipNum = [m \in Meter |-> 0] /\ maxIPNum = [m \in Meter |-> 0]
  /\ active = [m \in Meter |-> FALSE]
  /\ conn = [k \in Conn |-> NoConn]
  /\ mon = Resting
  /\ onlineUsers = [u \in UID |-> {}]
  /\ LastReportOnline = [u \in UID |-> 0]
  /\ alive = [u \in UID |-> {}] /\ others = [u \in UID |-> 0]
  /\ sync = "idle"
  /\ aliveIP = [u \in UID |-> 0] /\ list = [u \in UID |-> Dropped]
  /\ syncs = 0

-----------------------------------------------------------------------------
(* Connections: LoadOrCreateUserCounter, with AddIP step by step. *)

ConnStep(k, from, to) ==
  /\ conn[k].state = from
  /\ conn' = [conn EXCEPT ![k].state = to]
  /\ UNCHANGED <<monVars, syncVars, others>>

\* LoadUser, and AddIP's look into the table.
AddIPLoad(k, u, ip) ==
  /\ conn[k].state = "idle"
  /\ users[u] # nil /\ ipNum[users[u]] < MaxCount
  /\ conn' = [conn EXCEPT ![k] =
       [state |-> IF ip \in ipTable[users[u]] THEN "open" ELSE "check",
        meter |-> users[u], ip |-> ip]]
  /\ UNCHANGED <<tableVars, monVars, syncVars, others>>

Full(m) == maxIPNum[m] > 0 /\ ipNum[m] + 1 > maxIPNum[m]

\* At the limit AddIP returns false, which LoadOrCreateUserCounter ignores:
\* the connection goes on, and its address is not in the table.
AddIPCheck(k) ==
  /\ ConnStep(k, "check", IF Full(conn[k].meter) THEN "open" ELSE "store")
  /\ UNCHANGED tableVars

AddIPStore(k) ==
  /\ ConnStep(k, "store", "count")
  /\ ipTable' = [ipTable EXCEPT ![conn[k].meter] = @ \cup {conn[k].ip}]
  /\ UNCHANGED <<ipNum, maxIPNum, active>>

\* A bug: the count is set from the value that the limit was checked with.
AddIPCountSet(k) ==
  /\ ConnStep(k, "count", "open")
  /\ ipNum' = [ipNum EXCEPT ![conn[k].meter] = 1]
  /\ UNCHANGED <<ipTable, maxIPNum, active>>

AddIPCount(k) ==
  /\ ConnStep(k, "count", "open")
  /\ ipNum' = [ipNum EXCEPT ![conn[k].meter] = @ + 1]
  /\ UNCHANGED <<ipTable, maxIPNum, active>>

Transfer(k) ==
  /\ ConnStep(k, "open", "open")
  /\ active' = [active EXCEPT ![conn[k].meter] = TRUE]
  /\ UNCHANGED <<ipTable, ipNum, maxIPNum>>

CloseConn(k) ==
  /\ conn[k].state = "open"
  /\ conn' = [conn EXCEPT ![k] = NoConn]
  /\ UNCHANGED <<tableVars, monVars, syncVars, others>>

-----------------------------------------------------------------------------
(* The user monitor. *)

ListUsers ==
  /\ mon.state = "idle"
  /\ mon' = [mon EXCEPT !.state = "users", !.todo = Registered]
  /\ UNCHANGED <<tableVars, conn, onlineUsers, LastReportOnline, alive, syncVars, others>>

\* ResetTraffic of one user; only a user who moved bytes is asked for
\* addresses.  Range owes the keys that are there when it begins.
ResetTraffic(m) ==
  /\ mon.state = "users" /\ m \in mon.todo
  /\ active' = [active EXCEPT ![m] = FALSE]
  /\ mon' = IF active[m]
              THEN [state |-> "range", todo |-> mon.todo \ {m}, meter |-> m,
                    due |-> ipTable[m], visited |-> {}]
              ELSE [mon EXCEPT !.todo = @ \ {m}]
  /\ UNCHANGED <<ipTable, ipNum, maxIPNum, conn, onlineUsers, LastReportOnline, alive,
                 syncVars, others>>

\* ResetIPTable: Range visits no key twice and may visit keys stored since.
RangeDelete(ip) ==
  /\ mon.state = "range"
  /\ ip \in ipTable[mon.meter] \ mon.visited
  /\ ipTable' = [ipTable EXCEPT ![mon.meter] = @ \ {ip}]
  /\ onlineUsers' = [onlineUsers EXCEPT ![uidOf[mon.meter]] = @ \cup {ip}]
  /\ mon' = [mon EXCEPT !.state = "minus", !.visited = @ \cup {ip}]
  /\ UNCHANGED <<ipNum, maxIPNum, active, conn, LastReportOnline, alive, syncVars, others>>

RangeCount ==
  /\ mon.state = "minus"
  /\ ipNum' = [ipNum EXCEPT ![mon.meter] = @ - 1]
  /\ mon' = [mon EXCEPT !.state = "range"]
  /\ UNCHANGED <<ipTable, maxIPNum, active, conn, onlineUsers, LastReportOnline, alive,
                 syncVars, others>>

\* A bug: ResetIPTable stops at the first key.
RangeEndEarly ==
  /\ mon.state = "range"
  /\ mon.visited # {} \/ mon.due = {}
  /\ mon' = [mon EXCEPT !.state = "users", !.meter = nil, !.due = {}, !.visited = {}]
  /\ UNCHANGED <<tableVars, conn, onlineUsers, LastReportOnline, alive, syncVars, others>>

RangeEnd ==
  /\ mon.state = "range"
  /\ mon.due \subseteq mon.visited
  /\ mon' = [mon EXCEPT !.state = "users", !.meter = nil, !.due = {}, !.visited = {}]
  /\ UNCHANGED <<tableVars, conn, onlineUsers, LastReportOnline, alive, syncVars, others>>

\* ReportNodeOnlineUsers takes the client's lock and replaces
\* LastReportOnline before the POST; nothing to report is not reported.
ReportOnline ==
  /\ mon.state = "users" /\ mon.todo = {}
  /\ IF \E u \in UID : onlineUsers[u] # {}
       THEN /\ LastReportOnline' = [u \in UID |-> Cardinality(onlineUsers[u])]
            /\ mon' = [mon EXCEPT !.state = "post"]
       ELSE /\ mon' = [mon EXCEPT !.state = "audit"]
            /\ UNCHANGED LastReportOnline
  /\ UNCHANGED <<tableVars, conn, onlineUsers, alive, syncVars, others>>

\* The POST ends, processed by the panel or not; either way the list is
\* given up.
PostOnline ==
  /\ mon.state = "post"
  /\ mon' = [mon EXCEPT !.state = "audit"]
  /\ \/ alive' = [u \in UID |-> alive[u] \cup onlineUsers[u]]
     \/ UNCHANGED alive
  /\ UNCHANGED <<tableVars, conn, onlineUsers, LastReportOnline, syncVars, others>>

-----------------------------------------------------------------------------
(* The panel, seen through alive_ip. *)

\* Addresses of this node that were not reported for a while.
Forget(u) ==
  /\ alive[u] # {}
  /\ alive' = [alive EXCEPT ![u] = {}]
  /\ UNCHANGED <<tableVars, conn, mon, onlineUsers, LastReportOnline, syncVars, others>>

-----------------------------------------------------------------------------
(* The user list: sync is "idle" between two ticks of the node monitor,     *)
(* "pending" if userSyncPending is set there, and "rules" when syncUserList *)
(* returned without an error and the tick goes on.  A tick that fails to    *)
(* fetch the list changes nothing.                                          *)

\* GetUserList: the panel answers 200 with its counts of this moment, n of
\* them from other nodes.
GetUserList(n) ==
  /\ sync \in {"idle", "pending"} /\ syncs < MaxSyncs
  /\ sync' = "parse" /\ syncs' = syncs + 1
  /\ others' = n
  /\ aliveIP' = [u \in UID |-> n[u] + Cardinality(alive[u])]
  /\ UNCHANGED <<users, uidOf, list, tableVars, conn, monVars>>

\* 304: there is nothing to do, unless the last list could not be applied.
UserNotModified ==
  /\ sync \in {"idle", "pending"} /\ syncs > 0
  /\ sync' = IF sync = "pending" THEN "apply" ELSE "rules"
  /\ UNCHANGED <<users, uidOf, aliveIP, list, syncs, tableVars, conn, monVars, others>>

\* A bug: the addresses of this node are not given back.
LocalLimitAlone(d, a, lastOnline) ==
  IF d = 0 \/ a = 0 THEN d
  ELSE IF d - a > 0 THEN d - a
  ELSE IF lastOnline > 0 THEN lastOnline
  ELSE Dropped

\* This node's share of a limit d of which a devices are in use, lastOnline
\* of them at this node.
LocalLimit(d, a, lastOnline) ==
  IF d = 0 \/ a = 0 THEN d
  ELSE IF d - a + lastOnline > 0 THEN d - a + lastOnline
  ELSE IF lastOnline > 0 THEN lastOnline
  ELSE Dropped

\* ParseUserListResponse needs the lock that a report holds during its POST,
\* and clears LastReportOnline.
ParseUserListResponse ==
  /\ sync = "parse" /\ mon.state # "post"
  /\ sync' = "apply"
  /\ list' = [u \in UID |-> LocalLimit(DeviceLimit, aliveIP[u], LastReportOnline[u])]
  /\ LastReportOnline' = [u \in UID |-> 0]
  /\ aliveIP' = [u \in UID |-> 0]
  /\ UNCHANGED <<users, uidOf, syncs, tableVars, conn, mon, onlineUsers, alive,
                 others>>

\* ResetTraffic of every user that the list lacks.
ResetDeleted ==
  active' = [m \in Meter |-> active[m] /\ ~\E u \in UID : users[u] = m /\ list[u] = Dropped]

\* dumpTrafficForDeleted: what the users that the list lacks have counted is
\* taken, and reported as traffic only.
DumpTrafficForDeleted ==
  /\ sync = "apply"
  /\ sync' = "delta"
  /\ ResetDeleted
  /\ UNCHANGED <<users, uidOf, aliveIP, list, syncs, ipTable, ipNum, maxIPNum, conn, monVars,
                 others>>

\* applyRuntimeUserDelta fails: every user stays, and the list is kept.
RuntimeError ==
  /\ sync = "delta"
  /\ sync' = "pending"
  /\ UNCHANGED <<users, uidOf, aliveIP, list, syncs, tableVars, conn, monVars, others>>

\* It succeeds: DelUser, AddUser and ApplyUserLimits of syncUserList.
ApplyUserList ==
  LET kept  == {u \in UID : list[u] # Dropped}
      fresh == {u \in kept : users[u] = nil}
      new   == CHOOSE f \in [fresh -> Unused] : \A u, v \in fresh : f[u] = f[v] => u = v
  IN
  /\ sync = "delta" /\ Cardinality(fresh) <= Cardinality(Unused)
  /\ sync' = "rules" /\ list' = [u \in UID |-> Dropped]
  /\ users' = [u \in UID |-> IF u \in fresh THEN new[u]
                             ELSE IF u \in kept THEN users[u] ELSE nil]
  /\ uidOf' = [m \in Meter |-> IF \E u \in fresh : new[u] = m
                                 THEN CHOOSE u \in fresh : new[u] = m ELSE uidOf[m]]
  /\ maxIPNum' = [m \in Meter |->
       IF EnableDeviceLimit /\ \E u \in kept : users'[u] = m
         THEN list[uidOf'[m]] ELSE maxIPNum[m]]
  /\ ResetDeleted
  /\ UNCHANGED <<aliveIP, syncs, ipTable, ipNum, conn, monVars, others>>

-----------------------------------------------------------------------------
Connection(k) ==
  \/ \E u \in UID, ip \in IP : AddIPLoad(k, u, ip)
  \/ AddIPCheck(k) \/ AddIPStore(k) \/ AddIPCount(k)
  \/ Transfer(k) \/ CloseConn(k)

Monitor ==
  \/ ListUsers \/ RangeCount \/ RangeEnd \/ ReportOnline \/ PostOnline
  \/ \E m \in Meter : ResetTraffic(m)
  \/ \E ip \in IP : RangeDelete(ip)

Panel == \E u \in UID : Forget(u)

Sync ==
  \/ \E n \in [UID -> 0 .. MaxOthers] : GetUserList(n)
  \/ UserNotModified \/ ParseUserListResponse
  \/ DumpTrafficForDeleted \/ RuntimeError \/ ApplyUserList
=============================================================================
