----------------------------- MODULE Controller -----------------------------
(***************************************************************************)
(* poet/controller: how one node follows its panel.  Controller.Start and  *)
(* the node monitor fetch the node settings and the user list, both behind *)
(* ETags, push the users into the inbound's runtime table and into the     *)
(* authenticator, and hand the node settings to the inbound.               *)
(*                                                                         *)
(* One goroutine runs all of this (Periodic!NoOverlap), so its program     *)
(* counter pc is a single variable; the panel's operator edits the panel   *)
(* between any two of its steps, and every call that can return an error   *)
(* may do so while `failures' lasts.                                       *)
(*                                                                         *)
(* A user list is a function on UID: UID is the panel's key and the name   *)
(* "u<UID>" (buildUserHash) is injective, so it stands for the hash too.   *)
(* A user's material is what userMaterialChanged compares: cred is what    *)
(* the runtime table authenticates (UUID or password), speed its limit.    *)
(* What syncUserList does with the traffic of deleted users is the subject *)
(* of module UserTraffic, and what a reload does to the inbound's sockets  *)
(* of modules NodeReload and AnyTLSInbound: here it succeeds or fails.     *)
(***************************************************************************)
EXTENDS Naturals

CONSTANTS
  UID, Cred, Speed,  \* users, credentials, speed limits (0 is "no limit")
  Material,          \* what the panel can say of a user
  SNI, NodeInfo,     \* host names, and what the panel can say of the node
  NoHost,            \* the empty host name
  nil,               \* no user, no list, no ETag, no settings
  Worlds,            \* kinds of inbound and of panel, and the calls that can fail
  MaxEdits,          \* bound: edits of the panel
  MaxFailures        \* bound: failed calls

Calls == {"GetNodeInfo", "GetUserList", "RemoveUsers", "AddUsers",
          "RefreshUsers", "ConfigureFromPanelNode"}

UserList == [UID -> Material \cup {nil}]
Settings == [port : Nat, sni : SNI]
AuthorEntry == [cred : Cred, rate : Speed]

ASSUME ControllerAssumption ==
  /\ Speed \subseteq Nat /\ 0 \in Speed
  /\ Material \subseteq [cred : Cred, speed : Speed]
  /\ NodeInfo \subseteq [port : Nat, sni : SNI, speed : Speed]
  /\ nil \notin Material \cup Cred \cup UserList \cup NodeInfo \cup Settings
  /\ nil \notin AuthorEntry
  /\ NoHost \in SNI
  /\ Worlds \subseteq [inbound : {"incremental", "refresh"},
                       panel : {"tagged", "plain"}, mayFail : SUBSET Calls]
  /\ MaxEdits \in Nat /\ MaxFailures \in Nat

VARIABLES
  world,    \* what the inbound implements; whether answers have ETags; what may fail
  panel,    \* what the panel serves now: [node, users]
  eTags,    \* APIClient.eTags: the contents the stored ETags stand for
  pc,       \* where Controller.Start or nodeInfoMonitor is
  booting,  \* TRUE while pc is inside Controller.Start
  nodeInfo, usersMap, reloadPending, userSyncPending, lastUserList,
  nodeInfoChanged, prevNodeSpeedLimit, userInfo,  \* locals of the monitor
  applied,  \* the node settings the inbound has committed to
  runtime,  \* the inbound's user table: the credential of every user
  author,   \* the authenticator: profile and speed limit of every user
  edits, failures

panelVars   == <<panel, edits>>
pendingVars == <<reloadPending, userSyncPending, lastUserList>>
localVars   == <<nodeInfoChanged, prevNodeSpeedLimit, userInfo>>
vars == <<world, panelVars, eTags, pc, booting, nodeInfo, usersMap, pendingVars,
          localVars, applied, runtime, author, failures>>

NoUsers == [u \in UID |-> nil]

-----------------------------------------------------------------------------
(* Pure helpers of control.go. *)

\* A bug: a limit of zero counts as the smaller one.
determineRateMin(nodeLimit, userLimit) ==
  IF nodeLimit < userLimit THEN nodeLimit ELSE userLimit

\* determineRate: the smaller limit, where 0 is no limit.
determineRate(nodeLimit, userLimit) ==
  IF nodeLimit = 0 \/ userLimit = 0
    THEN IF nodeLimit > userLimit THEN nodeLimit ELSE userLimit
    ELSE IF nodeLimit < userLimit THEN nodeLimit ELSE userLimit

\* diffUsers, its three lists of hashes.
Added(old, new)   == {u \in UID : old[u] = nil /\ new[u] # nil}
Deleted(old, new) == {u \in UID : old[u] # nil /\ new[u] = nil}
Changed(old, new) ==
  {u \in UID : old[u] # nil /\ new[u] # nil /\ old[u] # new[u]}

\* buildAnyTLSPassword and its twins: what the runtime table keeps of a user.
Credential(m) == IF m = nil THEN nil ELSE m.cred

\* What ConfigureFromPanelNode makes of a node: without a host name, the one
\* that the inbound has stays.
SettingsOf(n) ==
  [port |-> n.port,
   sni  |-> IF n.sni = NoHost /\ applied # nil THEN applied.sni ELSE n.sni]

\* PIncrementalUserInbound and PStartupConfigurableInbound are implemented by
\* the same inbounds: AnyTLS, Hysteria2 and Naive.
Configurable == world.inbound = "incremental"

\* The panel sends an ETag with its answers.
Tagged == world.panel = "tagged"

\* What SetUserProfile and ApplyUserLimits leave in the authenticator.
Entry(m, nodeLimit) ==
  IF m = nil THEN nil
  ELSE [cred |-> m.cred, rate |-> determineRate(nodeLimit, m.speed)]

-----------------------------------------------------------------------------
Init ==
  /\ world \in Worlds
  /\ panel \in [node : NodeInfo, users : UserList]
  /\ eTags = [node |-> nil, users |-> nil]
  /\ pc = "fetchNode" /\ booting = TRUE
  /\ nodeInfo = nil
  /\ usersMap = NoUsers
  /\ reloadPending = FALSE /\ userSyncPending = FALSE /\ lastUserList = nil
  /\ nodeInfoChanged = FALSE /\ prevNodeSpeedLimit = 0 /\ userInfo = NoUsers
  /\ applied = nil
  /\ runtime = NoUsers
  /\ author = NoUsers
  /\ edits = 0 /\ failures = 0

-----------------------------------------------------------------------------
(* The panel, outside this program. *)

EditNode ==
  /\ edits < MaxEdits
  /\ edits' = edits + 1
  /\ \E n \in NodeInfo \ {panel.node} : panel' = [panel EXCEPT !.node = n]
  /\ UNCHANGED <<world, eTags, pc, booting, nodeInfo, usersMap, pendingVars,
                 localVars, applied, runtime, author, failures>>

EditUsers ==
  /\ edits < MaxEdits
  /\ edits' = edits + 1
  /\ \E l \in UserList \ {panel.users} : panel' = [panel EXCEPT !.users = l]
  /\ UNCHANGED <<world, eTags, pc, booting, nodeInfo, usersMap, pendingVars,
                 localVars, applied, runtime, author, failures>>

\* A call returns an error: one of those that can, while the bound lasts.
Error(call) ==
  /\ call \in world.mayFail
  /\ failures < MaxFailures
  /\ failures' = failures + 1

-----------------------------------------------------------------------------
(* Controller.Start and nodeInfoMonitor.  pc = "idle" between two ticks,    *)
(* "exit" when Start failed (Panel.Start ends the process), "stopped" when  *)
(* the monitor returned an error (Periodic!Fail: it is never run again).    *)

\* A new node: the ETag, if it has one, is stored as soon as the answer
\* parses, before the port is looked at.
GetNodeInfo ==
  /\ pc \in {"fetchNode", "idle"}
  /\ eTags.node # panel.node
  /\ eTags' = IF Tagged THEN [eTags EXCEPT !.node = panel.node] ELSE eTags
  /\ IF panel.node.port = 0
       THEN /\ pc' = IF booting THEN "exit" ELSE "stopped"
            /\ UNCHANGED <<nodeInfo, nodeInfoChanged, prevNodeSpeedLimit>>
       ELSE /\ pc' = IF booting THEN "bootConfigure" ELSE "fetchUsers"
            /\ nodeInfo' = panel.node
            /\ nodeInfoChanged' = TRUE
            /\ prevNodeSpeedLimit' = IF nodeInfo = nil THEN 0 ELSE nodeInfo.speed
  /\ UNCHANGED <<panelVars, booting, usersMap, pendingVars, userInfo, applied,
                 runtime, author, failures>>

\* 304: the monitor goes on with the node it has.
NodeNotModified ==
  /\ pc = "idle"
  /\ eTags.node = panel.node
  /\ pc' = "fetchUsers"
  /\ nodeInfoChanged' = FALSE
  /\ prevNodeSpeedLimit' = nodeInfo.speed
  /\ UNCHANGED <<panelVars, eTags, booting, nodeInfo, usersMap, pendingVars,
                 userInfo, applied, runtime, author, failures>>

GetNodeInfoError ==
  /\ pc \in {"fetchNode", "idle"}
  /\ Error("GetNodeInfo")
  /\ pc' = IF booting THEN "exit" ELSE "idle"
  /\ UNCHANGED <<panelVars, eTags, booting, nodeInfo, usersMap, pendingVars,
                 localVars, applied, runtime, author>>

\* Controller.Start configures the inbound, if it can be, before it fetches
\* the users.
BootConfigure ==
  /\ pc = "bootConfigure"
  /\ \/ /\ ~Configurable
        /\ pc' = "fetchUsers"
        /\ UNCHANGED <<applied, failures>>
     \/ /\ Configurable
        /\ applied' = SettingsOf(nodeInfo)
        /\ pc' = "fetchUsers"
        /\ UNCHANGED failures
     \/ /\ Configurable
        /\ Error("ConfigureFromPanelNode")
        /\ pc' = "exit"
        /\ UNCHANGED applied
  /\ UNCHANGED <<panelVars, eTags, booting, nodeInfo, usersMap, pendingVars,
                 localVars, runtime, author>>

-----------------------------------------------------------------------------
(* syncUserList, called by both. *)

\* Where syncUserList returns to, without an error and with one.
Synced == /\ pc' = IF booting THEN "idle" ELSE "limits"
          /\ booting' = FALSE

SyncFailed == /\ pc' = IF booting THEN "exit" ELSE "idle"
              /\ UNCHANGED booting

\* A new list: again the ETag is stored before the list is applied.
GetUserList ==
  /\ pc = "fetchUsers"
  /\ eTags.users # panel.users
  /\ eTags' = IF Tagged THEN [eTags EXCEPT !.users = panel.users] ELSE eTags
  /\ userInfo' = panel.users
  /\ pc' = "apply"
  /\ UNCHANGED <<panelVars, booting, nodeInfo, usersMap, pendingVars,
                 nodeInfoChanged, prevNodeSpeedLimit, applied, runtime, author,
                 failures>>

\* A bug: a 304 ends the sync whether or not a retry is pending.
UserNotModifiedIgnored ==
  /\ pc = "fetchUsers"
  /\ eTags.users = panel.users
  /\ Synced
  /\ UNCHANGED <<panelVars, eTags, nodeInfo, usersMap, pendingVars, localVars,
                 applied, runtime, author, failures>>

\* 304: nothing to do, unless the last list could not be applied.
UserNotModified ==
  /\ pc = "fetchUsers"
  /\ eTags.users = panel.users
  /\ IF userSyncPending
       THEN /\ userInfo' = lastUserList
            /\ pc' = "apply"
            /\ UNCHANGED booting
       ELSE /\ Synced
            /\ UNCHANGED userInfo
  /\ UNCHANGED <<panelVars, eTags, nodeInfo, usersMap, pendingVars,
                 nodeInfoChanged, prevNodeSpeedLimit, applied, runtime, author,
                 failures>>

GetUserListError ==
  /\ pc = "fetchUsers"
  /\ Error("GetUserList")
  /\ SyncFailed
  /\ UNCHANGED <<panelVars, eTags, nodeInfo, usersMap, pendingVars, localVars,
                 applied, runtime, author>>

Gone == Deleted(usersMap, userInfo)
Fresh == Added(usersMap, userInfo) \cup Changed(usersMap, userInfo)

\* The runtime refused the delta: remember the list, so that the retry
\* survives the 304s to come.
RuntimeError(call) ==
  /\ Error(call)
  /\ userSyncPending' = TRUE
  /\ lastUserList' = userInfo
  /\ SyncFailed
  /\ UNCHANGED <<panelVars, eTags, nodeInfo, usersMap, reloadPending, localVars,
                 applied, runtime, author>>

RuntimeStep(next) ==
  /\ pc' = next
  /\ UNCHANGED <<panelVars, eTags, booting, nodeInfo, usersMap, pendingVars,
                 localVars, applied, author, failures>>

\* shouldRefreshRuntimeUsers is false.
NothingToApply ==
  /\ pc = "apply"
  /\ Gone \cup Fresh = {}
  /\ RuntimeStep("commit")
  /\ UNCHANGED runtime

\* A bug: the runtime is not told of deleted users.
RemoveUsersSkipped ==
  /\ pc = "apply" /\ world.inbound = "incremental"
  /\ Gone \cup Fresh # {}
  /\ RuntimeStep("add")
  /\ UNCHANGED runtime

\* applyRuntimeUserDelta on an incremental inbound: first the removals ...
RemoveUsers ==
  /\ pc = "apply" /\ world.inbound = "incremental"
  /\ Gone \cup Fresh # {}
  /\ \/ /\ RuntimeStep("add")
        /\ runtime' = [u \in UID |-> IF u \in Gone THEN nil ELSE runtime[u]]
     \/ Gone # {} /\ RuntimeError("RemoveUsers")

\* A bug: only new users are pushed, a rotated credential is not.
AddUsersOnlyAdded ==
  /\ pc = "add"
  /\ RuntimeStep("commit")
  /\ runtime' = [u \in UID |-> IF u \in Added(usersMap, userInfo)
                                 THEN Credential(userInfo[u]) ELSE runtime[u]]

\* ... then the users that are new or changed.
AddUsers ==
  /\ pc = "add"
  /\ \/ /\ RuntimeStep("commit")
        /\ runtime' = [u \in UID |-> IF u \in Fresh THEN Credential(userInfo[u])
                                     ELSE runtime[u]]
     \/ Fresh # {} /\ RuntimeError("AddUsers")

\* ... and on any other inbound: the whole list at once.
RefreshUsers ==
  /\ pc = "apply" /\ world.inbound = "refresh"
  /\ Gone \cup Fresh # {}
  /\ \/ /\ RuntimeStep("commit")
        /\ runtime' = [u \in UID |-> Credential(userInfo[u])]
     \/ RuntimeError("RefreshUsers")

\* The runtime has the users: commit them to usersMap and the authenticator.
CommitUsers ==
  /\ pc = "commit"
  /\ userSyncPending' = FALSE
  /\ lastUserList' = nil
  /\ usersMap' = userInfo
  /\ author' = [u \in UID |->
                  IF u \in Gone \cup Fresh
                    THEN Entry(userInfo[u], nodeInfo.speed)
                    ELSE author[u]]
  /\ Synced
  /\ UNCHANGED <<panelVars, eTags, nodeInfo, reloadPending, localVars, applied,
                 runtime, failures>>

-----------------------------------------------------------------------------
(* The rest of nodeInfoMonitor. *)

\* The node's speed limit changed: recompute the limit of every user.
RefreshAllSpeedLimits ==
  /\ pc = "limits"
  /\ author' = IF nodeInfo.speed = prevNodeSpeedLimit THEN author
               ELSE [u \in UID |->
                       IF usersMap[u] = nil \/ author[u] = nil THEN author[u]
                       ELSE [author[u] EXCEPT !.rate =
                               determineRate(nodeInfo.speed, usersMap[u].speed)]]
  /\ pc' = "reload"
  /\ UNCHANGED <<panelVars, eTags, booting, nodeInfo, usersMap, pendingVars,
                 localVars, applied, runtime, failures>>

ReloadStep ==
  /\ pc' = "idle"
  /\ UNCHANGED <<panelVars, eTags, booting, nodeInfo, usersMap, userSyncPending,
                 lastUserList, localVars, runtime, author>>

\* A bug: only a changed node is handed to the inbound.
ReloadWithoutRetry ==
  /\ pc = "reload"
  /\ ReloadStep
  /\ IF nodeInfoChanged /\ Configurable
       THEN \/ /\ applied' = SettingsOf(nodeInfo)
               /\ reloadPending' = FALSE
               /\ UNCHANGED failures
            \/ /\ Error("ConfigureFromPanelNode")
               /\ UNCHANGED <<applied, reloadPending>>
       ELSE UNCHANGED <<applied, reloadPending, failures>>

\* Hand a changed node, or one that failed before, to the inbound.
Reload ==
  /\ pc = "reload"
  /\ ReloadStep
  /\ IF (nodeInfoChanged \/ reloadPending) /\ Configurable
       THEN \/ /\ applied' = SettingsOf(nodeInfo)
               /\ reloadPending' = FALSE
               /\ UNCHANGED failures
            \/ /\ Error("ConfigureFromPanelNode")
               /\ reloadPending' = TRUE
               /\ UNCHANGED applied
       ELSE UNCHANGED <<applied, reloadPending, failures>>

-----------------------------------------------------------------------------
Monitor ==
  /\ UNCHANGED world
  /\ \/ GetNodeInfo \/ NodeNotModified \/ GetNodeInfoError \/ BootConfigure
     \/ GetUserList \/ UserNotModified \/ GetUserListError
     \/ NothingToApply \/ RemoveUsers \/ AddUsers \/ RefreshUsers \/ CommitUsers
     \/ RefreshAllSpeedLimits \/ Reload

Next == Monitor \/ EditNode \/ EditUsers

Spec == Init /\ [][Next]_vars

\* The task is run again and again (Periodic!KeepsTicking).
FairSpec == Spec /\ WF_vars(Monitor)

-----------------------------------------------------------------------------
TypeOK ==
  /\ world \in Worlds
  /\ panel \in [node : NodeInfo, users : UserList]
  /\ eTags \in [node : NodeInfo \cup {nil}, users : UserList \cup {nil}]
  /\ pc \in {"fetchNode", "bootConfigure", "fetchUsers", "apply", "add", "commit",
             "limits", "reload", "idle", "exit", "stopped"}
  /\ booting \in BOOLEAN
  /\ nodeInfo \in NodeInfo \cup {nil}
  /\ usersMap \in UserList
  /\ reloadPending \in BOOLEAN
  /\ userSyncPending \in BOOLEAN
  /\ lastUserList \in UserList \cup {nil}
  /\ nodeInfoChanged \in BOOLEAN
  /\ prevNodeSpeedLimit \in Speed
  /\ userInfo \in UserList
  /\ applied \in Settings \cup {nil}
  /\ runtime \in [UID -> Cred \cup {nil}]
  /\ author \in [UID -> AuthorEntry \cup {nil}]
  /\ edits \in 0 .. MaxEdits
  /\ failures \in 0 .. MaxFailures

\* Inbounds whose runtime applies a delta as a whole: a full refresh, or the
\* two calls of an incremental one when AddUsers cannot fail after RemoveUsers.
AtomicDelta == world.inbound = "refresh" \/ "AddUsers" \notin world.mayFail

\* No part of syncUserList fails.
SyncSucceeds ==
  world.mayFail \cap {"GetUserList", "RemoveUsers", "AddUsers", "RefreshUsers"} = {}

\* Between two ticks, settings that a configurable inbound has not committed to are
\* remembered by reloadPending, so that the retry survives 304s.
ReloadRemembered ==
  Configurable /\ pc = "idle" => applied = SettingsOf(nodeInfo) \/ reloadPending

\* The same, as long as syncUserList does not fail: a tick that ends there
\* forgets the reload.
ReloadRememberedIfSynced == SyncSucceeds => ReloadRemembered

\* Between two ticks, the runtime table authenticates exactly the users of
\* usersMap, with their current credentials, unless a retry is pending.
RuntimeFollowsMap ==
  AtomicDelta /\ pc = "idle" =>
    \/ userSyncPending
    \/ \A u \in UID : runtime[u] = Credential(usersMap[u])

\* The limit that control.go documents for determineRate: of the limits that
\* are set, the smaller one.
IsRate(rate, limits) ==
  IF limits = {0} THEN rate = 0
  ELSE rate \in limits \ {0} /\ \A l \in limits \ {0} : rate <= l

\* Between two ticks, exactly the users of usersMap have an entry in the
\* authenticator, limited by the node's current and their own limit, as long
\* as syncUserList does not fail (a tick that ends there skips the refresh).
LimitsFollowNode ==
  SyncSucceeds /\ pc = "idle" =>
    \A u \in UID :
      /\ author[u] = nil <=> usersMap[u] = nil
      /\ usersMap[u] # nil =>
           IsRate(author[u].rate, {nodeInfo.speed, usersMap[u].speed})

\* Between two ticks, a list kept for a retry is the one that the stored ETag
\* stands for: as long as the panel answers 304, the retry pushes the list
\* that the panel serves.
RetryIsCurrent ==
  Tagged /\ pc = "idle" /\ userSyncPending => lastUserList = eTags.users

\* Between two ticks, whatever failed before, the runtime accepts nobody whom
\* usersMap lacks, and of the others no credential that was rotated away.
NoStaleLogin ==
  pc = "idle" => \A u \in UID : runtime[u] \in {nil, Credential(usersMap[u])}

\* usersMap and the authenticator change together, and only once the runtime
\* has accepted every user of the list they change to.
CommitAfterRuntime ==
  [][AtomicDelta /\ usersMap' # usersMap =>
       \A u \in UID :
         /\ runtime[u] = Credential(usersMap'[u])
         /\ author'[u] = nil <=> usersMap'[u] = nil]_vars

Converged ==
  /\ Configurable => applied = SettingsOf(panel.node)
  /\ \A u \in UID : /\ runtime[u] = Credential(panel.users[u])
                    /\ author[u] = Entry(panel.users[u], panel.node.speed)

\* Once the panel is left alone and calls stop failing, the node ends up with
\* the panel's users, limits and settings, provided that it has a port.
Converges == <>[](Converged \/ pc = "exit" \/ panel.node.port = 0)

\* The same, as long as syncUserList does not fail (a reload is forgotten) and
\* the monitor was not stopped by a port of 0 on the way.
ConvergesIfSynced == [](SyncSucceeds /\ pc # "stopped") => Converges

UsersConverged ==
  \A u \in UID : /\ runtime[u] = Credential(panel.users[u])
                 /\ usersMap[u] = panel.users[u]

\* The users alone end up as the panel's even when fetching the list or
\* applying it to the runtime failed on the way.
UsersConverge ==
  [](AtomicDelta /\ pc # "stopped") => <>[](UsersConverged \/ pc = "exit")

=============================================================================
