-------------------------- MODULE ControllerProofs --------------------------
(***************************************************************************)
(* What the controller guarantees for any number of users and nodes, any   *)
(* length of the panel's history and any sequence of failures; among it    *)
(* what "not modified" and a quiet tick stand for, beneath the convergence *)
(* that is left to TLC.                                                    *)
(***************************************************************************)
EXTENDS Controller, TLAPS

\* TypeOK, with the Boolean variables apart.
FlagsOK ==
  /\ booting \in BOOLEAN /\ reloadPending \in BOOLEAN
  /\ userSyncPending \in BOOLEAN /\ nodeInfoChanged \in BOOLEAN

DataOK ==
  /\ world \in Worlds
  /\ panel \in [node : NodeInfo, users : UserList]
  /\ eTags \in [node : NodeInfo \cup {nil}, users : UserList \cup {nil}]
  /\ pc \in {"fetchNode", "bootConfigure", "fetchUsers", "apply", "add", "commit",
             "limits", "reload", "idle", "exit", "stopped"}
  /\ nodeInfo \in NodeInfo \cup {nil}
  /\ usersMap \in UserList
  /\ lastUserList \in UserList \cup {nil}
  /\ prevNodeSpeedLimit \in Speed
  /\ userInfo \in UserList
  /\ applied \in Settings \cup {nil}
  /\ runtime \in [UID -> Cred \cup {nil}]
  /\ author \in [UID -> AuthorEntry \cup {nil}]
  /\ edits \in 0 .. MaxEdits
  /\ failures \in 0 .. MaxFailures

Syncing == pc \in {"apply", "add", "commit"}

\* The list being applied, and outside syncUserList the list kept for a
\* retry, is the one that the stored ETag stands for.  A panel that sends none
\* leaves nothing stored.
ListIsCurrent ==
  /\ userSyncPending => lastUserList # nil
  /\ Tagged /\ Syncing => userInfo = eTags.users
  /\ Tagged /\ userSyncPending /\ ~Syncing => lastUserList = eTags.users
  /\ ~Tagged => eTags.node = nil /\ eTags.users = nil

\* A credential in the runtime table is the user's in the map that is being
\* replaced, or, once the table is up to date, in the one replacing it.
NoStale ==
  /\ pc # "commit" =>
       \A u \in UID : runtime[u] \in {nil, Credential(usersMap[u])}
  /\ pc = "add" => \A u \in UID : userInfo[u] = nil => runtime[u] = nil
  /\ pc = "commit" =>
       \A u \in UID : runtime[u] \in {nil, Credential(userInfo[u])}

IInv ==
  /\ FlagsOK /\ DataOK
  /\ nodeInfo = nil => pc \in {"fetchNode", "exit"}
  /\ pc \in {"fetchNode", "bootConfigure"} => booting
  /\ ListIsCurrent
  /\ NoStale

-----------------------------------------------------------------------------
\* determineRate returns one of its arguments, so no limit is invented.
LEMMA RateType ==
  \A m, n \in Speed : determineRate(m, n) \in Speed
  BY ControllerAssumption DEF determineRate

\* What the authenticator and the runtime table keep of a user.
LEMMA EntryType ==
  \A m \in Material \cup {nil}, s \in Speed :
    /\ Credential(m) \in Cred \cup {nil}
    /\ Entry(m, s) \in AuthorEntry \cup {nil}
    /\ Entry(m, s) = nil <=> m = nil
  BY ControllerAssumption, RateType
  DEF Credential, Entry, AuthorEntry

\* What the inbound is configured with.
LEMMA SettingsType ==
  DataOK => \A n \in NodeInfo : SettingsOf(n) \in Settings /\ n.speed \in Speed
  BY ControllerAssumption DEF DataOK, SettingsOf, Settings

\* A user whom the diff leaves out has the same material in both lists.
LEMMA DiffComplete ==
  \A u \in UID : /\ u \in Gone <=> usersMap[u] # nil /\ userInfo[u] = nil
                 /\ u \in Fresh <=> userInfo[u] # nil /\ userInfo[u] # usersMap[u]
  BY DEF Gone, Fresh, Deleted, Added, Changed

\* The initial state satisfies the invariant.
LEMMA InitIInv == Init => IInv
<1> SUFFICES ASSUME Init PROVE IInv
  OBVIOUS
<1> USE ControllerAssumption DEF Init
<1>1. /\ NoUsers \in UserList
      /\ NoUsers \in [UID -> Cred \cup {nil}]
      /\ NoUsers \in [UID -> AuthorEntry \cup {nil}]
  BY DEF NoUsers, UserList
<1>2. FlagsOK
  BY Zenon DEF FlagsOK
<1>3. DataOK
  BY <1>1 DEF DataOK
<1>4. ListIsCurrent /\ NoStale
  BY DEF ListIsCurrent, Tagged, Syncing, NoStale, NoUsers
<1> QED
  BY <1>2, <1>3, <1>4 DEF IInv

\* The kind of inbound and what may fail are fixed.
LEMMA WorldIsFixed == [Next]_vars => world' = world
  BY DEF Next, Monitor, EditNode, EditUsers, vars

\* Every step of the panel and of the monitor preserves the invariant.
LEMMA NextIInv == IInv /\ [Next]_vars => IInv'
<1> SUFFICES ASSUME IInv, [Next]_vars PROVE IInv'
  OBVIOUS
<1> USE ControllerAssumption, WorldIsFixed
    DEF IInv, panelVars, pendingVars, localVars
<1>1. CASE EditNode
  <2> USE <1>1 DEF EditNode
  <2>1. FlagsOK'
    BY Zenon DEF FlagsOK
  <2>2. DataOK'
    BY EntryType, SettingsType DEF DataOK, UserList
  <2>3. /\ (nodeInfo = nil => pc \in {"fetchNode", "exit"})'
        /\ (pc \in {"fetchNode", "bootConfigure"} => booting)'
    BY DEF DataOK
  <2>4. ListIsCurrent'
    BY DEF ListIsCurrent, Tagged, Syncing, DataOK
  <2>5. NoStale'
    BY DEF NoStale
  <2> QED
    BY <2>1, <2>2, <2>3, <2>4, <2>5
<1>2. CASE EditUsers
  <2> USE <1>2 DEF EditUsers
  <2>1. FlagsOK'
    BY Zenon DEF FlagsOK
  <2>2. DataOK'
    BY EntryType, SettingsType DEF DataOK, UserList
  <2>3. /\ (nodeInfo = nil => pc \in {"fetchNode", "exit"})'
        /\ (pc \in {"fetchNode", "bootConfigure"} => booting)'
    BY DEF DataOK
  <2>4. ListIsCurrent'
    BY DEF ListIsCurrent, Tagged, Syncing, DataOK
  <2>5. NoStale'
    BY DEF NoStale
  <2> QED
    BY <2>1, <2>2, <2>3, <2>4, <2>5
<1>3. CASE GetNodeInfo
  <2> USE <1>3 DEF GetNodeInfo
  <2>1. FlagsOK'
    BY Zenon DEF FlagsOK
  <2>2. DataOK'
    BY EntryType, SettingsType DEF DataOK, UserList
  <2>3. /\ (nodeInfo = nil => pc \in {"fetchNode", "exit"})'
        /\ (pc \in {"fetchNode", "bootConfigure"} => booting)'
    BY DEF DataOK
  <2>4. ListIsCurrent'
    BY DEF ListIsCurrent, Tagged, Syncing, DataOK
  <2>5. NoStale'
    BY DEF NoStale
  <2> QED
    BY <2>1, <2>2, <2>3, <2>4, <2>5
<1>4. CASE NodeNotModified
  <2> USE <1>4 DEF NodeNotModified
  <2>1. FlagsOK'
    BY Zenon DEF FlagsOK
  <2>2. DataOK'
    BY EntryType, SettingsType DEF DataOK, UserList
  <2>3. /\ (nodeInfo = nil => pc \in {"fetchNode", "exit"})'
        /\ (pc \in {"fetchNode", "bootConfigure"} => booting)'
    BY DEF DataOK
  <2>4. ListIsCurrent'
    BY DEF ListIsCurrent, Tagged, Syncing, DataOK
  <2>5. NoStale'
    BY DEF NoStale
  <2> QED
    BY <2>1, <2>2, <2>3, <2>4, <2>5
<1>5. CASE GetNodeInfoError
  <2> USE <1>5 DEF GetNodeInfoError, Error
  <2>1. FlagsOK'
    BY Zenon DEF FlagsOK
  <2>2. DataOK'
    BY EntryType, SettingsType DEF DataOK, UserList
  <2>3. /\ (nodeInfo = nil => pc \in {"fetchNode", "exit"})'
        /\ (pc \in {"fetchNode", "bootConfigure"} => booting)'
    BY DEF DataOK
  <2>4. ListIsCurrent'
    BY DEF ListIsCurrent, Tagged, Syncing, DataOK
  <2>5. NoStale'
    BY DEF NoStale
  <2> QED
    BY <2>1, <2>2, <2>3, <2>4, <2>5
<1>6. CASE BootConfigure
  <2> USE <1>6 DEF BootConfigure, Error
  <2>1. FlagsOK'
    BY Zenon DEF FlagsOK
  <2>2. DataOK'
    BY EntryType, SettingsType DEF DataOK, UserList
  <2>3. /\ (nodeInfo = nil => pc \in {"fetchNode", "exit"})'
        /\ (pc \in {"fetchNode", "bootConfigure"} => booting)'
    BY DEF DataOK
  <2>4. ListIsCurrent'
    BY DEF ListIsCurrent, Tagged, Syncing, DataOK
  <2>5. NoStale'
    BY DEF NoStale
  <2> QED
    BY <2>1, <2>2, <2>3, <2>4, <2>5
<1>7. CASE GetUserList
  <2> USE <1>7 DEF GetUserList
  <2>1. FlagsOK'
    BY Zenon DEF FlagsOK
  <2>2. DataOK'
    BY EntryType, SettingsType DEF DataOK, UserList
  <2>3. /\ (nodeInfo = nil => pc \in {"fetchNode", "exit"})'
        /\ (pc \in {"fetchNode", "bootConfigure"} => booting)'
    BY DEF DataOK
  <2>4. ListIsCurrent'
    BY DEF ListIsCurrent, Tagged, Syncing, DataOK
  <2>5. NoStale'
    BY DEF NoStale
  <2> QED
    BY <2>1, <2>2, <2>3, <2>4, <2>5
<1>8. CASE UserNotModified
  <2> USE <1>8 DEF UserNotModified, Synced
  <2>1. FlagsOK'
    BY Zenon DEF FlagsOK
  <2>2. DataOK'
    BY DEF DataOK, ListIsCurrent
  <2>3. /\ (nodeInfo = nil => pc \in {"fetchNode", "exit"})'
        /\ (pc \in {"fetchNode", "bootConfigure"} => booting)'
    BY DEF DataOK
  <2>4. ListIsCurrent'
    BY DEF ListIsCurrent, Tagged, Syncing, DataOK
  <2>5. NoStale'
    BY DEF NoStale
  <2> QED
    BY <2>1, <2>2, <2>3, <2>4, <2>5
<1>9. CASE GetUserListError
  <2> USE <1>9 DEF GetUserListError, Error, SyncFailed
  <2>1. FlagsOK'
    BY Zenon DEF FlagsOK
  <2>2. DataOK'
    BY EntryType, SettingsType DEF DataOK, UserList
  <2>3. /\ (nodeInfo = nil => pc \in {"fetchNode", "exit"})'
        /\ (pc \in {"fetchNode", "bootConfigure"} => booting)'
    BY DEF DataOK
  <2>4. ListIsCurrent'
    BY DEF ListIsCurrent, Tagged, Syncing, DataOK
  <2>5. NoStale'
    BY DEF NoStale
  <2> QED
    BY <2>1, <2>2, <2>3, <2>4, <2>5
<1>10. CASE NothingToApply
  <2> USE <1>10 DEF NothingToApply, RuntimeStep
  <2>1. FlagsOK'
    BY Zenon DEF FlagsOK
  <2>2. DataOK'
    BY EntryType, SettingsType DEF DataOK, UserList
  <2>3. /\ (nodeInfo = nil => pc \in {"fetchNode", "exit"})'
        /\ (pc \in {"fetchNode", "bootConfigure"} => booting)'
    BY DEF DataOK
  <2>4. ListIsCurrent'
    BY DEF ListIsCurrent, Tagged, Syncing, DataOK
  <2>5. NoStale'
    BY DiffComplete DEF NoStale
  <2> QED
    BY <2>1, <2>2, <2>3, <2>4, <2>5
<1>11. CASE RemoveUsers
  <2> USE <1>11 DEF RemoveUsers, RuntimeStep, RuntimeError, Error, SyncFailed
  <2>1. FlagsOK'
    BY Zenon DEF FlagsOK
  <2>2. DataOK'
    BY EntryType, SettingsType DEF DataOK, UserList
  <2>3. /\ (nodeInfo = nil => pc \in {"fetchNode", "exit"})'
        /\ (pc \in {"fetchNode", "bootConfigure"} => booting)'
    BY DEF DataOK
  <2>4. ListIsCurrent'
    BY DEF ListIsCurrent, Tagged, Syncing, DataOK
  <2>5. NoStale'
    BY DiffComplete DEF NoStale, DataOK, Credential
  <2> QED
    BY <2>1, <2>2, <2>3, <2>4, <2>5
<1>12. CASE AddUsers
  <2> USE <1>12 DEF AddUsers, RuntimeStep, RuntimeError, Error, SyncFailed
  <2>1. FlagsOK'
    BY Zenon DEF FlagsOK
  <2>2. DataOK'
    BY EntryType, SettingsType DEF DataOK, UserList
  <2>3. /\ (nodeInfo = nil => pc \in {"fetchNode", "exit"})'
        /\ (pc \in {"fetchNode", "bootConfigure"} => booting)'
    BY DEF DataOK
  <2>4. ListIsCurrent'
    BY DEF ListIsCurrent, Tagged, Syncing, DataOK
  <2>5. NoStale'
    <3> SUFFICES ASSUME pc' = "commit", NEW u \in UID
                 PROVE  runtime'[u] \in {nil, Credential(userInfo[u])}
      BY DEF NoStale, DataOK
    <3> QED
      BY DiffComplete DEF NoStale, DataOK
  <2> QED
    BY <2>1, <2>2, <2>3, <2>4, <2>5
<1>13. CASE RefreshUsers
  <2> USE <1>13 DEF RefreshUsers, RuntimeStep, RuntimeError, Error, SyncFailed
  <2>1. FlagsOK'
    BY Zenon DEF FlagsOK
  <2>2. DataOK'
    BY EntryType, SettingsType DEF DataOK, UserList
  <2>3. /\ (nodeInfo = nil => pc \in {"fetchNode", "exit"})'
        /\ (pc \in {"fetchNode", "bootConfigure"} => booting)'
    BY DEF DataOK
  <2>4. ListIsCurrent'
    BY DEF ListIsCurrent, Tagged, Syncing, DataOK
  <2>5. NoStale'
    BY DEF NoStale
  <2> QED
    BY <2>1, <2>2, <2>3, <2>4, <2>5
<1>14. CASE CommitUsers
  <2> USE <1>14 DEF CommitUsers, Synced
  <2>1. FlagsOK'
    BY Zenon DEF FlagsOK
  <2>2. DataOK'
    BY EntryType, SettingsType DEF DataOK, UserList
  <2>3. /\ (nodeInfo = nil => pc \in {"fetchNode", "exit"})'
        /\ (pc \in {"fetchNode", "bootConfigure"} => booting)'
    BY DEF DataOK
  <2>4. ListIsCurrent'
    BY DEF ListIsCurrent, Tagged, Syncing, DataOK
  <2>5. NoStale'
    BY DEF NoStale
  <2> QED
    BY <2>1, <2>2, <2>3, <2>4, <2>5
<1>15. CASE RefreshAllSpeedLimits
  <2> USE <1>15 DEF RefreshAllSpeedLimits
  <2>1. FlagsOK'
    BY Zenon DEF FlagsOK
  <2>2. DataOK'
    <3>1. author' \in [UID -> AuthorEntry \cup {nil}]
      BY RateType, SettingsType DEF DataOK, UserList, AuthorEntry
    <3> QED
      BY <3>1 DEF DataOK
  <2>3. /\ (nodeInfo = nil => pc \in {"fetchNode", "exit"})'
        /\ (pc \in {"fetchNode", "bootConfigure"} => booting)'
    BY DEF DataOK
  <2>4. ListIsCurrent'
    BY DEF ListIsCurrent, Tagged, Syncing, DataOK
  <2>5. NoStale'
    BY DEF NoStale
  <2> QED
    BY <2>1, <2>2, <2>3, <2>4, <2>5
<1>16. CASE Reload
  <2> USE <1>16 DEF Reload, ReloadStep, Error
  <2>1. FlagsOK'
    BY Zenon DEF FlagsOK
  <2>2. DataOK'
    BY EntryType, SettingsType DEF DataOK, UserList
  <2>3. /\ (nodeInfo = nil => pc \in {"fetchNode", "exit"})'
        /\ (pc \in {"fetchNode", "bootConfigure"} => booting)'
    BY DEF DataOK
  <2>4. ListIsCurrent'
    BY DEF ListIsCurrent, Tagged, Syncing, DataOK
  <2>5. NoStale'
    BY DEF NoStale
  <2> QED
    BY <2>1, <2>2, <2>3, <2>4, <2>5
<1>17. CASE UNCHANGED vars
  BY <1>17 DEF vars, FlagsOK, DataOK, ListIsCurrent, Tagged, Syncing, NoStale
<1> QED
  BY <1>1, <1>2, <1>3, <1>4, <1>5, <1>6, <1>7, <1>8, <1>9, <1>10, <1>11, <1>12, <1>13, <1>14,
     <1>15, <1>16, <1>17 DEF Next, Monitor

\* The initial state and every step satisfy the types.
THEOREM TypeCorrect == Spec => []TypeOK
<1>1. IInv => TypeOK
  BY Zenon DEF IInv, FlagsOK, DataOK, TypeOK
<1> QED
  BY InitIInv, NextIInv, <1>1, PTL DEF Spec

\* syncUserList: the list that a retry under 304 replays is the list that
\* the panel serves, whichever calls failed and however often.
THEOREM KeptListIsCurrent == Spec => []RetryIsCurrent
<1>1. IInv => RetryIsCurrent
  BY DEF IInv, ListIsCurrent, Tagged, Syncing, RetryIsCurrent
<1> QED
  BY InitIInv, NextIInv, <1>1, PTL DEF Spec

\* applyRuntimeUserDelta: whichever calls failed, the inbound authenticates
\* no deleted user and no credential that was replaced.
THEOREM NoStaleCredential == Spec => []NoStaleLogin
<1>1. IInv => NoStaleLogin
  BY DEF IInv, NoStale, NoStaleLogin
<1> QED
  BY InitIInv, NextIInv, <1>1, PTL DEF Spec

-----------------------------------------------------------------------------
(* The runtime table never lags behind usersMap, for inbounds whose AddUsers *)
(* does not fail half-way through a delta.                                   *)

\* Between the steps of a delta, the runtime table is known exactly.
RuntimeInv ==
  /\ pc = "add" => world.inbound = "incremental"
  /\ pc \notin {"add", "commit"} =>
       \A u \in UID : runtime[u] = Credential(usersMap[u])
  /\ pc = "add" =>
       \A u \in UID : runtime[u] = IF userInfo[u] = nil THEN nil
                                   ELSE Credential(usersMap[u])
  /\ pc = "commit" => \A u \in UID : runtime[u] = Credential(userInfo[u])

\* The authenticator has an entry for exactly the users of usersMap.
AuthorInv == \A u \in UID : author[u] = nil <=> usersMap[u] = nil

\* Neither the panel nor the monitor breaks what is known of the table.
LEMMA NextRuntimeInv ==
  ASSUME AtomicDelta, IInv, RuntimeInv, [Next]_vars
  PROVE  RuntimeInv'
<1> USE ControllerAssumption, WorldIsFixed
    DEF AtomicDelta, IInv, DataOK, RuntimeInv, panelVars, pendingVars, localVars
<1>1. CASE EditNode
  BY <1>1 DEF EditNode
<1>2. CASE EditUsers
  BY <1>2 DEF EditUsers
<1>3. CASE GetNodeInfo
  BY <1>3 DEF GetNodeInfo
<1>4. CASE NodeNotModified
  BY <1>4 DEF NodeNotModified
<1>5. CASE GetNodeInfoError
  BY <1>5 DEF GetNodeInfoError, Error
<1>6. CASE BootConfigure
  BY <1>6 DEF BootConfigure, Error
<1>7. CASE GetUserList
  BY <1>7 DEF GetUserList
<1>8. CASE UserNotModified
  BY <1>8 DEF UserNotModified, Synced
<1>9. CASE GetUserListError
  BY <1>9 DEF GetUserListError, Error, SyncFailed
<1>10. CASE NothingToApply
  BY <1>10, DiffComplete DEF NothingToApply, RuntimeStep, Credential
<1>11. CASE RemoveUsers
  BY <1>11, DiffComplete DEF RemoveUsers, RuntimeStep, RuntimeError, Error, SyncFailed,
     Credential
<1>12. CASE AddUsers
  BY <1>12, DiffComplete DEF AddUsers, RuntimeStep, RuntimeError, Error, SyncFailed,
     Credential
<1>13. CASE RefreshUsers
  BY <1>13 DEF RefreshUsers, RuntimeStep, RuntimeError, Error, SyncFailed
<1>14. CASE CommitUsers
  BY <1>14 DEF CommitUsers, Synced
<1>15. CASE RefreshAllSpeedLimits
  BY <1>15 DEF RefreshAllSpeedLimits
<1>16. CASE Reload
  BY <1>16 DEF Reload, ReloadStep, Error
<1>17. CASE UNCHANGED vars
  BY <1>17 DEF vars
<1> QED
  BY <1>1, <1>2, <1>3, <1>4, <1>5, <1>6, <1>7, <1>8, <1>9, <1>10, <1>11, <1>12, <1>13, <1>14,
     <1>15, <1>16, <1>17 DEF Next, Monitor

\* Entries are made and dropped only when usersMap changes.
LEMMA NextAuthorInv ==
  ASSUME IInv, AuthorInv, [Next]_vars
  PROVE  AuthorInv'
<1> USE ControllerAssumption
    DEF IInv, DataOK, AuthorInv, panelVars, pendingVars, localVars
<1>1. CASE EditNode
  BY <1>1 DEF EditNode
<1>2. CASE EditUsers
  BY <1>2 DEF EditUsers
<1>3. CASE GetNodeInfo
  BY <1>3 DEF GetNodeInfo
<1>4. CASE NodeNotModified
  BY <1>4 DEF NodeNotModified
<1>5. CASE GetNodeInfoError
  BY <1>5 DEF GetNodeInfoError, Error
<1>6. CASE BootConfigure
  BY <1>6 DEF BootConfigure, Error
<1>7. CASE GetUserList
  BY <1>7 DEF GetUserList
<1>8. CASE UserNotModified
  BY <1>8 DEF UserNotModified, Synced
<1>9. CASE GetUserListError
  BY <1>9 DEF GetUserListError, Error, SyncFailed
<1>10. CASE NothingToApply
  BY <1>10 DEF NothingToApply, RuntimeStep
<1>11. CASE RemoveUsers
  BY <1>11 DEF RemoveUsers, RuntimeStep, RuntimeError, Error, SyncFailed
<1>12. CASE AddUsers
  BY <1>12 DEF AddUsers, RuntimeStep, RuntimeError, Error, SyncFailed
<1>13. CASE RefreshUsers
  BY <1>13 DEF RefreshUsers, RuntimeStep, RuntimeError, Error, SyncFailed
<1>14. CASE CommitUsers
  BY <1>14, DiffComplete, EntryType, SettingsType DEF CommitUsers, Synced, UserList
<1>15. CASE RefreshAllSpeedLimits
  BY <1>15, RateType, SettingsType DEF RefreshAllSpeedLimits, UserList, AuthorEntry
<1>16. CASE Reload
  BY <1>16 DEF Reload, ReloadStep, Error
<1>17. CASE UNCHANGED vars
  BY <1>17 DEF vars
<1> QED
  BY <1>1, <1>2, <1>3, <1>4, <1>5, <1>6, <1>7, <1>8, <1>9, <1>10, <1>11, <1>12, <1>13, <1>14,
     <1>15, <1>16, <1>17 DEF Next, Monitor

\* syncUserList: between two ticks the inbound authenticates exactly the
\* users of usersMap, if its AddUsers cannot fail (or it is not incremental).
THEOREM RuntimeIsMap == Spec => []RuntimeFollowsMap
<1> DEFINE Inv == AtomicDelta => RuntimeInv
<1>1. Init => Inv
  BY DEF Init, RuntimeInv, NoUsers, Credential
<1>2. IInv /\ Inv /\ [Next]_vars => Inv'
  BY NextRuntimeInv, WorldIsFixed DEF AtomicDelta
<1>3. Inv => RuntimeFollowsMap
  BY DEF RuntimeInv, RuntimeFollowsMap
<1> QED
  BY InitIInv, NextIInv, <1>1, <1>2, <1>3, PTL DEF Spec

\* syncUserList: usersMap and the authenticator move together, and only to a
\* list that the inbound authenticates in full.
THEOREM CommitIsLast == Spec => CommitAfterRuntime
<1> DEFINE Inv == AtomicDelta => RuntimeInv
           Step == AtomicDelta /\ usersMap' # usersMap =>
                     \A u \in UID :
                       /\ runtime[u] = Credential(usersMap'[u])
                       /\ author'[u] = nil <=> usersMap'[u] = nil
<1>1. Init => Inv /\ AuthorInv
  BY DEF Init, RuntimeInv, AuthorInv, NoUsers, Credential
<1>2. IInv /\ Inv /\ AuthorInv /\ [Next]_vars => Inv' /\ AuthorInv'
  BY NextRuntimeInv, NextAuthorInv, WorldIsFixed DEF AtomicDelta
<1>3. IInv /\ Inv /\ AuthorInv /\ [Next]_vars => [Step]_vars
  <2> SUFFICES ASSUME IInv, AtomicDelta, RuntimeInv, AuthorInv, Next,
                      usersMap' # usersMap
               PROVE  Step
    BY Zenon
  <2>1. CommitUsers
    BY DEF Next, Monitor, EditNode, EditUsers, GetNodeInfo, NodeNotModified,
           GetNodeInfoError, BootConfigure, GetUserList, UserNotModified,
           GetUserListError, NothingToApply, RemoveUsers, AddUsers, RefreshUsers,
           RuntimeStep, RuntimeError, RefreshAllSpeedLimits, Reload, ReloadStep
  <2>2. AuthorInv'
    BY NextAuthorInv, Zenon
  <2> QED
    BY <2>1, <2>2 DEF RuntimeInv, AuthorInv, CommitUsers
<1> QED
  BY InitIInv, NextIInv, <1>1, <1>2, <1>3, PTL DEF Spec, CommitAfterRuntime

-----------------------------------------------------------------------------
(* Node settings, when syncUserList does not fail.                          *)

InSync == {"fetchUsers", "apply", "add", "commit"}

\* Settings that the inbound lacks are remembered, by nodeInfoChanged until
\* the tick has reached the reload, and by reloadPending after it.
ReloadInv ==
  /\ booting => pc \in {"fetchNode", "bootConfigure", "exit"} \cup InSync
  /\ booting /\ pc \in InSync /\ Configurable => applied = SettingsOf(nodeInfo)
  /\ ~booting /\ Configurable =>
       \/ applied = SettingsOf(nodeInfo)
       \/ reloadPending
       \/ nodeInfoChanged /\ pc \in {"limits", "reload"} \cup InSync

\* Handing the node to the inbound once more would change nothing.
LEMMA SettingsTaken ==
  ASSUME IInv, nodeInfo # nil, nodeInfo' = nodeInfo, applied' = SettingsOf(nodeInfo)
  PROVE  applied' = SettingsOf(nodeInfo)'
<1>1. applied' \in Settings
  BY SettingsType DEF IInv, DataOK
<1>2. applied' # nil
  BY <1>1, ControllerAssumption
<1> QED
  BY <1>2 DEF SettingsOf

\* No step forgets settings that the inbound lacks.
LEMMA NextReloadInv ==
  ASSUME SyncSucceeds, IInv, ReloadInv, [Next]_vars
  PROVE  ReloadInv'
<1> USE ControllerAssumption, WorldIsFixed
    DEF SyncSucceeds, IInv, FlagsOK, ReloadInv, InSync, SettingsOf, Configurable, panelVars,
        pendingVars, localVars
<1>1. CASE EditNode
  BY <1>1 DEF EditNode
<1>2. CASE EditUsers
  BY <1>2 DEF EditUsers
<1>3. CASE GetNodeInfo
  BY <1>3 DEF GetNodeInfo
<1>4. CASE NodeNotModified
  BY <1>4 DEF NodeNotModified
<1>5. CASE GetNodeInfoError
  BY <1>5 DEF GetNodeInfoError, Error
<1>6. CASE BootConfigure
  BY <1>6, SettingsTaken DEF BootConfigure, Error
<1>7. CASE GetUserList
  BY <1>7 DEF GetUserList
<1>8. CASE UserNotModified
  BY <1>8 DEF UserNotModified, Synced
<1>9. CASE GetUserListError
  BY <1>9 DEF GetUserListError, Error, SyncFailed
<1>10. CASE NothingToApply
  BY <1>10 DEF NothingToApply, RuntimeStep
<1>11. CASE RemoveUsers
  BY <1>11 DEF RemoveUsers, RuntimeStep, RuntimeError, Error, SyncFailed
<1>12. CASE AddUsers
  BY <1>12 DEF AddUsers, RuntimeStep, RuntimeError, Error, SyncFailed
<1>13. CASE RefreshUsers
  BY <1>13 DEF RefreshUsers, RuntimeStep, RuntimeError, Error, SyncFailed
<1>14. CASE CommitUsers
  BY <1>14 DEF CommitUsers, Synced
<1>15. CASE RefreshAllSpeedLimits
  BY <1>15 DEF RefreshAllSpeedLimits
<1>16. CASE Reload
  BY <1>16, SettingsTaken DEF Reload, ReloadStep, Error
<1>17. CASE UNCHANGED vars
  BY <1>17 DEF vars
<1> QED
  BY <1>1, <1>2, <1>3, <1>4, <1>5, <1>6, <1>7, <1>8, <1>9, <1>10, <1>11, <1>12, <1>13, <1>14,
     <1>15, <1>16, <1>17 DEF Next, Monitor

\* nodeInfoMonitor: between two ticks the inbound has the node's settings or
\* a retry is pending, if no step of syncUserList fails.
THEOREM ReloadIsRemembered == Spec => []ReloadRememberedIfSynced
<1> DEFINE Inv == SyncSucceeds => ReloadInv
<1>1. Init => Inv
  BY DEF Init, ReloadInv, InSync
<1>2. IInv /\ Inv /\ [Next]_vars => Inv'
  BY NextReloadInv, WorldIsFixed DEF SyncSucceeds
<1>3. Inv => ReloadRememberedIfSynced
  BY DEF ReloadInv, ReloadRememberedIfSynced, ReloadRemembered, InSync
<1> QED
  BY InitIInv, NextIInv, <1>1, <1>2, <1>3, PTL DEF Spec

-----------------------------------------------------------------------------
(* Speed limits, when syncUserList does not fail.                           *)

\* During a sync the limits are those of the node before this tick, and
\* after it, of some users already those of the new one.
LimitInv ==
  /\ booting => pc \in {"fetchNode", "bootConfigure", "exit"} \cup InSync
  /\ booting => \A u \in UID : usersMap[u] = nil /\ author[u] = nil
  /\ pc \in InSync =>
       \A u \in UID : author[u] = Entry(usersMap[u], prevNodeSpeedLimit)
  /\ pc = "limits" =>
       \A u \in UID : author[u] \in {Entry(usersMap[u], prevNodeSpeedLimit),
                                     Entry(usersMap[u], nodeInfo.speed)}
  /\ pc \in {"reload", "idle"} =>
       \A u \in UID : author[u] = Entry(usersMap[u], nodeInfo.speed)

\* determineRate computes the documented limit.
LEMMA RateIsLimit ==
  \A m, n \in Speed : IsRate(determineRate(m, n), {m, n})
  BY ControllerAssumption DEF determineRate, IsRate

\* Every step keeps the limits as described.
LEMMA NextLimitInv ==
  ASSUME SyncSucceeds, IInv, LimitInv, [Next]_vars
  PROVE  LimitInv'
<1> USE ControllerAssumption
    DEF SyncSucceeds, IInv, DataOK, LimitInv, InSync, panelVars, pendingVars,
        localVars
<1>1. CASE EditNode
  BY <1>1 DEF EditNode
<1>2. CASE EditUsers
  BY <1>2 DEF EditUsers
<1>3. CASE GetNodeInfo
  BY <1>3 DEF GetNodeInfo
<1>4. CASE NodeNotModified
  BY <1>4 DEF NodeNotModified
<1>5. CASE GetNodeInfoError
  BY <1>5 DEF GetNodeInfoError, Error
<1>6. CASE BootConfigure
  BY <1>6 DEF BootConfigure, Error, Entry
<1>7. CASE GetUserList
  BY <1>7 DEF GetUserList
<1>8. CASE UserNotModified
  BY <1>8 DEF UserNotModified, Synced, Entry
<1>9. CASE GetUserListError
  BY <1>9 DEF GetUserListError, Error, SyncFailed
<1>10. CASE NothingToApply
  BY <1>10 DEF NothingToApply, RuntimeStep
<1>11. CASE RemoveUsers
  BY <1>11 DEF RemoveUsers, RuntimeStep, RuntimeError, Error, SyncFailed
<1>12. CASE AddUsers
  BY <1>12 DEF AddUsers, RuntimeStep, RuntimeError, Error, SyncFailed
<1>13. CASE RefreshUsers
  BY <1>13 DEF RefreshUsers, RuntimeStep, RuntimeError, Error, SyncFailed
<1>14. CASE CommitUsers
  BY <1>14, DiffComplete, EntryType DEF CommitUsers, Synced, Entry
<1>15. CASE RefreshAllSpeedLimits
  BY <1>15, EntryType DEF RefreshAllSpeedLimits, Entry, UserList, AuthorEntry
<1>16. CASE Reload
  BY <1>16 DEF Reload, ReloadStep, Error
<1>17. CASE UNCHANGED vars
  BY <1>17 DEF vars
<1> QED
  BY <1>1, <1>2, <1>3, <1>4, <1>5, <1>6, <1>7, <1>8, <1>9, <1>10, <1>11, <1>12, <1>13, <1>14,
     <1>15, <1>16, <1>17, Zenon DEF Next, Monitor

\* nodeInfoMonitor: between two ticks every user is limited by the node's
\* current limit and by their own, if no step of syncUserList fails.
THEOREM LimitsAreCurrent == Spec => []LimitsFollowNode
<1> DEFINE Inv == SyncSucceeds => LimitInv
<1>1. Init => Inv
  BY DEF Init, LimitInv, InSync, NoUsers
<1>2. IInv /\ Inv /\ [Next]_vars => Inv'
  BY NextLimitInv, WorldIsFixed DEF SyncSucceeds
<1>3. IInv /\ Inv => LimitsFollowNode
  <2> SUFFICES ASSUME IInv, LimitInv, pc = "idle", NEW u \in UID
               PROVE  /\ author[u] = nil <=> usersMap[u] = nil
                      /\ usersMap[u] # nil =>
                           IsRate(author[u].rate,
                                  {nodeInfo.speed, usersMap[u].speed})
    BY DEF LimitsFollowNode
  <2>1. nodeInfo \in NodeInfo /\ usersMap[u] \in Material \cup {nil}
    BY DEF IInv, DataOK, UserList
  <2>2. author[u] = Entry(usersMap[u], nodeInfo.speed)
    BY DEF LimitInv
  <2>3. author[u] = nil <=> usersMap[u] = nil
    BY <2>1, <2>2, EntryType, SettingsType DEF IInv
  <2>4. ASSUME usersMap[u] # nil
        PROVE  IsRate(author[u].rate, {nodeInfo.speed, usersMap[u].speed})
    <3>1. usersMap[u].speed \in Speed /\ nodeInfo.speed \in Speed
      BY <2>1, <2>4, SettingsType, ControllerAssumption DEF IInv
    <3>2. author[u].rate = determineRate(nodeInfo.speed, usersMap[u].speed)
      BY <2>2, <2>4 DEF Entry
    <3> QED
      BY <3>1, <3>2, RateIsLimit
  <2> QED
    BY <2>3, <2>4
<1> QED
  BY InitIInv, NextIInv, <1>1, <1>2, <1>3, PTL DEF Spec

-----------------------------------------------------------------------------
(* What the ETags hide.  An answer 304 brings no content, so whatever was    *)
(* fetched under a stored ETag must not be lost.                             *)

\* If the panel sends ETags, between two ticks the node in use is the one whose
\* ETag is stored, and so is the user list in use or the one kept for a retry:
\* a 304 hides nothing that was not applied.
ETagsAreTaken ==
  Tagged /\ pc = "idle" =>
    /\ nodeInfo = eTags.node
    /\ eTags.users = IF userSyncPending THEN lastUserList ELSE usersMap

\* When the panel would answer 304 and no retry is pending, the users are the
\* panel's: a sync can only be over when it is done.
UsersSettled ==
  AtomicDelta /\ pc = "idle" /\ eTags.users = panel.users /\ ~userSyncPending
    => UsersConverged

\* The same for all of the node, if syncUserList does not fail.
NodeSettled ==
  /\ SyncSucceeds /\ pc = "idle" /\ ~reloadPending
  /\ eTags.node = panel.node /\ eTags.users = panel.users
  => Converged

\* What makes it inductive: during a sync the list is userInfo, and a list that
\* was fetched leaves syncUserList committed or pending.
ETagInv ==
  /\ booting => pc \in {"fetchNode", "bootConfigure", "exit"} \cup InSync
  /\ Tagged /\ pc \notin {"exit", "stopped"} => nodeInfo = eTags.node
  /\ Tagged /\ ~booting => eTags.users # nil
  /\ ~Syncing /\ ~userSyncPending /\ eTags.users # nil => usersMap = eTags.users
  /\ SyncSucceeds => ~userSyncPending

\* Every step keeps what was fetched.
LEMMA NextETagInv ==
  ASSUME IInv, ETagInv, [Next]_vars
  PROVE  ETagInv'
<1> USE ControllerAssumption, WorldIsFixed
    DEF SyncSucceeds, IInv, FlagsOK, DataOK, ListIsCurrent, Tagged, ETagInv, InSync,
        Syncing, panelVars, pendingVars, localVars
<1>1. CASE EditNode
  BY <1>1 DEF EditNode
<1>2. CASE EditUsers
  BY <1>2 DEF EditUsers
<1>3. CASE GetNodeInfo
  BY <1>3 DEF GetNodeInfo
<1>4. CASE NodeNotModified
  BY <1>4 DEF NodeNotModified
<1>5. CASE GetNodeInfoError
  BY <1>5 DEF GetNodeInfoError, Error
<1>6. CASE BootConfigure
  BY <1>6 DEF BootConfigure, Error
<1>7. CASE GetUserList
  BY <1>7 DEF GetUserList
<1>8. CASE UserNotModified
  BY <1>8 DEF UserNotModified, Synced
<1>9. CASE GetUserListError
  BY <1>9 DEF GetUserListError, Error, SyncFailed
<1>10. CASE NothingToApply
  BY <1>10 DEF NothingToApply, RuntimeStep
<1>11. CASE RemoveUsers
  BY <1>11 DEF RemoveUsers, RuntimeStep, RuntimeError, Error, SyncFailed
<1>12. CASE AddUsers
  BY <1>12 DEF AddUsers, RuntimeStep, RuntimeError, Error, SyncFailed
<1>13. CASE RefreshUsers
  BY <1>13 DEF RefreshUsers, RuntimeStep, RuntimeError, Error, SyncFailed
<1>14. CASE CommitUsers
  BY <1>14 DEF CommitUsers, Synced
<1>15. CASE RefreshAllSpeedLimits
  BY <1>15 DEF RefreshAllSpeedLimits
<1>16. CASE Reload
  BY <1>16 DEF Reload, ReloadStep, Error
<1>17. CASE UNCHANGED vars
  BY <1>17 DEF vars
<1> QED
  BY <1>1, <1>2, <1>3, <1>4, <1>5, <1>6, <1>7, <1>8, <1>9, <1>10, <1>11, <1>12, <1>13, <1>14,
     <1>15, <1>16, <1>17, Zenon DEF Next, Monitor

\* Before the first fetch there is no ETag.
LEMMA InitETagInv == Init => ETagInv
BY DEF Init, ETagInv, InSync, Syncing

\* nodeInfoMonitor and syncUserList: the ETag is stored before the content is
\* applied, and still no failure in between loses what was fetched.
THEOREM NotModifiedHidesNothing == Spec => []ETagsAreTaken
<1>1. IInv /\ ETagInv => ETagsAreTaken
  BY DEF IInv, ListIsCurrent, Tagged, ETagInv, ETagsAreTaken, InSync, Syncing
<1>2. IInv /\ ETagInv /\ [Next]_vars => ETagInv'
  BY NextETagInv
<1> QED
  BY InitIInv, NextIInv, InitETagInv, <1>1, <1>2, PTL DEF Spec

\* syncUserList: when the panel has nothing new and no retry is pending, the
\* inbound authenticates exactly the panel's users.  This is what UsersConverge
\* needs besides ticks that go on.
THEOREM UsersAreSettled == Spec => []UsersSettled
<1> DEFINE Inv == AtomicDelta => RuntimeInv
<1>1. Init => Inv
  BY DEF Init, RuntimeInv, NoUsers, Credential
<1>2. IInv /\ Inv /\ ETagInv /\ [Next]_vars => Inv' /\ ETagInv'
  BY NextRuntimeInv, NextETagInv, WorldIsFixed DEF AtomicDelta
<1>3. IInv /\ Inv /\ ETagInv => UsersSettled
  BY ControllerAssumption
     DEF IInv, DataOK, RuntimeInv, ETagInv, UsersSettled, UsersConverged, InSync, Syncing
<1> QED
  BY InitIInv, NextIInv, InitETagInv, <1>1, <1>2, <1>3, PTL DEF Spec

\* nodeInfoMonitor: when the panel has nothing new and no reload is pending, the
\* inbound has the panel's node, users and speed limits.  This is what
\* ConvergesIfSynced needs besides ticks that go on.
THEOREM NodeIsSettled == Spec => []NodeSettled
<1> DEFINE Inv == /\ AtomicDelta => RuntimeInv
                  /\ SyncSucceeds => ReloadInv /\ LimitInv
<1>1. Init => Inv
  BY DEF Init, RuntimeInv, ReloadInv, LimitInv, InSync, NoUsers, Credential
<1>2. IInv /\ Inv /\ ETagInv /\ [Next]_vars => Inv' /\ ETagInv'
  BY NextRuntimeInv, NextReloadInv, NextLimitInv, NextETagInv, WorldIsFixed
     DEF AtomicDelta, SyncSucceeds
<1>3. IInv /\ Inv /\ ETagInv => NodeSettled
  <2> SUFFICES ASSUME IInv, Inv, ETagInv, SyncSucceeds, pc = "idle", ~reloadPending,
                      eTags.node = panel.node, eTags.users = panel.users
               PROVE  Converged
    BY DEF NodeSettled
  <2>1. AtomicDelta
    BY DEF AtomicDelta, SyncSucceeds
  <2>2. ~userSyncPending /\ ~booting
    BY DEF ETagInv, InSync
  <2>t. Tagged
    BY ControllerAssumption DEF IInv, DataOK, ListIsCurrent
  <2>3. nodeInfo = panel.node /\ usersMap = panel.users
    BY <2>2, <2>t, ControllerAssumption DEF IInv, DataOK, ETagInv, Syncing
  <2>4. Configurable => applied = SettingsOf(panel.node)
    BY <2>2, <2>3 DEF ReloadInv, InSync
  <2>5. \A u \in UID : runtime[u] = Credential(panel.users[u])
    BY <2>1, <2>3 DEF RuntimeInv
  <2>6. \A u \in UID : author[u] = Entry(panel.users[u], panel.node.speed)
    BY <2>3 DEF LimitInv
  <2> QED
    BY <2>4, <2>5, <2>6 DEF Converged
<1> QED
  BY InitIInv, NextIInv, InitETagInv, <1>1, <1>2, <1>3, PTL DEF Spec

=============================================================================
