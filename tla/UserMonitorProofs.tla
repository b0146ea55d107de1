-------------------------- MODULE UserMonitorProofs --------------------------
(***************************************************************************)
(* What the user monitor drains besides the traffic, for any users, User   *)
(* objects, connections, addresses and rules: the count that AddIP checks  *)
(* covers the table, which bounds by how much a limit is passed; no        *)
(* address leaves a table unlisted; a parsed list gives this node its      *)
(* share of a device limit; hits of one key are recorded apart, every hit  *)
(* goes into one report, and the panel is told of it as often as that is   *)
(* sent at most; the ETag of the rules stands for those in force.          *)
(***************************************************************************)
EXTENDS UserMonitor, FiniteSetTheorems, FunctionTheorems, TLAPS

\* The references to a meter are to a meter, and a user's meter is the user's.
Owned ==
  /\ \A u \in UID : users[u] # nil => uidOf[users[u]] = u
  /\ \A k \in Conn : conn[k].state # "idle" => conn[k].meter \in Meter /\ conn[k].ip \in IP
  /\ mon.state \in {"range", "minus"} => mon.meter \in Meter
  /\ \A u \in UID : list[u] \in Nat \cup {Dropped}

-----------------------------------------------------------------------------
(* Cardinalities. *)

\* A set of addresses or of connections is finite and has a size.
LEMMA SizeOf ==
  /\ \A S \in SUBSET IP : IsFiniteSet(S) /\ Cardinality(S) \in Nat
  /\ \A S \in SUBSET Conn : IsFiniteSet(S) /\ Cardinality(S) \in Nat
BY OnlineAssumption, FS_Subset, FS_CardinalityType

\* What an element more does to the size of a finite set.
LEMMA SizeWith ==
  ASSUME NEW S, NEW x, IsFiniteSet(S)
  PROVE  /\ Cardinality(S \cup {x}) \in Nat
         /\ Cardinality(S \cup {x}) <= Cardinality(S) + 1
         /\ x \notin S => Cardinality(S \cup {x}) = Cardinality(S) + 1
<1>1. Cardinality(S) \in Nat
  BY FS_CardinalityType
<1>2. Cardinality(S \cup {x}) = IF x \in S THEN Cardinality(S) ELSE Cardinality(S) + 1
  BY FS_AddElement
<1> QED
  BY <1>1, <1>2

\* The same for an element less.
LEMMA SizeWithout ==
  ASSUME NEW S, NEW x \in S, IsFiniteSet(S)
  PROVE  Cardinality(S \ {x}) = Cardinality(S) - 1
BY FS_RemoveElement

\* There is an injection from a finite set into one that is not smaller.
LEMMA InjectionExists ==
  ASSUME NEW S, NEW T, IsFiniteSet(S), IsFiniteSet(T), Cardinality(S) <= Cardinality(T)
  PROVE  \E f \in [S -> T] : \A x, y \in S : f[x] = f[y] => x = y
<1> DEFINE n == Cardinality(S)
           m == Cardinality(T)
<1>1. n \in Nat /\ m \in Nat /\ ExistsBijection(1 .. n, S) /\ ExistsBijection(1 .. m, T)
  BY FS_CardinalityType
<1>2. ExistsBijection(S, 1 .. n)
  BY <1>1, Fun_ExistsBijSymmetric
<1>3. /\ ExistsInjection(S, 1 .. n) /\ ExistsInjection(1 .. m, T)
      /\ ExistsInjection(1 .. n, 1 .. m)
  BY <1>1, <1>2, Fun_NatInjLeq, Fun_ExistsBijEquiv
<1>4. ExistsInjection(S, T)
  BY <1>3, Fun_ExistsInjTransitive
<1> QED
  BY <1>4 DEF ExistsInjection, Injection, IsInjective

-----------------------------------------------------------------------------
(* Types. *)

IInv == TypeOK /\ Owned

\* Nobody is online before the first user list, and no rule is in force.
LEMMA InitIInv == Init => IInv
BY OnlineAssumption, AuditAssumption DEF Init, OnlineInit, AuditInit, IInv, TypeOK, Owned,
   NoConn, Resting, None, Dropped

\* A share of the device limit is a number, or the user is dropped.
LEMMA LocalLimitType ==
  ASSUME NEW a \in Nat, NEW o \in Nat
  PROVE  LocalLimit(DeviceLimit, a, o) \in Nat \cup {Dropped}
BY OnlineAssumption DEF LocalLimit, Dropped

\* The audit side of a step keeps its types.
LEMMA AuditTypes ==
  ASSUME TypeOK,
         Audited \/ RefreshDetectRules \/ DrainDetectResults \/ RetryIllegal \/ ReportIllegal
  PROVE  /\ panelRules' \in Version /\ ruleTag' \in Version /\ detectRules' \in Version
         /\ clock' \in Nat /\ detectDedup' \in [Key -> Nat] /\ lastHit' \in [Key -> Nat]
         /\ detectResults' \in [Key -> Nat] /\ reporting' \in [Key -> Nat]
         /\ hits' \in [Key -> Nat] /\ sent' \in [Key -> Nat] /\ told' \in [Key -> Nat]
         /\ tries' \in 0 .. RetryCount
<1> USE AuditAssumption DEF TypeOK, ruleVars, reportVars, hitVars, None
<1>1. CASE (\E v \in Version : PanelChanges(v)) \/ RefreshDetectRules
  BY <1>1 DEF PanelChanges, RefreshDetectRules, GetNodeRule
<1>2. CASE Tick
  BY <1>2 DEF Tick
<1>3. ASSUME NEW k \in Key, MatchAudit(k)
      PROVE  /\ detectDedup' \in [Key -> Nat] /\ lastHit' \in [Key -> Nat]
             /\ detectResults' \in [Key -> Nat] /\ hits' \in [Key -> Nat]
             /\ UNCHANGED <<ruleVars, clock, reportVars>>
  <2>1. [detectDedup EXCEPT ![k] = clock + TTL] \in [Key -> Nat]
    BY AuditAssumption
  <2> QED
    BY <1>3, <2>1 DEF MatchAudit, Prune
<1>4. CASE DrainDetectResults
  BY <1>4 DEF DrainDetectResults
<1>5. CASE RetryIllegal \/ ReportIllegal
  <2>1. told' \in [Key -> Nat] /\ sent' \in [Key -> Nat]
    BY <1>5 DEF RetryIllegal, ReportIllegal, PostHits
  <2>2. tries' \in 0 .. RetryCount
    BY <1>5 DEF RetryIllegal, ReportIllegal
  <2> QED
    BY <1>5, <2>1, <2>2 DEF RetryIllegal, ReportIllegal
<1> QED
  BY <1>1, <1>2, <1>3, <1>4, <1>5 DEF Audited

\* Resetting the traffic of deleted users.
LEMMA ResetType ==
  ASSUME TypeOK, ResetDeleted
  PROVE  active' \in [Meter -> BOOLEAN]
BY Zenon DEF ResetDeleted, TypeOK

\* A user list is applied with a meter of their own for every new user.
LEMMA ApplyTypes ==
  ASSUME IInv, ApplyUserList
  PROVE  /\ users' \in [UID -> Meter \cup {nil}] /\ uidOf' \in [Meter -> UID \cup {nil}]
         /\ maxIPNum' \in [Meter -> Nat] /\ active' \in [Meter -> BOOLEAN]
         /\ sync' = "rules" /\ list' = [u \in UID |-> Dropped]
         /\ UNCHANGED <<aliveIP, syncs, ipTable, ipNum, conn, monVars, others>>
         /\ \A u \in UID : users'[u] # nil => uidOf'[users'[u]] = u
<1> DEFINE kept  == {u \in UID : list[u] # Dropped}
           fresh == {u \in kept : users[u] = nil}
           new   == CHOOSE f \in [fresh -> Unused] : \A u, v \in fresh : f[u] = f[v] => u = v
<1> USE DEF IInv
<1>1. new \in [fresh -> Unused] /\ \A u, v \in fresh : new[u] = new[v] => u = v
  <2>1. IsFiniteSet(fresh) /\ IsFiniteSet(Unused)
    <3>1. fresh \in SUBSET UID /\ Unused \in SUBSET Meter
      BY DEF Unused
    <3> QED
      BY <3>1, OnlineAssumption, FS_Subset
  <2>2. Cardinality(fresh) <= Cardinality(Unused)
    BY Zenon DEF ApplyUserList
  <2> HIDE DEF fresh
  <2>3. \E f \in [fresh -> Unused] : \A u, v \in fresh : f[u] = f[v] => u = v
    BY <2>1, <2>2, InjectionExists, Zenon
  <2> QED
    BY <2>3
<1>2. /\ users' = [u \in UID |-> IF u \in fresh THEN new[u]
                                ELSE IF u \in kept THEN users[u] ELSE nil]
      /\ uidOf' = [m \in Meter |-> IF \E u \in fresh : new[u] = m
                                     THEN CHOOSE u \in fresh : new[u] = m ELSE uidOf[m]]
      /\ maxIPNum' = [m \in Meter |->
           IF EnableDeviceLimit /\ \E u \in kept : users'[u] = m
             THEN list[uidOf'[m]] ELSE maxIPNum[m]]
      /\ ResetDeleted
      /\ sync' = "rules" /\ list' = [u \in UID |-> Dropped]
      /\ UNCHANGED <<aliveIP, syncs, ipTable, ipNum, conn, monVars, others>>
  BY Zenon DEF ApplyUserList
<1> HIDE DEF new
<1>3. \A u \in fresh : u \in UID /\ new[u] \in Meter /\ uidOf[new[u]] = nil
  BY <1>1, Zenon DEF Unused
<1>4. users' \in [UID -> Meter \cup {nil}]
  BY <1>2, <1>3 DEF TypeOK
<1>5. \A u \in fresh : uidOf'[new[u]] = u
  <2> SUFFICES ASSUME NEW u \in fresh PROVE uidOf'[new[u]] = u
    BY Zenon
  <2> DEFINE v == CHOOSE w \in fresh : new[w] = new[u]
  <2>1. uidOf'[new[u]] = v
    BY <1>2, <1>3
  <2>2. v \in fresh /\ new[v] = new[u]
    OBVIOUS
  <2> HIDE DEF v, fresh
  <2> QED
    BY <1>1, <2>1, <2>2
<1>6. uidOf' \in [Meter -> UID \cup {nil}]
  <2> SUFFICES ASSUME NEW m \in Meter PROVE uidOf'[m] \in UID \cup {nil}
    BY <1>2
  <2>1. CASE \E u \in fresh : new[u] = m
    BY <1>5, <2>1, Zenon
  <2>2. CASE ~\E u \in fresh : new[u] = m
    BY <1>2, <2>2 DEF TypeOK
  <2> QED
    BY <2>1, <2>2
<1>7. ASSUME NEW u \in UID, users'[u] # nil PROVE uidOf'[users'[u]] = u
  <2>1. CASE u \in fresh
    BY <1>2, <1>5, <2>1
  <2>2. CASE u \notin fresh
    <3>1. u \in kept /\ users'[u] = users[u] /\ users[u] \in Meter /\ uidOf[users[u]] = u
      BY <1>2, <1>7, <2>2 DEF Owned, TypeOK
    <3>2. ~\E w \in fresh : new[w] = users[u]
      BY <1>3, <3>1, OnlineAssumption, Zenon
    <3> QED
      BY <1>2, <3>1, <3>2, Zenon
  <2> QED
    BY <2>1, <2>2, Zenon
<1>8. maxIPNum' \in [Meter -> Nat]
  <2> SUFFICES ASSUME NEW m \in Meter PROVE maxIPNum'[m] \in Nat
    BY <1>2
  <2>1. ASSUME NEW u \in kept, users'[u] = m PROVE list[uidOf'[m]] \in Nat
    <3>1. u \in UID /\ list[u] # Dropped /\ m # nil
      BY OnlineAssumption
    <3> QED
      BY <1>7, <2>1, <3>1 DEF Owned
  <2> QED
    BY <1>2, <2>1 DEF TypeOK
<1>9. active' \in [Meter -> BOOLEAN]
  BY <1>2, ResetType, Zenon
<1> QED
  BY <1>2, <1>4, <1>6, <1>7, <1>8, <1>9, Zenon

\* Every step of the monitor, the connections, the panel, the node monitor and
\* the audit keeps the types.
LEMMA NextIInv == IInv /\ [Next]_vars => IInv'
<1> SUFFICES ASSUME IInv, [Next]_vars PROVE IInv'
  BY Zenon
<1> USE OnlineAssumption
    DEF IInv, Owned, tableVars, monVars, syncVars, auditVars, ruleVars, hitVars, reportVars
<1>1. ASSUME NEW k \in Conn, NEW u \in UID, NEW ip \in IP, AddIPLoad(k, u, ip),
             UNCHANGED auditVars
      PROVE  IInv'
  BY <1>1 DEF AddIPLoad, TypeOK
<1>2. ASSUME NEW k \in Conn, UNCHANGED auditVars,
             AddIPCheck(k) \/ AddIPStore(k) \/ AddIPCount(k) \/ Transfer(k)
      PROVE  IInv'
  <2>1. PICK l \in {"store", "count", "open"} : conn' = [conn EXCEPT ![k].state = l]
    BY <1>2, Zenon DEF AddIPCheck, AddIPStore, AddIPCount, Transfer, ConnStep
  <2>2. conn[k].state # "idle" /\ UNCHANGED <<monVars, syncVars, others, maxIPNum>>
    BY <1>2 DEF AddIPCheck, AddIPStore, AddIPCount, Transfer, ConnStep
  <2>3. conn[k].meter \in Meter /\ conn[k].ip \in IP
    BY <2>2
  <2>4. /\ conn' \in [Conn -> [state : {"idle", "check", "store", "count", "open"},
                               meter : Meter \cup {nil}, ip : IP \cup {nil}]]
        /\ \A j \in Conn : conn'[j].meter = conn[j].meter /\ conn'[j].ip = conn[j].ip
        /\ \A j \in Conn : j # k => conn'[j].state = conn[j].state
    BY <2>1 DEF TypeOK
  <2>5. /\ ipTable' \in [Meter -> SUBSET IP] /\ ipNum' \in [Meter -> Int]
        /\ active' \in [Meter -> BOOLEAN]
    <3>1. CASE AddIPCheck(k)
      BY <3>1, Zenon DEF AddIPCheck, TypeOK
    <3>2. CASE AddIPStore(k)
      BY <2>3, <3>2, Zenon DEF AddIPStore, TypeOK
    <3>3. CASE AddIPCount(k)
      <4>1. ipNum[conn[k].meter] + 1 \in Int
        BY <2>3 DEF TypeOK
      <4> QED
        BY <3>3, <4>1, Zenon DEF AddIPCount, TypeOK
    <3>4. CASE Transfer(k)
      BY <3>4, Zenon DEF Transfer, TypeOK
    <3> QED
      BY <1>2, <3>1, <3>2, <3>3, <3>4, Zenon
  <2>6. TypeOK'
    BY <1>2, <2>2, <2>4, <2>5 DEF TypeOK
  <2> QED
    BY <2>2, <2>3, <2>4, <2>6, Zenon
<1>3. ASSUME NEW k \in Conn, CloseConn(k), UNCHANGED auditVars PROVE IInv'
  BY <1>3 DEF CloseConn, NoConn, TypeOK
<1>4. CASE ListUsers /\ UNCHANGED auditVars
  <2>1. Registered \in SUBSET Meter
    BY DEF Registered, TypeOK
  <2> QED
    BY <1>4, <2>1, Zenon DEF ListUsers, TypeOK
<1>5. ASSUME NEW m \in Meter, ResetTraffic(m), UNCHANGED auditVars PROVE IInv'
  BY <1>5, Zenon DEF ResetTraffic, TypeOK
<1>6. ASSUME NEW ip \in IP, RangeDelete(ip), UNCHANGED auditVars PROVE IInv'
  <2>1. ipTable' \in [Meter -> SUBSET IP] /\ onlineUsers' \in [UID -> SUBSET IP]
    BY <1>6, ZenonT(20) DEF RangeDelete, TypeOK
  <2>2. /\ mon.state = "range"
        /\ mon' = [mon EXCEPT !.state = "minus", !.visited = @ \cup {ip}]
        /\ UNCHANGED <<ipNum, maxIPNum, active, conn, LastReportOnline, alive, syncVars,
                       others>>
    BY <1>6 DEF RangeDelete
  <2> QED
    BY <1>6, <2>1, <2>2, Zenon DEF TypeOK
<1>7. CASE RangeCount /\ UNCHANGED auditVars
  <2>1. ipNum' \in [Meter -> Int]
    <3>1. ipNum[mon.meter] - 1 \in Int
      BY <1>7 DEF RangeCount, TypeOK
    <3> QED
      BY <1>7, <3>1 DEF RangeCount, TypeOK
  <2> QED
    BY <1>7, <2>1, Zenon DEF RangeCount, TypeOK
<1>8. CASE RangeEnd /\ UNCHANGED auditVars
  BY <1>8, Zenon DEF RangeEnd, TypeOK
<1>9. CASE ReportOnline /\ UNCHANGED auditVars
  <2>1. \A u \in UID : Cardinality(onlineUsers[u]) \in Nat
    BY SizeOf DEF TypeOK
  <2>2. LastReportOnline' \in [UID -> Nat]
    BY <1>9, <2>1 DEF ReportOnline, TypeOK
  <2>3. \E l \in {"post", "audit"} : mon' = [mon EXCEPT !.state = l]
    BY <1>9 DEF ReportOnline
  <2>4. UNCHANGED <<tableVars, conn, onlineUsers, alive, syncVars, others>>
    BY <1>9 DEF ReportOnline
  <2> QED
    BY <1>9, <2>2, <2>3, <2>4, Zenon DEF TypeOK
<1>10. CASE PostOnline /\ UNCHANGED auditVars
  <2>1. alive' \in [UID -> SUBSET IP]
    BY <1>10 DEF PostOnline, TypeOK
  <2>2. /\ mon' = [mon EXCEPT !.state = "audit"]
        /\ UNCHANGED <<tableVars, conn, onlineUsers, LastReportOnline, syncVars, others>>
    BY <1>10 DEF PostOnline
  <2> QED
    BY <1>10, <2>1, <2>2, Zenon DEF TypeOK
<1>11. ASSUME NEW u \in UID, Forget(u), UNCHANGED auditVars PROVE IInv'
  BY <1>11 DEF Forget, TypeOK
<1>12. ASSUME NEW n \in [UID -> 0 .. MaxOthers], GetUserList(n), UNCHANGED auditVars
       PROVE  IInv'
  <2>1. n \in [UID -> Nat]
    OBVIOUS
  <2>2. aliveIP' \in [UID -> Nat]
    <3>1. \A u \in UID : n[u] + Cardinality(alive[u]) \in Nat
      BY <2>1, SizeOf DEF TypeOK
    <3> QED
      BY <1>12, <3>1, Zenon DEF GetUserList
  <2> QED
    BY <1>12, <2>1, <2>2, Zenon DEF GetUserList, TypeOK
<1>13. CASE ParseUserListResponse /\ UNCHANGED auditVars
  <2>1. \A u \in UID :
          LocalLimit(DeviceLimit, aliveIP[u], LastReportOnline[u]) \in Nat \cup {Dropped}
    BY LocalLimitType, Zenon DEF TypeOK
  <2>2. list' \in [UID -> Int] /\ \A u \in UID : list'[u] \in Nat \cup {Dropped}
    BY <1>13, <2>1 DEF ParseUserListResponse, Dropped
  <2> QED
    BY <1>13, <2>2, Zenon DEF ParseUserListResponse, TypeOK
<1>14. CASE ApplyUserList /\ UNCHANGED auditVars
  <2>1. /\ users' \in [UID -> Meter \cup {nil}] /\ uidOf' \in [Meter -> UID \cup {nil}]
        /\ maxIPNum' \in [Meter -> Nat] /\ active' \in [Meter -> BOOLEAN]
        /\ sync' = "rules" /\ list' = [u \in UID |-> Dropped]
        /\ UNCHANGED <<aliveIP, syncs, ipTable, ipNum, conn, monVars, others>>
        /\ \A u \in UID : users'[u] # nil => uidOf'[users'[u]] = u
    BY <1>14, ApplyTypes, Zenon
  <2>2. TypeOK'
    <3>1. list' \in [UID -> Int]
      <4>1. Dropped \in Int
        BY DEF Dropped
      <4> QED
        BY <2>1, <4>1, Zenon
    <3> QED
      BY <1>14, <2>1, <3>1, Zenon DEF TypeOK
  <2> QED
    BY <2>1, <2>2, Zenon
<1>15. CASE DrainHits \/ ReportHits
  <2>1. /\ DrainDetectResults \/ RetryIllegal \/ ReportIllegal
        /\ \E l \in {"idle", "illegal"} : mon' = [mon EXCEPT !.state = l]
        /\ onlineUsers' = [u \in UID |-> {}]
        /\ UNCHANGED <<tableVars, conn, LastReportOnline, alive, others, syncVars>>
    BY <1>15 DEF DrainHits, ReportHits, AtAudit
  <2>2. TypeOK'
    BY <2>1, AuditTypes, ZenonT(20) DEF TypeOK
  <2> QED
    BY <2>1, <2>2, Zenon DEF TypeOK
<1>16. CASE Audited /\ UNCHANGED onlineVars
  <2>1. TypeOK'
    BY <1>16, AuditTypes, Zenon DEF onlineVars, TypeOK
  <2> QED
    BY <1>16, <2>1 DEF onlineVars
<1>17. CASE FetchRules \/ KeepRules
  <2>1. /\ RefreshDetectRules \/ UNCHANGED auditVars
        /\ sync' = "idle"
        /\ UNCHANGED <<users, uidOf, aliveIP, list, syncs, tableVars, conn, monVars, others>>
    BY <1>17, Zenon DEF FetchRules, KeepRules, AfterSync
  <2>2. /\ panelRules' \in Version /\ ruleTag' \in Version /\ detectRules' \in Version
        /\ clock' \in Nat /\ detectDedup' \in [Key -> Nat] /\ lastHit' \in [Key -> Nat]
        /\ detectResults' \in [Key -> Nat] /\ reporting' \in [Key -> Nat]
        /\ hits' \in [Key -> Nat] /\ sent' \in [Key -> Nat] /\ told' \in [Key -> Nat]
        /\ tries' \in 0 .. RetryCount
    <3>1. CASE RefreshDetectRules
      BY <3>1, AuditTypes, Zenon
    <3>2. CASE UNCHANGED auditVars
      BY <3>2, Zenon DEF TypeOK, ruleVars, hitVars, reportVars
    <3> QED
      BY <2>1, <3>1, <3>2, Zenon
  <2>3. TypeOK'
    BY <2>1, <2>2, ZenonT(20) DEF TypeOK
  <2> QED
    BY <2>1, <2>3, Zenon
<1>18. CASE (UserNotModified \/ RuntimeError) /\ UNCHANGED auditVars
  <2>1. /\ sync' \in {"apply", "rules", "pending"}
        /\ UNCHANGED <<users, uidOf, aliveIP, list, syncs, tableVars, conn, monVars, others>>
    BY <1>18, Zenon DEF UserNotModified, RuntimeError
  <2>2. TypeOK'
    BY <1>18, <2>1, Zenon DEF TypeOK
  <2> QED
    BY <2>1, <2>2, Zenon
<1>19. CASE DumpTrafficForDeleted /\ UNCHANGED auditVars
  <2>1. /\ sync' = "delta" /\ active' \in [Meter -> BOOLEAN]
        /\ UNCHANGED <<users, uidOf, aliveIP, list, syncs, ipTable, ipNum, maxIPNum, conn,
                       monVars, others>>
    BY <1>19, ResetType, Zenon DEF DumpTrafficForDeleted
  <2>2. TypeOK'
    BY <1>19, <2>1, Zenon DEF TypeOK
  <2> QED
    BY <2>1, <2>2, Zenon
<1>20. CASE UNCHANGED vars
  BY <1>20 DEF vars, onlineVars, TypeOK
<1> QED
  BY <1>1, <1>2, <1>3, <1>4, <1>5, <1>6, <1>7, <1>8, <1>9, <1>10, <1>11, <1>12, <1>13,
     <1>14, <1>15, <1>16, <1>17, <1>18, <1>19, <1>20, Zenon
  DEF Next, UserInfoMonitor, Monitor, Panel, Sync, Connection

-----------------------------------------------------------------------------
(* AddIP against ResetIPTable. *)

\* A connection that moves on in AddIP without counting changes nobody's
\* Counting.
LEMMA CountingKept ==
  ASSUME IInv, NEW k \in Conn, DOMAIN conn' = Conn, \A j \in Conn : j # k => conn'[j] = conn[j],
         conn[k].state # "count", conn'[k].state # "count"
  PROVE  \A m : Counting(m)' = Counting(m)
BY Zenon DEF Counting

\* A step that leaves the tables, the counts and the calls between them alone.
LEMMA CoversKept ==
  ASSUME IPNumCovers, UNCHANGED <<ipTable, ipNum>>,
         \A m : Counting(m)' = Counting(m), \A m : Uncounting(m)' = Uncounting(m)
  PROVE  IPNumCovers'
BY DEF IPNumCovers

\* Each half of AddIP and of ResetIPTable keeps the count above the table.
LEMMA NextCovers == IInv /\ IPNumCovers /\ [Next]_vars => IPNumCovers'
<1> SUFFICES ASSUME IInv, IPNumCovers, [Next]_vars PROVE IPNumCovers'
  BY Zenon
<1> USE DEF IInv, tableVars, monVars, syncVars
<1>t. \A m \in Meter : /\ ipTable[m] \in SUBSET IP /\ ipNum[m] \in Int
                       /\ IsFiniteSet(ipTable[m]) /\ Cardinality(ipTable[m]) \in Nat
                       /\ IsFiniteSet(Counting(m)) /\ Cardinality(Counting(m)) \in Nat
                       /\ Uncounting(m) \in Nat
  BY SizeOf DEF TypeOK, Counting, Uncounting
<1>u. UNCHANGED conn => \A m : Counting(m)' = Counting(m)
  BY DEF Counting
<1>v. ASSUME mon.state # "minus", mon'.state # "minus"
      PROVE  \A m : Uncounting(m)' = Uncounting(m)
  BY <1>v DEF Uncounting
<1>w. UNCHANGED mon => \A m : Uncounting(m)' = Uncounting(m)
  BY Zenon DEF Uncounting
<1>1. ASSUME NEW k \in Conn, NEW u \in UID, NEW ip \in IP, AddIPLoad(k, u, ip)
      PROVE  IPNumCovers'
  <2>1. \A m : Counting(m)' = Counting(m)
    BY <1>1, CountingKept, Zenon DEF AddIPLoad, TypeOK
  <2> QED
    BY <1>1, <1>w, <2>1, CoversKept, Zenon DEF AddIPLoad
<1>2. ASSUME NEW k \in Conn, AddIPCheck(k) \/ Transfer(k) \/ CloseConn(k)
      PROVE  IPNumCovers'
  <2>1. \A m : Counting(m)' = Counting(m)
    <3>1. conn \in [Conn -> [state : {"idle", "check", "store", "count", "open"},
                            meter : Meter \cup {nil}, ip : IP \cup {nil}]]
      BY Zenon DEF TypeOK
    <3>2. /\ DOMAIN conn' = Conn /\ \A j \in Conn : j # k => conn'[j] = conn[j]
          /\ conn[k].state # "count" /\ conn'[k].state # "count"
      <4>1. CASE AddIPCheck(k)
        BY <3>1, <4>1 DEF AddIPCheck, ConnStep
      <4>2. CASE Transfer(k)
        BY <3>1, <4>2 DEF Transfer, ConnStep
      <4>3. CASE CloseConn(k)
        BY <3>1, <4>3 DEF CloseConn, NoConn
      <4> QED
        BY <1>2, <4>1, <4>2, <4>3, Zenon
    <3> QED
      BY <3>2, CountingKept, Zenon
  <2> QED
    BY <1>2, <1>w, <2>1, CoversKept DEF AddIPCheck, Transfer, CloseConn, ConnStep
<1>3. ASSUME NEW k \in Conn, AddIPStore(k) PROVE IPNumCovers'
  <2>1. PICK n \in Meter : n = conn[k].meter /\ conn[k].state = "store"
    BY <1>3 DEF AddIPStore, ConnStep, Owned
  <2>2. /\ ipTable'[n] = ipTable[n] \cup {conn[k].ip} /\ UNCHANGED <<ipNum, mon>>
        /\ \A m \in Meter : m # n => ipTable'[m] = ipTable[m]
    BY <1>3, <2>1 DEF AddIPStore, ConnStep, TypeOK
  <2>3. Counting(n)' = Counting(n) \cup {k} /\ k \notin Counting(n)
    BY <1>3, <2>1 DEF AddIPStore, ConnStep, Counting, TypeOK
  <2>4. \A m \in Meter : m # n => Counting(m)' = Counting(m)
    BY <1>3, <2>1 DEF AddIPStore, ConnStep, Counting, TypeOK
  <2>5. /\ Cardinality(ipTable'[n]) \in Nat
        /\ Cardinality(ipTable'[n]) <= Cardinality(ipTable[n]) + 1
    <3>1. IsFiniteSet(ipTable[n])
      BY <1>t, <2>1
    <3> QED
      BY <2>2, <3>1, SizeWith, Zenon
  <2>6. Cardinality(Counting(n)') = Cardinality(Counting(n)) + 1
    <3>1. IsFiniteSet(Counting(n))
      BY <1>t, <2>1
    <3> QED
      BY <2>3, <3>1, SizeWith
  <2>7. \A m \in Meter : Uncounting(m)' = Uncounting(m)
    BY <1>w, <2>2
  <2>8. Cardinality(ipTable'[n]) <= ipNum'[n] + Cardinality(Counting(n)') - Uncounting(n)'
    <3>1. /\ ipNum[n] \in Int /\ Cardinality(ipTable[n]) \in Nat
          /\ Cardinality(Counting(n)) \in Nat /\ Uncounting(n) \in Nat
      BY <1>t, <2>1, Zenon
    <3>2. Cardinality(ipTable[n]) <= ipNum[n] + Cardinality(Counting(n)) - Uncounting(n)
      BY <2>1 DEF IPNumCovers
    <3>3. Uncounting(n)' = Uncounting(n) /\ ipNum'[n] = ipNum[n]
      BY <2>1, <2>2, <2>7, Zenon
    <3>4. Cardinality(ipTable'[n]) <=
            ipNum[n] + (Cardinality(Counting(n)) + 1) - Uncounting(n)
      BY <2>5, <3>1, <3>2
    <3> QED
      BY <2>6, <3>3, <3>4, Zenon
  <2>9. ASSUME NEW m \in Meter, m # n
        PROVE  Cardinality(ipTable'[m]) <=
                 ipNum'[m] + Cardinality(Counting(m)') - Uncounting(m)'
    BY <2>9, <2>2, <2>4, <2>7, Zenon DEF IPNumCovers
  <2> QED
    BY <2>8, <2>9 DEF IPNumCovers
<1>4. ASSUME NEW k \in Conn, AddIPCount(k) PROVE IPNumCovers'
  <2>1. PICK n \in Meter : n = conn[k].meter /\ conn[k].state = "count"
    BY <1>4 DEF AddIPCount, ConnStep, Owned
  <2>2. /\ ipNum'[n] = ipNum[n] + 1 /\ UNCHANGED <<ipTable, mon>>
        /\ \A m \in Meter : m # n => ipNum'[m] = ipNum[m]
    BY <1>4, <2>1 DEF AddIPCount, ConnStep, TypeOK
  <2>3. Counting(n)' = Counting(n) \ {k} /\ k \in Counting(n)
    BY <1>4, <2>1 DEF AddIPCount, ConnStep, Counting, TypeOK
  <2>4. \A m \in Meter : m # n => Counting(m)' = Counting(m)
    BY <1>4, <2>1 DEF AddIPCount, ConnStep, Counting, TypeOK
  <2>5. Cardinality(Counting(n)') = Cardinality(Counting(n)) - 1
    <3>1. IsFiniteSet(Counting(n))
      BY <1>t, <2>1, Zenon
    <3> QED
      BY <2>3, <3>1, SizeWithout, Zenon
  <2>6. \A m \in Meter : Uncounting(m)' = Uncounting(m)
    BY <1>w, <2>2, Zenon
  <2>7. Cardinality(ipTable'[n]) <= ipNum'[n] + Cardinality(Counting(n)') - Uncounting(n)'
    <3>1. /\ ipNum[n] \in Int /\ Cardinality(ipTable[n]) \in Nat
          /\ Cardinality(Counting(n)) \in Nat /\ Uncounting(n) \in Nat
      BY <1>t, <2>1
    <3>2. Cardinality(ipTable[n]) <= ipNum[n] + Cardinality(Counting(n)) - Uncounting(n)
      BY <2>1 DEF IPNumCovers
    <3>3. Uncounting(n)' = Uncounting(n) /\ ipTable' = ipTable
      BY <2>1, <2>2, <2>6, Zenon
    <3> QED
      BY <2>2, <2>5, <3>1, <3>2, <3>3
  <2>8. ASSUME NEW m \in Meter, m # n
        PROVE  Cardinality(ipTable'[m]) <=
                 ipNum'[m] + Cardinality(Counting(m)') - Uncounting(m)'
    BY <2>8, <2>2, <2>4, <2>6, Zenon DEF IPNumCovers
  <2> QED
    BY <2>7, <2>8 DEF IPNumCovers
<1>5. ASSUME NEW ip \in IP, RangeDelete(ip) PROVE IPNumCovers'
  <2>0. PICK n \in Meter : n = mon.meter
    BY <1>5 DEF RangeDelete, Owned
  <2>1. /\ mon.state = "range" /\ mon'.state = "minus" /\ mon'.meter = n
        /\ ip \in ipTable[n] /\ UNCHANGED <<ipNum, conn>>
        /\ ipTable'[n] = ipTable[n] \ {ip}
        /\ \A m \in Meter : m # n => ipTable'[m] = ipTable[m]
    BY <1>5, <2>0, Zenon DEF RangeDelete, TypeOK
  <2>2. \A m \in Meter : Uncounting(m) = 0 /\ Uncounting(m)' = IF m = n THEN 1 ELSE 0
    BY <2>1, Zenon DEF Uncounting
  <2>3. Cardinality(ipTable'[n]) = Cardinality(ipTable[n]) - 1
    <3>1. IsFiniteSet(ipTable[n])
      BY <1>t, <2>1, Zenon
    <3> QED
      BY <2>1, <3>1, SizeWithout, Zenon
  <2>4. Cardinality(ipTable'[n]) <= ipNum'[n] + Cardinality(Counting(n)') - Uncounting(n)'
    <3>1. /\ ipNum[n] \in Int /\ Cardinality(ipTable[n]) \in Nat
          /\ Cardinality(Counting(n)) \in Nat
      BY <1>t, <2>1, Zenon
    <3>2. Cardinality(ipTable[n]) <= ipNum[n] + Cardinality(Counting(n)) - Uncounting(n)
      BY <2>1, Zenon DEF IPNumCovers
    <3>3. /\ Uncounting(n) = 0 /\ Uncounting(n)' = 1
          /\ Counting(n)' = Counting(n) /\ ipNum' = ipNum
      BY <1>u, <2>1, <2>2, Zenon
    <3> QED
      BY <2>3, <3>1, <3>2, <3>3
  <2>5. ASSUME NEW m \in Meter, m # n
        PROVE  Cardinality(ipTable'[m]) <=
                 ipNum'[m] + Cardinality(Counting(m)') - Uncounting(m)'
    <3>1. Uncounting(m)' = Uncounting(m)
      BY <2>2, <2>5, Zenon
    <3> QED
      BY <2>5, <3>1, <1>u, <2>1 DEF IPNumCovers
  <2> QED
    BY <2>4, <2>5 DEF IPNumCovers
<1>6. CASE RangeCount
  <2>0. PICK n \in Meter : n = mon.meter
    BY <1>6 DEF RangeCount, Owned
  <2>1. /\ mon.state = "minus" /\ mon'.state = "range" /\ mon.meter = n
        /\ UNCHANGED <<ipTable, conn>>
        /\ ipNum'[n] = ipNum[n] - 1
        /\ \A m \in Meter : m # n => ipNum'[m] = ipNum[m]
    BY <1>6, <2>0, Zenon DEF RangeCount, TypeOK
  <2>2. \A m \in Meter : Uncounting(m)' = 0 /\ Uncounting(m) = IF m = n THEN 1 ELSE 0
    BY <2>1 DEF Uncounting
  <2>3. \A m \in Meter : m # n => Uncounting(m)' = Uncounting(m)
    BY <2>2
  <2>4. ASSUME NEW m \in Meter
        PROVE  Cardinality(ipTable'[m]) <=
                 ipNum'[m] + Cardinality(Counting(m)') - Uncounting(m)'
    <3>1. CASE m = n
      BY <3>1, <1>t, <1>u, <2>1, <2>2 DEF IPNumCovers
    <3>2. CASE m # n
      BY <3>2, <1>u, <2>1, <2>3, Zenon DEF IPNumCovers
    <3> QED
      BY <3>1, <3>2, Zenon
  <2> QED
    BY <2>4 DEF IPNumCovers
<1>7. CASE \/ ListUsers \/ RangeEnd \/ ReportOnline \/ PostOnline
           \/ \E m \in Meter : ResetTraffic(m)
           \/ DrainHits \/ ReportHits
  <2>1. UNCHANGED <<ipTable, ipNum, conn>> /\ mon.state # "minus"
    BY <1>7 DEF ListUsers, RangeEnd, ReportOnline, PostOnline, ResetTraffic, DrainHits,
       ReportHits, AtAudit
  <2>2. ASSUME NEW m \in Meter, ResetTraffic(m) PROVE mon'.state # "minus"
    BY <2>1, <2>2, Zenon DEF ResetTraffic, TypeOK
  <2>3. ASSUME ListUsers \/ RangeEnd \/ ReportOnline \/ PostOnline PROVE mon'.state # "minus"
    BY <2>3, Zenon DEF ListUsers, RangeEnd, ReportOnline, PostOnline, TypeOK
  <2>4. ASSUME DrainHits \/ ReportHits PROVE mon'.state # "minus"
    BY <2>4 DEF DrainHits, ReportHits, AtAudit, TypeOK
  <2>5. mon'.state # "minus"
    BY <1>7, <2>2, <2>3, <2>4
  <2> QED
    BY <2>1, <2>5, <1>u, <1>v, CoversKept, Zenon
<1>8. CASE Panel \/ Sync \/ FetchRules \/ KeepRules \/ UNCHANGED onlineVars
  <2>1. UNCHANGED <<ipTable, ipNum, conn, mon>>
    BY <1>8, Zenon DEF FetchRules, KeepRules, AfterSync, Panel, Forget, Sync, GetUserList,
       UserNotModified, ParseUserListResponse, DumpTrafficForDeleted, RuntimeError,
       ApplyUserList,
       onlineVars
  <2> QED
    BY <2>1, <1>u, <1>w, CoversKept
<1> QED
  BY <1>1, <1>2, <1>3, <1>4, <1>5, <1>6, <1>7, <1>8, Zenon
  DEF Next, UserInfoMonitor, Monitor, Connection, vars

\* No address is in a table or counted at first.
LEMMA InitCovers == Init => IPNumCovers
<1>1. ASSUME Init PROVE \A m \in Meter : Counting(m) = {} /\ Uncounting(m) = 0
  BY <1>1 DEF Init, OnlineInit, NoConn, Resting, Counting, Uncounting
<1>2. ASSUME Init PROVE \A m \in Meter : ipTable[m] = {} /\ ipNum[m] = 0
  BY <1>2 DEF Init, OnlineInit
<1> QED
  BY <1>1, <1>2, FS_EmptySet DEF IPNumCovers

\* However AddIP and ResetIPTable interleave, the count that AddIP checks the
\* device limit with covers the table.
THEOREM CountCoversTable == Spec => []IPNumCovers
BY InitIInv, NextIInv, InitCovers, NextCovers, PTL DEF Spec

\* As many calls as have stored an address and not counted it may pass the
\* limit at once, and no more: AddIP admits an address only while the table is
\* below the limit plus those calls.
AdmittedWithin ==
  [][\A k \in Conn :
       LET m == conn[k].meter IN
       conn[k].state = "check" /\ conn'[k].state = "store" /\ maxIPNum[m] > 0
         => Cardinality(ipTable[m]) < maxIPNum[m] + Cardinality(Counting(m))]_vars

\* The device limit is overshot by the calls between Store and Add alone,
\* whatever the order of the calls and of the drains: what AddIP's check
\* without a lock does promise.
THEOREM LimitAdmits == Spec => AdmittedWithin
<1> DEFINE Within ==
      \A k \in Conn :
        LET m == conn[k].meter IN
        conn[k].state = "check" /\ conn'[k].state = "store" /\ maxIPNum[m] > 0
          => Cardinality(ipTable[m]) < maxIPNum[m] + Cardinality(Counting(m))
<1>1. IInv /\ IPNumCovers /\ [Next]_vars => [Within]_vars
  <2> SUFFICES ASSUME IInv, IPNumCovers, Next, NEW k \in Conn,
                      conn[k].state = "check", conn'[k].state = "store",
                      maxIPNum[conn[k].meter] > 0
               PROVE  Cardinality(ipTable[conn[k].meter])
                        < maxIPNum[conn[k].meter] + Cardinality(Counting(conn[k].meter))
    BY Zenon
  <2>1. ~Full(conn[k].meter)
    <3>1. PICK j \in Conn : Connection(j)
      <4>1. conn' # conn
        OBVIOUS
      <4> QED
        BY <4>1, Zenon DEF Next, UserInfoMonitor, Monitor, ListUsers, RangeCount, RangeEnd,
           ReportOnline, PostOnline, ResetTraffic, RangeDelete, DrainHits, ReportHits,
           AtAudit, FetchRules, KeepRules, AfterSync, Panel, Forget, Sync, GetUserList,
           UserNotModified, ParseUserListResponse,
           DumpTrafficForDeleted, RuntimeError, ApplyUserList, onlineVars
    <3>2. conn \in [Conn -> [state : {"idle", "check", "store", "count", "open"},
                             meter : Meter \cup {nil}, ip : IP \cup {nil}]]
      BY DEF IInv, TypeOK
    <3>3. j = k
      BY <3>1, <3>2 DEF Connection, AddIPLoad, AddIPCheck, AddIPStore, AddIPCount, Transfer,
         CloseConn, ConnStep
    <3>4. CASE AddIPCheck(k)
      BY <3>2, <3>4 DEF AddIPCheck, ConnStep
    <3> QED
      BY <3>1, <3>3, <3>4, Zenon DEF Connection, AddIPLoad, AddIPStore, AddIPCount, Transfer,
         CloseConn, ConnStep
  <2>2. PICK m \in Meter : m = conn[k].meter
    BY DEF IInv, Owned
  <2>3. /\ ipNum[m] \in Int /\ maxIPNum[m] \in Nat /\ Cardinality(ipTable[m]) \in Nat
        /\ Cardinality(Counting(m)) \in Nat /\ Uncounting(m) \in Nat
    BY SizeOf DEF IInv, TypeOK, Counting, Uncounting
  <2>4. Cardinality(ipTable[m]) <= ipNum[m] + Cardinality(Counting(m)) - Uncounting(m)
    BY Zenon DEF IPNumCovers
  <2>5. ~(ipNum[m] + 1 > maxIPNum[m])
    BY <2>1, <2>2, Zenon DEF Full
  <2>6. Cardinality(ipTable[m]) < maxIPNum[m] + Cardinality(Counting(m))
    BY <2>3, <2>4, <2>5
  <2> QED
    BY <2>2, <2>6, Zenon
<1> QED
  BY <1>1, InitIInv, NextIInv, InitCovers, NextCovers, PTL DEF Spec, AdmittedWithin

-----------------------------------------------------------------------------
(* What ResetIPTable takes is listed. *)

\* The users in hand have a UID, an address that Range owes is still in the
\* table, and one that it visited is listed under the user.
RangeKeeps ==
  /\ \A m \in mon.todo : uidOf[m] \in UID
  /\ mon.state \in {"range", "minus"} =>
       /\ uidOf[mon.meter] \in UID
       /\ mon.due \ mon.visited \subseteq ipTable[mon.meter]
       /\ mon.visited \subseteq onlineUsers[uidOf[mon.meter]]

\* A step of ResetIPTable takes an address out of a table only into the list
\* of its user; when the user is done, every address that was in the table at
\* the beginning is listed; and the list is only given up once it was reported.
DrainedIsListed ==
  [][/\ \A m \in Meter : \A ip \in ipTable[m] \ ipTable'[m] :
          uidOf[m] \in UID /\ ip \in onlineUsers'[uidOf[m]]
     /\ mon.state = "range" /\ mon'.state = "users"
          => mon.due \subseteq onlineUsers[uidOf[mon.meter]]
     /\ (\E u \in UID : ~(onlineUsers[u] \subseteq onlineUsers'[u]))
          => mon.state \in {"audit", "illegal"}]_vars

\* A meter with a user keeps it.
LEMMA UIDKept ==
  ASSUME IInv, Next
  PROVE  \A m \in Meter : uidOf[m] \in UID => uidOf'[m] = uidOf[m]
<1>1. CASE ApplyUserList
  <2> DEFINE fresh == {u \in {v \in UID : list[v] # Dropped} : users[u] = nil}
             new   == CHOOSE f \in [fresh -> Unused] :
                        \A u, v \in fresh : f[u] = f[v] => u = v
  <2>1. uidOf' = [m \in Meter |-> IF \E u \in fresh : new[u] = m
                                    THEN CHOOSE u \in fresh : new[u] = m ELSE uidOf[m]]
    BY <1>1, Zenon DEF ApplyUserList
  <2>2. \A u \in fresh : uidOf[new[u]] = nil
    <3>1. IsFiniteSet(fresh) /\ IsFiniteSet(Unused)
      <4>1. fresh \in SUBSET UID /\ Unused \in SUBSET Meter
        BY DEF Unused
      <4> QED
        BY <4>1, OnlineAssumption, FS_Subset
    <3>2. Cardinality(fresh) <= Cardinality(Unused)
      BY <1>1, Zenon DEF ApplyUserList
    <3> HIDE DEF fresh
    <3>3. \E f \in [fresh -> Unused] : \A u, v \in fresh : f[u] = f[v] => u = v
      BY <3>1, <3>2, InjectionExists, Zenon
    <3>4. new \in [fresh -> Unused]
      BY <3>3
    <3> QED
      BY <3>4, Zenon DEF Unused
  <2> HIDE DEF fresh, new
  <2> QED
    BY <2>1, <2>2, OnlineAssumption, Zenon
<1>2. CASE UNCHANGED uidOf
  BY <1>2, Zenon
<1> QED
  BY <1>1, <1>2, Zenon DEF Next, UserInfoMonitor, Monitor, ListUsers, RangeCount, RangeEnd,
     ReportOnline, PostOnline, ResetTraffic, RangeDelete, DrainHits, ReportHits, AtAudit,
     FetchRules, KeepRules, AfterSync,
     Panel, Forget, Sync, GetUserList, UserNotModified, ParseUserListResponse,
     DumpTrafficForDeleted, RuntimeError, Connection, AddIPLoad,
     AddIPCheck, AddIPStore, AddIPCount, Transfer, CloseConn, ConnStep, syncVars, onlineVars

\* A step that neither moves the monitor nor takes an address away.
LEMMA RangeUndisturbed ==
  ASSUME IInv, Next, RangeKeeps, UNCHANGED <<mon, onlineUsers>>,
         \A m \in Meter : ipTable[m] \subseteq ipTable'[m]
  PROVE  RangeKeeps'
<1>1. mon.todo \subseteq Meter /\ (mon.state \in {"range", "minus"} => mon.meter \in Meter)
  BY DEF IInv, TypeOK, Owned
<1> QED
  BY <1>1, UIDKept, Zenon DEF RangeKeeps

\* A step outside the monitor, and what it does to the table.
LEMMA OutsideMonitor ==
  ASSUME IInv, \/ Panel \/ Sync \/ (\E k \in Conn : Connection(k))
               \/ FetchRules \/ KeepRules
               \/ Audited /\ UNCHANGED onlineVars
  PROVE  /\ UNCHANGED <<mon, onlineUsers>>
         /\ \A m \in Meter : ipTable[m] \subseteq ipTable'[m]
<1>1. ASSUME NEW k \in Conn, AddIPStore(k)
      PROVE  UNCHANGED <<mon, onlineUsers>> /\ \A m \in Meter : ipTable[m] \subseteq ipTable'[m]
  BY <1>1, Zenon DEF AddIPStore, ConnStep, monVars, IInv, TypeOK
<1>2. CASE UNCHANGED <<mon, onlineUsers, ipTable>>
  BY <1>2, Zenon
<1> QED
  BY <1>1, <1>2, Zenon DEF FetchRules, KeepRules, AfterSync, Panel, Forget, Sync, GetUserList,
     UserNotModified, ParseUserListResponse, DumpTrafficForDeleted, RuntimeError,
     ApplyUserList, Connection, AddIPLoad, AddIPCheck, AddIPCount, Transfer, CloseConn,
     ConnStep, tableVars, monVars, onlineVars

\* Every step keeps what Range owes in the table and what it visited listed.
LEMMA NextRangeKeeps == IInv /\ RangeKeeps /\ [Next]_vars => RangeKeeps'
<1> SUFFICES ASSUME IInv, RangeKeeps, [Next]_vars PROVE RangeKeeps'
  BY Zenon
<1>m. mon \in [state : {"idle", "users", "range", "minus", "post", "audit", "illegal"},
               todo : SUBSET Meter, meter : Meter \cup {nil},
               due : SUBSET IP, visited : SUBSET IP]
  BY DEF IInv, TypeOK
<1>1. CASE ListUsers
  <2>1. \A m \in Registered : uidOf[m] \in UID
    BY DEF Registered, IInv, Owned
  <2> QED
    BY <1>1, <1>m, <2>1, Zenon DEF ListUsers, syncVars, RangeKeeps
<1>2. ASSUME NEW m \in Meter, ResetTraffic(m) PROVE RangeKeeps'
  <2>1. UNCHANGED <<ipTable, onlineUsers, uidOf>> /\ uidOf[m] \in UID
    BY <1>2, Zenon DEF ResetTraffic, syncVars, RangeKeeps
  <2>2. CASE active[m]
    <3>1. /\ mon'.todo \subseteq mon.todo /\ mon'.meter = m /\ mon'.due = ipTable[m]
          /\ mon'.visited = {}
      BY <1>2, <2>2, Zenon DEF ResetTraffic
    <3> QED
      BY <2>1, <3>1, Zenon DEF RangeKeeps
  <2>3. CASE ~active[m]
    <3>1. mon'.todo \subseteq mon.todo /\ mon'.state = "users"
      BY <1>2, <1>m, <2>3, Zenon DEF ResetTraffic
    <3> QED
      BY <2>1, <3>1, Zenon DEF RangeKeeps
  <2> QED
    BY <2>2, <2>3, Zenon
<1>3. ASSUME NEW ip \in IP, RangeDelete(ip) PROVE RangeKeeps'
  <2>1. /\ mon.state = "range" /\ mon.meter \in Meter /\ uidOf[mon.meter] \in UID
        /\ ipTable'[mon.meter] = ipTable[mon.meter] \ {ip} /\ UNCHANGED uidOf
        /\ onlineUsers'[uidOf[mon.meter]] = onlineUsers[uidOf[mon.meter]] \cup {ip}
    BY <1>3, Zenon DEF RangeDelete, syncVars, RangeKeeps, IInv, TypeOK, Owned
  <2>2. /\ mon'.todo = mon.todo /\ mon'.meter = mon.meter /\ mon'.due = mon.due
        /\ mon'.visited = mon.visited \cup {ip}
    BY <1>3, <1>m, Zenon DEF RangeDelete
  <2>3. /\ mon.due \ mon.visited \subseteq ipTable[mon.meter]
        /\ mon.visited \subseteq onlineUsers[uidOf[mon.meter]]
        /\ \A m \in mon.todo : uidOf[m] \in UID
    BY <2>1, Zenon DEF RangeKeeps
  <2> QED
    BY <2>1, <2>2, <2>3, Zenon DEF RangeKeeps
<1>4. CASE RangeCount
  <2>1. /\ mon.state = "minus" /\ mon'.todo = mon.todo /\ mon'.meter = mon.meter
        /\ mon'.due = mon.due /\ mon'.visited = mon.visited
        /\ UNCHANGED <<ipTable, onlineUsers, uidOf>>
    BY <1>4, <1>m, Zenon DEF RangeCount, syncVars
  <2> QED
    BY <2>1, Zenon DEF RangeKeeps
<1>5. CASE RangeEnd \/ ReportOnline \/ PostOnline \/ DrainHits \/ ReportHits
  <2>1. /\ UNCHANGED uidOf
        /\ mon'.todo = mon.todo /\ mon'.state \notin {"range", "minus"}
    BY <1>5, <1>m DEF RangeEnd, ReportOnline, PostOnline, DrainHits, ReportHits, AtAudit,
       syncVars
  <2> QED
    BY <2>1, Zenon DEF RangeKeeps
<1>6. CASE Next /\ (\/ Panel \/ Sync \/ (\E k \in Conn : Connection(k))
                    \/ FetchRules \/ KeepRules
                    \/ Audited /\ UNCHANGED onlineVars)
  BY <1>6, OutsideMonitor, RangeUndisturbed, Zenon
<1>7. CASE UNCHANGED vars
  BY <1>7, Zenon DEF vars, onlineVars, RangeKeeps
<1> QED
  BY <1>1, <1>2, <1>3, <1>4, <1>5, <1>6, <1>7, Zenon DEF Next, UserInfoMonitor, Monitor

\* No address leaves a table unlisted, however connections come and user lists
\* are applied while the monitor ranges over it: the safety half of
\* OnlineReported.
THEOREM NoAddressLost == Spec => DrainedIsListed
<1> DEFINE Listed ==
      /\ \A m \in Meter : \A ip \in ipTable[m] \ ipTable'[m] :
           uidOf[m] \in UID /\ ip \in onlineUsers'[uidOf[m]]
      /\ mon.state = "range" /\ mon'.state = "users"
           => mon.due \subseteq onlineUsers[uidOf[mon.meter]]
      /\ (\E u \in UID : ~(onlineUsers[u] \subseteq onlineUsers'[u]))
           => mon.state \in {"audit", "illegal"}
<1>1. Init => RangeKeeps
  <2>1. Init => mon.todo = {} /\ mon.state = "idle"
    BY DEF Init, OnlineInit, Resting
  <2> QED
    BY <2>1 DEF RangeKeeps
<1>2. IInv /\ RangeKeeps /\ [Next]_vars => [Listed]_vars
  <2> SUFFICES ASSUME IInv, RangeKeeps, Next PROVE Listed
    BY Zenon
  <2>1. ASSUME NEW ip \in IP, RangeDelete(ip) PROVE Listed
    <3>1. /\ mon.state = "range" /\ mon.meter \in Meter /\ uidOf[mon.meter] \in UID
      BY <2>1, Zenon DEF RangeDelete, RangeKeeps, IInv, Owned
    <3>2. /\ \A m \in Meter : \A i \in ipTable[m] \ ipTable'[m] : m = mon.meter /\ i = ip
          /\ ip \in onlineUsers'[uidOf[mon.meter]]
          /\ \A u \in UID : onlineUsers[u] \subseteq onlineUsers'[u]
      BY <2>1, <3>1, Zenon DEF RangeDelete, IInv, TypeOK
    <3>3. mon'.state = "minus"
      BY <2>1, Zenon DEF RangeDelete, IInv, TypeOK
    <3> QED
      BY <3>1, <3>2, <3>3, Zenon
  <2>2. CASE RangeEnd
    <3>1. UNCHANGED <<ipTable, onlineUsers>> /\ mon.due \subseteq mon.visited
      BY <2>2, Zenon DEF RangeEnd, tableVars
    <3>2. mon.visited \subseteq onlineUsers[uidOf[mon.meter]]
      BY <2>2, Zenon DEF RangeEnd, RangeKeeps
    <3> QED
      BY <3>1, <3>2, Zenon
  <2>3. CASE DrainHits \/ ReportHits
    BY <2>3, Zenon DEF DrainHits, ReportHits, AtAudit, tableVars
  <2>4. CASE \/ ListUsers \/ RangeCount \/ ReportOnline \/ PostOnline
             \/ \E m \in Meter : ResetTraffic(m)
    <3>1. UNCHANGED <<ipTable, onlineUsers>> /\ mon.state # "range"
      BY <2>4, Zenon DEF ListUsers, RangeCount, ReportOnline, PostOnline, ResetTraffic,
         tableVars
    <3> QED
      BY <3>1, Zenon
  <2>5. CASE \/ Panel \/ Sync \/ (\E k \in Conn : Connection(k))
             \/ FetchRules \/ KeepRules
             \/ Audited /\ UNCHANGED onlineVars
    <3>1. /\ UNCHANGED <<mon, onlineUsers>>
          /\ \A m \in Meter : ipTable[m] \subseteq ipTable'[m]
      BY <2>5, OutsideMonitor, Zenon
    <3>2. ~(mon.state = "range" /\ mon'.state = "users")
      BY <3>1
    <3> QED
      BY <3>1, <3>2, Zenon
  <2> QED
    BY <2>1, <2>2, <2>3, <2>4, <2>5, Zenon DEF Next, UserInfoMonitor, Monitor
<1> QED
  BY <1>1, <1>2, InitIInv, NextIInv, NextRangeKeeps, PTL DEF Spec, DrainedIsListed

-----------------------------------------------------------------------------
(* The share of the device limit. *)

\* What ParseUserListResponse computes when the counts agree.
LEMMA ShareIs ==
  ASSUME NEW ours \in Nat, NEW other \in Nat, DeviceLimit > 0
  PROVE  LET share == LocalLimit(DeviceLimit, other + ours, ours) IN
         /\ other < DeviceLimit => share = DeviceLimit - other
         /\ other >= DeviceLimit => share = IF ours > 0 THEN ours ELSE Dropped
BY OnlineAssumption DEF LocalLimit

\* A parsed list leaves to this node what the other nodes do not use, or the
\* devices that are here already, and drops only a user without any.
THEOREM ListSharesLimit == Spec => ShareOfLimit
<1> DEFINE Share ==
      \A u \in UID :
        LET ours == Cardinality(alive[u]) IN
        /\ sync = "parse" /\ sync' = "apply"
        /\ DeviceLimit > 0
        /\ LastReportOnline[u] = ours
        /\ aliveIP[u] = others[u] + ours
        => /\ others[u] < DeviceLimit => list'[u] = DeviceLimit - others[u]
           /\ others[u] >= DeviceLimit => list'[u] = IF ours > 0 THEN ours ELSE Dropped
<1>1. IInv /\ [Next]_vars => [Share]_vars
  <2> SUFFICES ASSUME IInv, Next, NEW u \in UID, sync = "parse", sync' = "apply",
                      DeviceLimit > 0, LastReportOnline[u] = Cardinality(alive[u]),
                      aliveIP[u] = others[u] + Cardinality(alive[u])
               PROVE  /\ others[u] < DeviceLimit => list'[u] = DeviceLimit - others[u]
                      /\ others[u] >= DeviceLimit =>
                           list'[u] = IF Cardinality(alive[u]) > 0
                                        THEN Cardinality(alive[u]) ELSE Dropped
    BY Zenon
  <2>1. ParseUserListResponse
    <3> USE DEF syncVars, onlineVars
    <3>1. ASSUME NEW k \in Conn, Connection(k) PROVE FALSE
      BY <3>1, Zenon DEF Connection, ConnStep, AddIPLoad, AddIPCheck, AddIPStore, AddIPCount,
         Transfer, CloseConn
    <3>2. ASSUME UserInfoMonitor PROVE FALSE
      BY <3>2, Zenon DEF UserInfoMonitor, Monitor, ListUsers, RangeCount, RangeEnd,
         ReportOnline, PostOnline, ResetTraffic, RangeDelete, DrainHits, ReportHits, AtAudit
    <3>3. sync \notin {"idle", "pending", "apply", "delta", "rules"}
      OBVIOUS
    <3>4. sync' # sync
      OBVIOUS
    <3> QED
      BY <3>1, <3>2, <3>3, <3>4, Zenon DEF Next, FetchRules, KeepRules, AfterSync, Panel,
         Forget, Sync, GetUserList, UserNotModified, DumpTrafficForDeleted, RuntimeError,
         ApplyUserList
  <2>2. Cardinality(alive[u]) \in Nat /\ others[u] \in Nat
    BY SizeOf, Zenon DEF IInv, TypeOK
  <2>3. list'[u] = LocalLimit(DeviceLimit, others[u] + Cardinality(alive[u]),
                              Cardinality(alive[u]))
    BY <2>1, Zenon DEF ParseUserListResponse
  <2> QED
    BY <2>2, <2>3, ShareIs, Zenon
<1> QED
  BY <1>1, InitIInv, NextIInv, PTL DEF Spec, ShareOfLimit

-----------------------------------------------------------------------------
(* Audit hits. *)

\* A key that was hit is on hold until TTL after the hit, in the map or, once
\* it was pruned, by the clock.
OnHold ==
  \A k \in Key : lastHit[k] > 0 =>
    \/ detectDedup[k] = lastHit[k] + TTL
    \/ detectDedup[k] = 0 /\ clock > lastHit[k] + TTL

\* Pruning keeps an entry or, if it has expired, removes it.
LEMMA PruneIs ==
  ASSUME NEW dedup
  PROVE  \A j \in Key : \/ Prune(dedup)[j] = dedup[j]
                        \/ Prune(dedup)[j] = 0 /\ clock > dedup[j]
BY Zenon DEF Prune

\* detectDedupTTL and the times are numbers.
LEMMA TimeTypes ==
  TypeOK => /\ TTL \in Nat /\ clock \in Nat
            /\ \A k \in Key : lastHit[k] \in Nat /\ detectDedup[k] \in Nat
BY AuditAssumption DEF TypeOK

\* What a hit of k does to the map: k is on hold, and another key stays as it
\* is unless it has expired.
LEMMA Entered ==
  ASSUME TypeOK, NEW k \in Key, MatchAudit(k)
  PROVE  /\ detectDedup'[k] = clock + TTL
         /\ \A j \in Key \ {k} : \/ detectDedup'[j] = detectDedup[j]
                                 \/ detectDedup'[j] = 0 /\ clock > detectDedup[j]
<1> DEFINE entered == [detectDedup EXCEPT ![k] = clock + TTL]
<1>1. /\ entered \in [Key -> Nat] /\ entered[k] = clock + TTL
      /\ \A j \in Key \ {k} : entered[j] = detectDedup[j]
  <2>1. detectDedup \in [Key -> Nat]
    BY DEF TypeOK
  <2>2. clock + TTL \in Nat
    BY TimeTypes
  <2> QED
    BY <2>1, <2>2, Zenon
<1>2. ~(clock > clock + TTL)
  <2>1. clock \in Nat /\ TTL \in Nat
    BY TimeTypes, Zenon
  <2> QED
    BY <2>1
<1>3. detectDedup' = Prune(entered)
  BY Zenon DEF MatchAudit
<1> HIDE DEF entered
<1>4. \A j \in Key : \/ detectDedup'[j] = entered[j]
                     \/ detectDedup'[j] = 0 /\ clock > entered[j]
  BY <1>3, PruneIs, Zenon
<1> QED
  <2>1. detectDedup'[k] = clock + TTL
    BY <1>1, <1>2, <1>4, Zenon
  <2>2. ASSUME NEW j \in Key \ {k}
        PROVE  \/ detectDedup'[j] = detectDedup[j]
               \/ detectDedup'[j] = 0 /\ clock > detectDedup[j]
    BY <1>1, <1>4
  <2> QED
    BY <2>1, <2>2, Zenon

\* No step shortens the hold.
LEMMA NextOnHold == IInv /\ OnHold /\ [Next]_vars => OnHold'
<1> SUFFICES ASSUME IInv, OnHold, [Next]_vars PROVE OnHold'
  BY Zenon
<1> USE DEF IInv
<1>1. ASSUME NEW k \in Key, MatchAudit(k) PROVE OnHold'
  <2>1. /\ lastHit'[k] = clock /\ UNCHANGED clock
        /\ \A j \in Key \ {k} : lastHit'[j] = lastHit[j]
    BY <1>1, Zenon DEF MatchAudit, TypeOK
  <2>2. /\ detectDedup'[k] = clock + TTL
        /\ \A j \in Key \ {k} : \/ detectDedup'[j] = detectDedup[j]
                                \/ detectDedup'[j] = 0 /\ clock > detectDedup[j]
    BY <1>1, Entered, Zenon
  <2> HIDE DEF IInv
  <2>3. ASSUME NEW j \in Key, lastHit'[j] > 0
        PROVE  \/ detectDedup'[j] = lastHit'[j] + TTL
               \/ detectDedup'[j] = 0 /\ clock' > lastHit'[j] + TTL
    <3>1. CASE j = k
      BY <2>1, <2>2, <3>1
    <3>2. CASE j # k
      BY <2>1, <2>2, <2>3, <3>2 DEF OnHold
    <3> QED
      BY <3>1, <3>2
  <2> QED
    BY <2>3, Zenon DEF OnHold
<1>2. CASE Tick
  <2>1. clock' = clock + 1 /\ UNCHANGED <<detectDedup, lastHit>>
    BY <1>2, Zenon DEF Tick, hitVars
  <2>2. /\ TTL \in Nat /\ clock \in Nat
        /\ \A k \in Key : lastHit[k] \in Nat /\ detectDedup[k] \in Nat
    BY TimeTypes, Zenon
  <2> HIDE DEF IInv
  <2>3. \A k \in Key : clock > lastHit[k] + TTL => clock + 1 > lastHit[k] + TTL
    BY <2>2
  <2> QED
    BY <2>1, <2>3, Zenon DEF OnHold
<1>3. CASE UNCHANGED <<clock, detectDedup, lastHit>>
  BY <1>3 DEF OnHold
<1> QED
  BY <1>1, <1>2, <1>3 DEF Next, UserInfoMonitor, DrainHits, DrainDetectResults, ReportHits,
     RetryIllegal, ReportIllegal, FetchRules, KeepRules, Audited, PanelChanges,
     RefreshDetectRules, auditVars, hitVars, vars

\* Two hits of a key are recorded detectDedupTTL apart, however often the map
\* is pruned in between.
THEOREM HitsAreApart == Spec => RecordedApart
<1>1. Init => OnHold
  BY DEF Init, AuditInit, None, OnHold
<1>2. IInv /\ OnHold /\ [Next]_vars =>
        [\A k \in Key : lastHit'[k] # lastHit[k] /\ lastHit[k] > 0
                           => lastHit'[k] >= lastHit[k] + TTL]_vars
  <2> SUFFICES ASSUME IInv, OnHold, Next, NEW k \in Key, lastHit'[k] # lastHit[k],
                      lastHit[k] > 0
               PROVE  lastHit'[k] >= lastHit[k] + TTL
    BY Zenon
  <2>1. PICK j \in Key : MatchAudit(j)
    BY Zenon DEF Next, UserInfoMonitor, DrainHits, DrainDetectResults, ReportHits,
       RetryIllegal, ReportIllegal, FetchRules, KeepRules, Audited, PanelChanges,
       RefreshDetectRules, Tick, auditVars, hitVars
  <2>2. j = k /\ lastHit'[k] = clock /\ ~(clock < detectDedup[k])
    BY <2>1, Zenon DEF MatchAudit, IInv, TypeOK
  <2>3. /\ TTL \in Nat /\ clock \in Nat /\ lastHit[k] \in Nat
        /\ detectDedup[k] = lastHit[k] + TTL \/ clock > lastHit[k] + TTL
    BY TimeTypes DEF OnHold, IInv
  <2> QED
    BY <2>2, <2>3
<1> QED
  BY <1>1, <1>2, InitIInv, NextIInv, NextOnHold, PTL DEF Spec, RecordedApart

\* A report of r hits, sent again for the t-th time: when the panel processed
\* the p of this key as often as they were sent at most, it still did so after
\* one more request, and after the last one.
LEMMA OneMoreRequest ==
  ASSUME NEW R \in Nat, NEW t \in Nat, NEW s \in Nat, NEW r \in Nat, NEW p \in Nat,
         p <= (R + 1) * s + t * r
  PROVE  /\ p <= (R + 1) * s + (t + 1) * r /\ p + r <= (R + 1) * s + (t + 1) * r
         /\ t <= R => /\ p <= (R + 1) * (s + r) + 0 * 0
                      /\ p + r <= (R + 1) * (s + r) + 0 * 0
<1>1. (t + 1) * r = t * r + r /\ (R + 1) * (s + r) = (R + 1) * s + (R + 1) * r
  OBVIOUS
<1>2. t <= R => (t + 1) * r <= (R + 1) * r
  <2> SUFFICES ASSUME t <= R PROVE (t + 1) * r <= (R + 1) * r
    OBVIOUS
  <2>1. PICK d \in Nat : R = t + d
    <3>1. R - t \in Nat /\ R = t + (R - t)
      OBVIOUS
    <3> QED
      BY <3>1
  <2>2. (R + 1) * r = (t + 1) * r + d * r /\ d * r >= 0
    BY <2>1
  <2> QED
    BY <2>2
<1>3. /\ (R + 1) * s \in Nat /\ t * r \in Nat /\ (t + 1) * r \in Nat
      /\ (R + 1) * r \in Nat /\ (R + 1) * (s + r) \in Nat /\ 0 * 0 = 0
  OBVIOUS
<1> QED
  BY <1>1, <1>2, <1>3

\* Every hit that was recorded is waiting, in the report under way, or in one
\* that has ended, and in no two of these; and the panel was told of it as often
\* as those reports were sent at most.
HitsAccounted ==
  /\ \A k \in Key : /\ hits[k] = sent[k] + reporting[k] + detectResults[k]
                    /\ told[k] <= (RetryCount + 1) * sent[k] + tries * reporting[k]
  /\ mon.state # "illegal" => reporting = None /\ tries = 0

\* No hit is dropped before it is reported and none goes into two reports,
\* whatever is recorded while the monitor drains and reports; only the retry of
\* a request can tell the panel of it again, RetryCount times more at most.
THEOREM NoHitLost == Spec => []HitsAccounted
<1>1. Init => HitsAccounted
  <2>1. RetryCount \in Nat
    BY AuditAssumption
  <2>2. (RetryCount + 1) * 0 + 0 * 0 = 0
    BY <2>1
  <2>3. ASSUME Init, NEW k \in Key
        PROVE  /\ hits[k] = 0 /\ sent[k] = 0 /\ reporting[k] = 0 /\ detectResults[k] = 0
               /\ told[k] = 0 /\ tries = 0 /\ reporting = None
    BY <2>3, Zenon DEF Init, AuditInit, None
  <2>4. 0 = 0 + 0 + 0 /\ 0 <= 0
    OBVIOUS
  <2>5. Init => reporting = None /\ tries = 0
    BY Zenon DEF Init, AuditInit
  <2> QED
    BY <2>2, <2>3, <2>4, <2>5, Zenon DEF HitsAccounted
<1>2. IInv /\ HitsAccounted /\ [Next]_vars => HitsAccounted'
  <2> SUFFICES ASSUME IInv, HitsAccounted, [Next]_vars PROVE HitsAccounted'
    BY Zenon
  <2>t. /\ \A k \in Key : /\ hits[k] \in Nat /\ sent[k] \in Nat /\ told[k] \in Nat
                          /\ reporting[k] \in Nat /\ detectResults[k] \in Nat
        /\ tries \in Nat /\ tries <= RetryCount /\ RetryCount \in Nat
    BY AuditAssumption DEF IInv, TypeOK
  <2>1. ASSUME NEW k \in Key, MatchAudit(k), UNCHANGED onlineVars PROVE HitsAccounted'
    <3>1. /\ hits'[k] = hits[k] + 1 /\ detectResults'[k] = detectResults[k] + 1
          /\ \A j \in Key \ {k} : hits'[j] = hits[j] /\ detectResults'[j] = detectResults[j]
          /\ UNCHANGED <<sent, told, reporting, tries, mon>>
      BY <2>1, Zenon DEF MatchAudit, onlineVars, reportVars, IInv, TypeOK
    <3>2. hits'[k] = sent'[k] + reporting'[k] + detectResults'[k]
      <4>1. /\ hits[k] = sent[k] + reporting[k] + detectResults[k]
            /\ sent[k] \in Nat /\ reporting[k] \in Nat /\ detectResults[k] \in Nat
        BY <2>t, Zenon DEF HitsAccounted
      <4>2. /\ hits'[k] = hits[k] + 1 /\ detectResults'[k] = detectResults[k] + 1
            /\ sent'[k] = sent[k] /\ reporting'[k] = reporting[k]
        BY <3>1, Zenon
      <4>3. (sent[k] + reporting[k] + detectResults[k]) + 1
              = sent[k] + reporting[k] + (detectResults[k] + 1)
        BY <4>1
      <4> QED
        BY <4>1, <4>2, <4>3, Zenon
    <3>3. \A j \in Key \ {k} : hits'[j] = sent'[j] + reporting'[j] + detectResults'[j]
      BY <3>1, Zenon DEF HitsAccounted
    <3>4. \A j \in Key : told'[j] <= (RetryCount + 1) * sent'[j] + tries' * reporting'[j]
      BY <3>1, Zenon DEF HitsAccounted
    <3> QED
      BY <3>1, <3>2, <3>3, <3>4, Zenon DEF HitsAccounted, None
  <2>2. CASE DrainHits
    <3>1. /\ reporting = None /\ reporting' = detectResults /\ detectResults' = None
          /\ UNCHANGED <<hits, sent, told, tries>> /\ tries = 0
          /\ mon'.state = IF detectResults = None THEN "idle" ELSE "illegal"
      BY <2>2, Zenon DEF DrainHits, AtAudit, DrainDetectResults, HitsAccounted, IInv, TypeOK
    <3>2. ASSUME NEW k \in Key
          PROVE  /\ hits'[k] = sent'[k] + reporting'[k] + detectResults'[k]
                 /\ told'[k] <= (RetryCount + 1) * sent'[k] + tries' * reporting'[k]
      <4>1. /\ hits'[k] = hits[k] /\ sent'[k] = sent[k] /\ told'[k] = told[k] /\ tries' = 0
            /\ reporting'[k] = detectResults[k] /\ detectResults'[k] = 0
            /\ reporting[k] = 0 /\ tries = 0
        BY <3>1, Zenon DEF None
      <4>2. /\ hits[k] = sent[k] + reporting[k] + detectResults[k]
            /\ told[k] <= (RetryCount + 1) * sent[k] + tries * reporting[k]
        BY Zenon DEF HitsAccounted
      <4>3. 0 * 0 = 0 * detectResults[k]
            /\ sent[k] + 0 + detectResults[k] = sent[k] + detectResults[k] + 0
        BY <2>t
      <4> QED
        BY <4>1, <4>2, <4>3, Zenon
    <3>3. mon'.state # "illegal" => reporting' = None /\ tries' = 0
      BY <3>1, Zenon
    <3> QED
      BY <3>2, <3>3, Zenon DEF HitsAccounted, None
  <2>3. CASE ReportHits
    <3>1. ASSUME NEW k \in Key, RetryIllegal
          PROVE  /\ hits'[k] = sent'[k] + reporting'[k] + detectResults'[k]
                 /\ told'[k] <= (RetryCount + 1) * sent'[k] + tries' * reporting'[k]
      <4>1. /\ hits'[k] = hits[k] /\ sent'[k] = sent[k] /\ tries' = tries + 1
            /\ reporting'[k] = reporting[k] /\ detectResults'[k] = detectResults[k]
            /\ told'[k] = told[k] \/ told'[k] = told[k] + reporting[k]
        BY <3>1, Zenon DEF RetryIllegal, PostHits
      <4>2. /\ hits[k] = sent[k] + reporting[k] + detectResults[k]
            /\ told[k] <= (RetryCount + 1) * sent[k] + tries * reporting[k]
        BY Zenon DEF HitsAccounted
      <4>3. /\ told[k] <= (RetryCount + 1) * sent[k] + (tries + 1) * reporting[k]
            /\ told[k] + reporting[k]
                 <= (RetryCount + 1) * sent[k] + (tries + 1) * reporting[k]
        BY <2>t, <4>2, OneMoreRequest, Zenon
      <4> QED
        BY <4>1, <4>2, <4>3, Zenon
    <3>2. ASSUME NEW k \in Key, ReportIllegal
          PROVE  /\ hits'[k] = sent'[k] + reporting'[k] + detectResults'[k]
                 /\ told'[k] <= (RetryCount + 1) * sent'[k] + tries' * reporting'[k]
      <4>1. /\ hits'[k] = hits[k] /\ sent'[k] = sent[k] + reporting[k] /\ tries' = 0
            /\ reporting'[k] = 0 /\ detectResults'[k] = detectResults[k]
            /\ told'[k] = told[k] \/ told'[k] = told[k] + reporting[k]
        BY <3>2, Zenon DEF ReportIllegal, PostHits, None
      <4>2. /\ hits[k] = sent[k] + reporting[k] + detectResults[k]
            /\ told[k] <= (RetryCount + 1) * sent[k] + tries * reporting[k]
        BY Zenon DEF HitsAccounted
      <4>3. /\ told[k] <= (RetryCount + 1) * (sent[k] + reporting[k]) + 0 * 0
            /\ told[k] + reporting[k]
                 <= (RetryCount + 1) * (sent[k] + reporting[k]) + 0 * 0
        BY <2>t, <4>2, OneMoreRequest, Zenon
      <4>4. sent[k] + reporting[k] + detectResults[k]
              = (sent[k] + reporting[k]) + 0 + detectResults[k]
        BY <2>t
      <4> QED
        BY <4>1, <4>2, <4>3, <4>4, Zenon
    <3>3. \/ RetryIllegal /\ mon'.state = "illegal"
          \/ ReportIllegal /\ reporting' = None /\ tries' = 0
      BY <2>3, Zenon DEF ReportHits, AtAudit, ReportIllegal, IInv, TypeOK
    <3> QED
      BY <3>1, <3>2, <3>3, Zenon DEF HitsAccounted, None
  <2>4. CASE Monitor /\ UNCHANGED auditVars
    <3>1. mon.state # "illegal"
          /\ UNCHANGED <<hits, sent, told, reporting, tries, detectResults>>
      BY <2>4, Zenon DEF Monitor, ListUsers, RangeCount, RangeEnd, ReportOnline, PostOnline,
         ResetTraffic, RangeDelete, auditVars, hitVars, reportVars
    <3> QED
      BY <3>1, Zenon DEF HitsAccounted, None
  <2>5. CASE (Panel \/ Sync \/ \E k \in Conn : Connection(k)) /\ UNCHANGED auditVars
    <3>1. UNCHANGED mon
      BY <2>5, Zenon DEF Panel, Forget, Sync, GetUserList, UserNotModified,
         ParseUserListResponse, DumpTrafficForDeleted, RuntimeError,
         ApplyUserList,
         Connection, AddIPLoad, AddIPCheck, AddIPStore, AddIPCount, Transfer, CloseConn,
         ConnStep, monVars
    <3> QED
      BY <2>5, <3>1, Zenon DEF HitsAccounted, None, auditVars, hitVars, reportVars
  <2>6. CASE UNCHANGED <<hits, sent, told, reporting, tries, detectResults, mon>>
    BY <2>6 DEF HitsAccounted, None
  <2> QED
    BY <2>1, <2>2, <2>3, <2>4, <2>5, <2>6, Zenon DEF Next, UserInfoMonitor, Audited,
       PanelChanges, FetchRules, KeepRules, AfterSync, RefreshDetectRules, Tick, auditVars,
       onlineVars,
       monVars, hitVars, reportVars, vars
<1> QED
  BY <1>1, <1>2, InitIInv, NextIInv, PTL DEF Spec

-----------------------------------------------------------------------------
(* Audit rules. *)

\* The ETag that is sent stands for the rules in force, and these compile.
TagIsInForce == ruleTag = detectRules /\ detectRules \notin Broken

\* So "not modified" is never the answer to a list that is not in force, and a
\* list with a pattern that does not compile changes nothing (GetNodeRule,
\* refreshDetectRules): the safety half of what AuditKeepsUp says of rules.
THEOREM TagStandsForRules == Spec => []TagIsInForce
<1>1. Init => TagIsInForce
  BY AuditAssumption DEF Init, AuditInit, TagIsInForce
<1>2. TagIsInForce /\ [Next]_vars => TagIsInForce'
  <2> SUFFICES ASSUME TagIsInForce, [Next]_vars PROVE TagIsInForce'
    BY Zenon
  <2>1. CASE RefreshDetectRules
    BY <2>1, Zenon DEF RefreshDetectRules, GetNodeRule, TagIsInForce
  <2>2. CASE UNCHANGED <<ruleTag, detectRules>>
    BY <2>2, Zenon DEF TagIsInForce
  <2> QED
    BY <2>1, <2>2, Zenon DEF Next, UserInfoMonitor, DrainHits, DrainDetectResults, ReportHits,
       RetryIllegal, ReportIllegal, FetchRules, KeepRules, Audited, PanelChanges, Tick,
       MatchAudit, ruleVars, auditVars, vars
<1> QED
  BY <1>1, <1>2, PTL DEF Spec

=============================================================================
