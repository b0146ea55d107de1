----------------------------- MODULE UserMonitor -----------------------------
(***************************************************************************)
(* The user monitor with what it drains besides the traffic counters:      *)
(* after the online addresses (OnlineIPs) come the audit hits (Audit), in  *)
(* one tick of userInfoMonitor.  Connections, the node monitor and the     *)
(* panel go on meanwhile.                                                  *)
(***************************************************************************)
EXTENDS OnlineIPs, Audit

vars == <<onlineVars, auditVars>>

Init == OnlineInit /\ AuditInit

AtAudit(from, to) ==
  /\ mon.state = from
  /\ mon' = [mon EXCEPT !.state = to]
  /\ onlineUsers' = [u \in UID |-> {}]
  /\ UNCHANGED <<tableVars, conn, LastReportOnline, alive, others, syncVars>>

\* The end of a tick: drain the hits, and report them if there are any.
DrainHits ==
  /\ AtAudit("audit", IF detectResults = None THEN "idle" ELSE "illegal")
  /\ DrainDetectResults

ReportHits == \/ AtAudit("illegal", "illegal") /\ RetryIllegal
              \/ AtAudit("illegal", "idle") /\ ReportIllegal

UserInfoMonitor == \/ Monitor /\ UNCHANGED auditVars
                   \/ DrainHits \/ ReportHits

\* The node monitor comes to the rules only when its syncUserList returned
\* without an error.
AfterSync ==
  /\ sync = "rules"
  /\ sync' = "idle"
  /\ UNCHANGED <<users, uidOf, aliveIP, list, syncs, tableVars, conn, monVars, others>>

FetchRules == AfterSync /\ RefreshDetectRules

\* 304, or an error: the rules and their ETag stay.
KeepRules == AfterSync /\ UNCHANGED auditVars

Next ==
  \/ UserInfoMonitor \/ FetchRules \/ KeepRules
  \/ (Panel \/ Sync \/ \E k \in Conn : Connection(k)) /\ UNCHANGED auditVars
  \/ Audited /\ UNCHANGED onlineVars

Spec == Init /\ [][Next]_vars

\* The user monitor is run again and again (Periodic!KeepsTicking) and its
\* requests end: the client has a timeout.  The request for the rules does not
\* fail for ever.
FairSpec == Spec /\ WF_vars(UserInfoMonitor) /\ SF_vars(FetchRules)

-----------------------------------------------------------------------------
TypeOK ==
  /\ users \in [UID -> Meter \cup {nil}] /\ uidOf \in [Meter -> UID \cup {nil}]
  /\ ipTable \in [Meter -> SUBSET IP]
  /\ ipNum \in [Meter -> Int] /\ maxIPNum \in [Meter -> Nat]
  /\ active \in [Meter -> BOOLEAN]
  /\ conn \in [Conn -> [state : {"idle", "check", "store", "count", "open"},
                        meter : Meter \cup {nil}, ip : IP \cup {nil}]]
  /\ mon \in [state : {"idle", "users", "range", "minus", "post", "audit", "illegal"},
              todo : SUBSET Meter, meter : Meter \cup {nil},
              due : SUBSET IP, visited : SUBSET IP]
  /\ onlineUsers \in [UID -> SUBSET IP]
  /\ LastReportOnline \in [UID -> Nat]
  /\ alive \in [UID -> SUBSET IP] /\ others \in [UID -> Nat]
  /\ sync \in {"idle", "pending", "parse", "apply", "delta", "rules"}
  /\ aliveIP \in [UID -> Nat] /\ list \in [UID -> Int]
  /\ panelRules \in Version /\ ruleTag \in Version /\ detectRules \in Version
  /\ clock \in Nat /\ detectDedup \in [Key -> Nat] /\ lastHit \in [Key -> Nat]
  /\ detectResults \in [Key -> Nat] /\ reporting \in [Key -> Nat]
  /\ hits \in [Key -> Nat] /\ sent \in [Key -> Nat] /\ told \in [Key -> Nat]
  /\ tries \in 0 .. RetryCount

\* Connections that have stored their address and not yet counted it.
Counting(m) == {k \in Conn : conn[k].state = "count" /\ conn[k].meter = m}
Uncounting(m) == IF mon.state = "minus" /\ mon.meter = m THEN 1 ELSE 0

\* ipNum, which AddIP checks the limit with, is never below the number of
\* addresses in the table, calls under way taken into account: no order of
\* AddIP and ResetIPTable admits an address through an undercount.  (It may
\* be above for good: two calls that store the same address count it twice.)
IPNumCovers ==
  \A m \in Meter :
    Cardinality(ipTable[m]) <= ipNum[m] + Cardinality(Counting(m)) - Uncounting(m)

\* The claim of Config.EnableDeviceLimit: "a user connecting from more than
\* DeviceLimit unique source IPs has further connections rejected".
DeviceLimitHolds ==
  \A m \in Meter :
    maxIPNum[m] > 0 =>
      Cardinality({conn[k].ip : k \in {j \in Conn : conn[j].state = "open"
                                                    /\ conn[j].meter = m}}) <= maxIPNum[m]

\* A list without the user is being applied, or could not be and is kept.
Leaving(u) == sync \in {"delta", "pending"} /\ list[u] = Dropped

\* An address in the table of a user who moved bytes is listed for the next
\* report, unless a list without the user comes first: dumpTrafficForDeleted
\* then takes the bytes that would have brought the monitor to the table, also
\* of a user who stays because the runtime refused the list.
OnlineReported ==
  \A u \in UID, ip \in IP :
    (users[u] # nil /\ active[users[u]] /\ ip \in ipTable[users[u]])
      ~> (users[u] = nil \/ Leaving(u) \/ ip \in onlineUsers[u])

\* When the report that LastReportOnline stands for and the list that is
\* parsed agree on this node's devices, the list leaves to this node what the
\* other nodes do not use; when they use up the limit it leaves the devices
\* that are here already, and drops the user only if there are none.
ShareOfLimit ==
  [][\A u \in UID :
       LET ours == Cardinality(alive[u]) IN
       /\ sync = "parse" /\ sync' = "apply"
       /\ DeviceLimit > 0
       /\ LastReportOnline[u] = ours
       /\ aliveIP[u] = others[u] + ours
       => /\ others[u] < DeviceLimit => list'[u] = DeviceLimit - others[u]
          /\ others[u] >= DeviceLimit => list'[u] = IF ours > 0 THEN ours ELSE Dropped]_vars

\* Two hits of one key are recorded at least detectDedupTTL apart, however
\* often the map is pruned in between.
RecordedApart ==
  [][\A k \in Key : lastHit'[k] # lastHit[k] /\ lastHit[k] > 0
                      => lastHit'[k] >= lastHit[k] + TTL]_vars

\* Every recorded hit is in a report that ends, however many hits are recorded
\* meanwhile: a report takes all that are waiting, and one that fails is not
\* waited for.  And whatever the panel served in between, rules that it goes on
\* serving and that compile come into force as long as user syncs go on to
\* succeed: an answer that does not compile leaves the list in force and its
\* ETag as they are.
AuditKeepsUp ==
  /\ \A k \in Key, n \in 1 .. MaxHits : hits[k] >= n ~> sent[k] >= n
  /\ []<>(sync = "rules") => []<>(panelRules \in Broken \cup {detectRules})
=============================================================================
