----------------------------- MODULE UserTraffic -----------------------------
(***************************************************************************)
(* Traffic accounting: from the bytes that a connection moves to the       *)
(* panel's ledger.  Many goroutines meet on the counters of a User:        *)
(*   - connections that RoutedConnection wrapped add to them at any time;  *)
(*   - the user monitor (process "monitor": userInfoMonitor) drains the    *)
(*     counters of all users and reports them;                             *)
(*   - the node monitor (process "sync": syncUserList) drains those of     *)
(*     deleted users, removes these users and adds the new ones.           *)
(*                                                                         *)
(* Bytes are chunks, each moved at most once, so a counter is the set of   *)
(* the chunks it has counted: adding is a union, Swap(0) takes the set.    *)
(* The chunks in Up are counted by `sent', the others by `recv'.  A meter  *)
(* is one User object; a user who is deleted and added again gets another. *)
(***************************************************************************)
EXTENDS Naturals, FiniteSets

CONSTANTS
  UID, Meter, Conn, Chunk,
  Up,                    \* chunks that count as upload
  nil,
  RetryCount,            \* client.SetRetryCount
  ResetAfterProcessing,  \* can a connection break after the panel processed?
  MaxSyncs               \* bound: user lists that the panel serves

ASSUME TrafficAssumption ==
  /\ Up \subseteq Chunk
  /\ nil \notin UID \cup Meter
  /\ RetryCount \in Nat
  /\ ResetAfterProcessing \in BOOLEAN
  /\ MaxSyncs \in Nat

VARIABLES
  users,     \* Authenticator.users: the meter of every user
  uidOf,     \* User.UID of every meter; nil: not allocated yet
  counter,   \* User.sent and User.recv of every meter
  runtime,   \* users that the inbound authenticates
  usersMap,  \* Controller.usersMap
  next,      \* the user list that syncUserList is applying
  conn,      \* every connection: nil, authenticated, or routed
  pc, todo, meter,  \* of both processes: where it is, what is left of its
                    \* loop, and the user it is draining
  batch,     \* of both processes: the record of every user to report
  tries,     \* of both processes: attempts of the current report
  usedBy, counted, charges, discarded,  \* history: who moved a chunk, was it
                    \* counted, charged (by the panel) or given up (by us)
  syncs

authorVars == <<users, uidOf, runtime, usersMap, next, syncs>>
procVars   == <<pc, todo, meter, batch, tries>>
vars == <<authorVars, counter, conn, procVars, usedBy, counted, charges, discarded>>

Process == {"monitor", "sync"}
NoRecords == [u \in UID |-> {}]
Deleted == usersMap \ next
Added   == next \ usersMap

\* A wrapped connection adds to a meter; a raw one has none.
Idle == [state |-> "idle", uid |-> nil, meter |-> nil]

Init ==
  /\ users = [u \in UID |-> nil]
  /\ uidOf = [m \in Meter |-> nil]
  /\ counter = [m \in Meter |-> {}]
  /\ runtime = {} /\ usersMap = {} /\ next = {}
  /\ conn = [k \in Conn |-> Idle]
  /\ pc = [p \in Process |-> "idle"]
  /\ todo = [p \in Process |-> {}]
  /\ meter = [p \in Process |-> nil]
  /\ batch = [p \in Process |-> NoRecords]
  /\ tries = [p \in Process |-> 0]
  /\ usedBy = [c \in Chunk |-> nil]
  /\ counted = {}
  /\ charges = [c \in Chunk |-> [u \in UID |-> 0]]
  /\ discarded = {}
  /\ syncs = 0

-----------------------------------------------------------------------------
(* Connections. *)

\* The inbound's handshake accepts a user and names them in the metadata.
Authenticate(k, u) ==
  /\ conn[k].state = "idle"
  /\ u \in runtime
  /\ conn' = [conn EXCEPT ![k] = [state |-> "authenticated", uid |-> u, meter |-> nil]]
  /\ UNCHANGED <<authorVars, counter, procVars, usedBy, counted, charges, discarded>>

\* RoutedConnection: the counters that LoadOrCreateUserCounter finds stay
\* with the connection; where it finds none, the connection stays raw.
RoutedConnection(k) ==
  /\ conn[k].state = "authenticated"
  /\ conn' = [conn EXCEPT ![k] = [state |-> "routed", uid |-> conn[k].uid,
                                  meter |-> users[conn[k].uid]]]
  /\ UNCHANGED <<authorVars, counter, procVars, usedBy, counted, charges, discarded>>

\* A Read or a Write moves a chunk.
Transfer(k, c) ==
  /\ conn[k].state = "routed"
  /\ usedBy[c] = nil
  /\ usedBy' = [usedBy EXCEPT ![c] = conn[k].uid]
  /\ IF conn[k].meter = nil
       THEN UNCHANGED <<counter, counted>>
       ELSE /\ counter' = [counter EXCEPT ![conn[k].meter] = @ \cup {c}]
            /\ counted' = counted \cup {c}
  /\ UNCHANGED <<authorVars, conn, procVars, charges, discarded>>

CloseConn(k) ==
  /\ conn[k].state = "routed"
  /\ conn' = [conn EXCEPT ![k] = Idle]
  /\ UNCHANGED <<authorVars, counter, procVars, usedBy, counted, charges, discarded>>

-----------------------------------------------------------------------------
(* Draining and reporting, the same in userInfoMonitor and in                *)
(* dumpTrafficForDeleted.                                                    *)

Goto(p, l) == pc' = [pc EXCEPT ![p] = l]

\* Where a process goes on after its report.
Reported(p) == IF p = "monitor" THEN "idle" ELSE "remove"

\* userInfoMonitor: the meters of all users, as ListUsers finds them.
ListUsers ==
  /\ pc["monitor"] = "idle"
  /\ Goto("monitor", "drain")
  /\ todo' = [todo EXCEPT !["monitor"] = {users[u] : u \in UID} \ {nil}]
  /\ UNCHANGED <<authorVars, counter, conn, meter, batch, tries, usedBy, counted,
                 charges, discarded>>

\* One of the Swap(0) of ResetTraffic: move a part of the counter of m into
\* the records of p.
Swap(p, m, part) ==
  /\ batch' = [batch EXCEPT ![p] =
       [@ EXCEPT ![uidOf[m]] = batch[p][uidOf[m]] \cup (counter[m] \cap part)]]
  /\ counter' = [counter EXCEPT ![m] = @ \ part]
  /\ UNCHANGED <<authorVars, conn, tries, usedBy, counted, charges, discarded>>

\* A bug: the counter is read and then set to zero, without the Swap.
SwapSentLoad(p) ==
  /\ pc[p] = "drain"
  /\ \E m \in todo[p] :
       /\ batch' = [batch EXCEPT ![p][uidOf[m]] = @ \cup (counter[m] \cap Up)]
       /\ meter' = [meter EXCEPT ![p] = m]
  /\ Goto(p, "recv")
  /\ UNCHANGED <<authorVars, counter, conn, todo, tries, usedBy, counted, charges,
                 discarded>>

\* ResetTraffic of one of the users, the sent half ...
SwapSent(p) ==
  /\ pc[p] = "drain"
  /\ \E m \in todo[p] : /\ Swap(p, m, Up)
                        /\ meter' = [meter EXCEPT ![p] = m]
  /\ Goto(p, "recv")
  /\ UNCHANGED todo

\* A bug: the download counter is zeroed and not put into the record.
SwapRecvDropped(p) ==
  /\ pc[p] = "recv"
  /\ counter' = [counter EXCEPT ![meter[p]] = {}]
  /\ todo' = [todo EXCEPT ![p] = @ \ {meter[p]}]
  /\ Goto(p, "drain")
  /\ UNCHANGED <<authorVars, conn, meter, batch, tries, usedBy, counted, charges,
                 discarded>>

\* ... and the received one.
SwapRecv(p) ==
  /\ pc[p] = "recv"
  /\ Swap(p, meter[p], Chunk \ Up)
  /\ todo' = [todo EXCEPT ![p] = @ \ {meter[p]}]
  /\ Goto(p, "drain")
  /\ UNCHANGED meter

\* Nothing to report is not reported.
Drained(p) ==
  /\ pc[p] = "drain"
  /\ todo[p] = {}
  /\ Goto(p, IF batch[p] = NoRecords THEN Reported(p) ELSE "post")
  /\ UNCHANGED <<authorVars, counter, conn, todo, meter, batch, tries, usedBy,
                 counted, charges, discarded>>

ChunksOf(p) == UNION {batch[p][u] : u \in UID}

\* The panel adds the records of p to its ledger.
PanelAdds(p) ==
  charges' = [c \in Chunk |-> [u \in UID |->
                IF c \in batch[p][u] THEN charges[c][u] + 1 ELSE charges[c][u]]]

\* ReportUserTraffic returns; the records are forgotten either way.
PostReturns(p) ==
  /\ batch' = [batch EXCEPT ![p] = NoRecords]
  /\ tries' = [tries EXCEPT ![p] = 0]
  /\ Goto(p, Reported(p))

\* The panel processed the report and said so.
PostOk(p) ==
  /\ pc[p] = "post"
  /\ PanelAdds(p)
  /\ PostReturns(p)
  /\ UNCHANGED <<authorVars, counter, conn, todo, meter, usedBy, counted, discarded>>

\* A bug, the one that userInfoMonitor's comment tells of: the bytes of a
\* failed report go back to the counters.
PostTimeoutRestored(p) ==
  /\ pc[p] = "post"
  /\ PanelAdds(p) \/ UNCHANGED charges
  /\ PostReturns(p)
  /\ counter' = [m \in Meter |->
                   IF uidOf[m] # nil /\ users[uidOf[m]] = m
                     THEN counter[m] \cup batch[p][uidOf[m]]
                     ELSE counter[m]]
  /\ UNCHANGED <<authorVars, conn, todo, meter, usedBy, counted, discarded>>

\* A timeout, or an answer that parseResponse refuses: the panel may have
\* processed the report, and it is not sent again.
PostTimeout(p) ==
  /\ pc[p] = "post"
  /\ PanelAdds(p) \/ UNCHANGED charges
  /\ PostReturns(p)
  /\ discarded' = discarded \cup ChunksOf(p)
  /\ UNCHANGED <<authorVars, counter, conn, todo, meter, usedBy, counted>>

\* Any other error of the connection: the retry condition sends the report
\* again, at most RetryCount times.
PostConnError(p) ==
  /\ pc[p] = "post"
  /\ \/ UNCHANGED charges
     \/ ResetAfterProcessing /\ PanelAdds(p)
  /\ IF tries[p] < RetryCount
       THEN /\ tries' = [tries EXCEPT ![p] = @ + 1]
            /\ UNCHANGED <<pc, batch, discarded>>
       ELSE /\ PostReturns(p)
            /\ discarded' = discarded \cup ChunksOf(p)
  /\ UNCHANGED <<authorVars, counter, conn, todo, meter, usedBy, counted>>

-----------------------------------------------------------------------------
(* The rest of syncUserList. *)

Unused == {m \in Meter : uidOf[m] = nil}

\* GetUserList returned list l: dump the traffic of the users it lacks.
SyncUserList(l) ==
  /\ pc["sync"] = "idle"
  /\ syncs < MaxSyncs
  /\ Cardinality(l \ usersMap) <= Cardinality(Unused)
  /\ syncs' = syncs + 1
  /\ next' = l
  /\ todo' = [todo EXCEPT !["sync"] = {users[u] : u \in usersMap \ l} \ {nil}]
  /\ Goto("sync", "drain")
  /\ UNCHANGED <<users, uidOf, runtime, usersMap, counter, conn, meter, batch, tries,
                 usedBy, counted, charges, discarded>>

SyncStep(from, to) ==
  /\ pc["sync"] = from
  /\ Goto("sync", to)
  /\ UNCHANGED <<syncs, next, conn, todo, batch, tries, usedBy, counted, charges>>

RemoveUsers ==
  /\ SyncStep("remove", "add")
  /\ runtime' = runtime \ Deleted
  /\ UNCHANGED <<users, uidOf, usersMap, counter, meter, discarded>>

AddUsers ==
  /\ SyncStep("add", "commit")
  /\ runtime' = runtime \cup Added
  /\ UNCHANGED <<users, uidOf, usersMap, counter, meter, discarded>>

\* The runtime refuses a part of the delta: try again with the next list.
RuntimeError ==
  /\ SyncStep("remove", "idle") \/ SyncStep("add", "idle")
  /\ UNCHANGED <<runtime, users, uidOf, usersMap, counter, meter, discarded>>

\* One of the Swap(0) of User.Close: what was counted since the dump is lost.
Discard(m, part) ==
  /\ counter' = [counter EXCEPT ![m] = @ \ part]
  /\ discarded' = discarded \cup (counter[m] \cap part)
  /\ UNCHANGED <<users, uidOf, runtime, usersMap>>

Leaving(u) == u \in Deleted /\ users[u] # nil

\* DelUser: Close resets the one counter ...
CloseSent(u) ==
  /\ SyncStep("commit", "close")
  /\ Leaving(u)
  /\ meter' = [meter EXCEPT !["sync"] = users[u]]
  /\ Discard(users[u], Up)

\* ... and the other, and only then is the user out of the table.
CloseRecv(u) ==
  /\ SyncStep("close", "delete")
  /\ Leaving(u) /\ users[u] = meter["sync"]
  /\ Discard(users[u], Chunk \ Up)
  /\ UNCHANGED meter

DeleteUser(u) ==
  /\ SyncStep("delete", "commit")
  /\ Leaving(u) /\ users[u] = meter["sync"]
  /\ users' = [users EXCEPT ![u] = nil]
  /\ UNCHANGED <<uidOf, runtime, usersMap, counter, meter, discarded>>

DelUser(u) == CloseSent(u) \/ CloseRecv(u) \/ DeleteUser(u)

\* AddUser, after every DelUser: a new meter.
AddUser(u) ==
  /\ SyncStep("commit", "commit")
  /\ \A d \in Deleted : users[d] = nil
  /\ u \in Added /\ users[u] = nil
  /\ \E m \in Unused : /\ uidOf' = [uidOf EXCEPT ![m] = u]
                       /\ users' = [users EXCEPT ![u] = m]
  /\ UNCHANGED <<runtime, usersMap, counter, meter, discarded>>

\* A bug: the map is committed before the new users have their meters.
CommitMapEarly ==
  /\ SyncStep("commit", "idle")
  /\ \A d \in Deleted : users[d] = nil
  /\ usersMap' = next
  /\ UNCHANGED <<users, uidOf, runtime, counter, meter, discarded>>

\* The new list becomes usersMap once every meter is in place.
CommitMap ==
  /\ SyncStep("commit", "idle")
  /\ \A d \in Deleted : users[d] = nil
  /\ \A u \in Added : users[u] # nil
  /\ usersMap' = next
  /\ UNCHANGED <<users, uidOf, runtime, counter, meter, discarded>>

-----------------------------------------------------------------------------
Report(p) == \/ SwapSent(p) \/ SwapRecv(p) \/ Drained(p)
             \/ PostOk(p) \/ PostTimeout(p) \/ PostConnError(p)

UserMonitor == ListUsers \/ Report("monitor")

Sync == \/ Report("sync")
        \/ RemoveUsers \/ AddUsers \/ RuntimeError \/ CommitMap
        \/ \E u \in UID : DelUser(u) \/ AddUser(u)

Connection(k) == \/ \E u \in UID : Authenticate(k, u)
                 \/ RoutedConnection(k) \/ CloseConn(k)
                 \/ \E c \in Chunk : Transfer(k, c)

Next == \/ UserMonitor
        \/ Sync
        \/ \E l \in SUBSET UID : SyncUserList(l)
        \/ \E k \in Conn : Connection(k)

Spec == Init /\ [][Next]_vars

\* The user monitor is run again and again (Periodic!KeepsTicking), what
\* syncUserList began it ends, and a POST returns: the client has a timeout.
FairSpec == Spec /\ WF_vars(UserMonitor) /\ WF_vars(Sync)

-----------------------------------------------------------------------------
TypeOK ==
  /\ users \in [UID -> Meter \cup {nil}]
  /\ uidOf \in [Meter -> UID \cup {nil}]
  /\ counter \in [Meter -> SUBSET Chunk]
  /\ runtime \subseteq UID /\ usersMap \subseteq UID /\ next \subseteq UID
  /\ conn \in [Conn -> [state : {"idle", "authenticated", "routed"},
                        uid : UID \cup {nil}, meter : Meter \cup {nil}]]
  /\ pc \in [Process -> {"idle", "drain", "recv", "post", "remove", "add", "commit",
                       "close", "delete"}]
  /\ todo \in [Process -> SUBSET Meter]
  /\ meter \in [Process -> Meter \cup {nil}]
  /\ batch \in [Process -> [UID -> SUBSET Chunk]]
  /\ tries \in [Process -> 0 .. RetryCount]
  /\ usedBy \in [Chunk -> UID \cup {nil}]
  /\ counted \subseteq Chunk
  /\ charges \in [Chunk -> [UID -> Nat]]
  /\ discarded \subseteq Chunk
  /\ syncs \in 0 .. MaxSyncs

Charged(c) == \E u \in UID : charges[c][u] > 0

\* A counted chunk is on its way in exactly one place: in the counter of one
\* meter of the user who moved it, or in the records of one process, under
\* that user; or its way has ended, charged or discarded.
InOnePlace ==
  /\ \A m, n \in Meter : m # n => counter[m] \cap counter[n] = {}
  /\ \A m \in Meter, p \in Process : counter[m] \cap ChunksOf(p) = {}
  /\ ChunksOf("monitor") \cap ChunksOf("sync") = {}
  /\ \A m \in Meter, c \in Chunk :
       c \in counter[m] => ~Charged(c) /\ c \notin discarded /\ usedBy[c] = uidOf[m]
  /\ \A p \in Process, u \in UID, c \in Chunk :
       c \in batch[p][u] => c \notin discarded /\ usedBy[c] = u
  /\ \A c \in counted : \/ \E m \in Meter : c \in counter[m]
                        \/ \E p \in Process : c \in ChunksOf(p)
                        \/ Charged(c) \/ c \in discarded

\* The panel charges every chunk at most once, and the user who moved it,
\* provided that a connection does not break after the panel processed.
Ledger == INSTANCE BillingLedger
LedgerSpec == Ledger!Spec

\* The claim of New's comment on the retry condition: what is sent again was
\* not processed, so no delta is counted "multiple times".
ChargedOnce == \A c \in Chunk, u \in UID : charges[c][u] <= 1

\* A connection stays without counters only if its user is being added or
\* deleted, or was deleted since the handshake.
RawOnlyWhileChanging ==
  [][\A k \in Conn :
       conn'[k].state = "routed" /\ conn[k].state # "routed" /\ conn'[k].meter = nil
         => conn[k].uid \notin usersMap \cap next]_vars

\* The meters that ListUsers finds.
Registered == {users[u] : u \in UID} \ {nil}

\* Every counted chunk is charged in the end, unless it was in a report that
\* failed or its user was deleted: DelUser discards it, or the meter that
\* counted it is nobody's any more.
CountedIsCharged ==
  \A c \in Chunk :
    c \in counted ~> \/ Charged(c)
                     \/ c \in discarded
                     \/ \E m \in Meter \ Registered : c \in counter[m]

=============================================================================
