-------------------------- MODULE UserTrafficProofs --------------------------
(***************************************************************************)
(* Traffic accounting implements the billing ledger: for any numbers of    *)
(* users, connections and chunks, and whatever reports fail, no chunk is   *)
(* charged twice or to somebody else, as long as a connection cannot break *)
(* after the panel has processed a report. No process keeps a chunk back   *)
(* between its reports, and none is given up without a cause.              *)
(***************************************************************************)
EXTENDS UserTraffic, TLAPS

\* The references to a meter agree on whose it is.
MetersOwned ==
  /\ \A u \in UID : users[u] # nil => uidOf[users[u]] = u
  /\ \A k \in Conn : /\ conn[k].state # "idle" => conn[k].uid # nil
                     /\ conn[k].meter # nil => /\ conn[k].state # "idle"
                                               /\ uidOf[conn[k].meter] = conn[k].uid
  /\ \A p \in Process, m \in Meter : m \in todo[p] => uidOf[m] # nil
  /\ \A p \in Process : pc[p] = "recv" => meter[p] # nil /\ uidOf[meter[p]] # nil

Uncharged(c) == \A u \in UID : charges[c][u] = 0

\* Where a chunk can be, by its members instead of by sets.
CounterOwned ==
  \A m \in Meter, c \in Chunk :
    c \in counter[m] => /\ usedBy[c] = uidOf[m] /\ uidOf[m] # nil
                        /\ c \notin discarded /\ Uncharged(c)

BatchOwned ==
  \A p \in Process, u \in UID, c \in Chunk :
    c \in batch[p][u] => usedBy[c] = u /\ c \notin discarded /\ Uncharged(c)

Disjoint ==
  /\ \A m, n \in Meter, c \in Chunk : c \in counter[m] /\ c \in counter[n] => m = n
  /\ \A m \in Meter, p \in Process, u \in UID, c \in Chunk :
       ~(c \in counter[m] /\ c \in batch[p][u])
  /\ \A p, q \in Process, u, v \in UID, c \in Chunk :
       c \in batch[p][u] /\ c \in batch[q][v] => p = q

Fresh ==
  \A c \in Chunk : usedBy[c] = nil => /\ Uncharged(c) /\ c \notin discarded
                                      /\ c \notin counted

Covered ==
  \A c \in counted : \/ \E m \in Meter : c \in counter[m]
                     \/ \E p \in Process, u \in UID : c \in batch[p][u]
                     \/ ~Uncharged(c) \/ c \in discarded

IInv ==
  /\ TypeOK /\ MetersOwned
  /\ CounterOwned /\ BatchOwned /\ Disjoint /\ Fresh /\ Covered

\* The initial state satisfies the invariant.
LEMMA InitIInv == Init => IInv
<1> SUFFICES ASSUME Init PROVE IInv
  OBVIOUS
<1> USE TrafficAssumption DEF Init, Idle, NoRecords
<1>1. TypeOK
  BY DEF TypeOK
<1>2. MetersOwned
  BY DEF MetersOwned
<1>3. CounterOwned /\ BatchOwned /\ Disjoint /\ Fresh /\ Covered
  BY DEF CounterOwned, BatchOwned, Disjoint, Fresh, Covered, Uncharged
<1> QED
  BY <1>1, <1>2, <1>3 DEF IInv

\* A Swap(0) moves chunks from a counter into the records of its user.
LEMMA SwapPlaces ==
  ASSUME IInv, NEW p \in Process, NEW m \in Meter, uidOf[m] # nil, NEW part,
         Swap(p, m, part)
  PROVE  /\ counter' \in [Meter -> SUBSET Chunk]
         /\ batch' \in [Process -> [UID -> SUBSET Chunk]]
         /\ CounterOwned' /\ BatchOwned' /\ Disjoint' /\ Fresh' /\ Covered'
<1> USE DEF IInv, authorVars
<1>1. uidOf[m] \in UID
  BY DEF TypeOK
<1>2. counter' = [counter EXCEPT ![m] = @ \ part]
  BY DEF Swap
<1>3. UNCHANGED <<uidOf, usedBy, counted, charges, discarded>>
  BY DEF Swap
<1>4. counter' \in [Meter -> SUBSET Chunk]
  BY <1>2 DEF TypeOK
<1> DEFINE R == [batch[p] EXCEPT ![uidOf[m]] = batch[p][uidOf[m]] \cup (counter[m] \cap part)]
<1>5. R \in [UID -> SUBSET Chunk]
  BY <1>1 DEF TypeOK
<1>6. batch' = [batch EXCEPT ![p] = R]
  BY DEF Swap
<1>7. /\ R[uidOf[m]] = batch[p][uidOf[m]] \cup (counter[m] \cap part)
      /\ \A u \in UID : u # uidOf[m] => R[u] = batch[p][u]
  BY <1>1 DEF TypeOK
<1> HIDE DEF R
<1>8. batch'[p] = R /\ \A q \in Process : q # p => batch'[q] = batch[q]
  BY <1>6 DEF TypeOK
<1>9. batch' \in [Process -> [UID -> SUBSET Chunk]]
  BY <1>5, <1>6 DEF TypeOK
<1>10. \A n \in Meter, c \in Chunk :
        c \in counter'[n] <=> c \in counter[n] /\ ~(n = m /\ c \in part)
  BY <1>2 DEF TypeOK
<1>11. \A q \in Process, u \in UID, c \in Chunk :
        c \in batch'[q][u] <=>
          c \in batch[q][u] \/ (q = p /\ u = uidOf[m] /\ c \in counter[m] \cap part)
  BY <1>1, <1>7, <1>8 DEF TypeOK
<1>12. CounterOwned' /\ BatchOwned'
  BY <1>3, <1>10, <1>11 DEF CounterOwned, BatchOwned, Uncharged
<1>13. Disjoint'
  BY <1>10, <1>11 DEF Disjoint
<1>14. Fresh'
  BY <1>3 DEF Fresh, Uncharged
<1>15. Covered'
  <2> SUFFICES ASSUME NEW c \in counted', Uncharged(c)', c \notin discarded',
                      \A n \in Meter : c \notin counter'[n]
               PROVE  \E q \in Process, u \in UID : c \in batch'[q][u]
    BY DEF Covered
  <2>1. c \in counted /\ c \in Chunk /\ Uncharged(c) /\ c \notin discarded
    BY <1>3 DEF Uncharged, TypeOK
  <2>2. CASE c \in counter[m] /\ c \in part
    BY <1>1, <1>11, <2>1, <2>2
  <2>3. CASE ~(c \in counter[m] /\ c \in part)
    <3>1. \A n \in Meter : c \notin counter[n]
      BY <1>10, <2>1, <2>3
    <3>2. PICK q \in Process, u \in UID : c \in batch[q][u]
      BY <2>1, <3>1 DEF Covered
    <3> QED
      BY <1>11, <2>1, <3>2
  <2> QED
    BY <2>2, <2>3
<1> QED
  BY <1>4, <1>9, <1>12, <1>13, <1>14, <1>15

\* A report that returns, whatever the panel did with it, ends the way of
\* the chunks in it.
LEMMA PostPlaces ==
  ASSUME IInv, NEW p \in Process,
         \/ PanelAdds(p) /\ discarded' \in {discarded, discarded \cup ChunksOf(p)}
         \/ UNCHANGED charges /\ discarded' = discarded \cup ChunksOf(p),
         batch' = [batch EXCEPT ![p] = NoRecords],
         UNCHANGED <<counter, uidOf, usedBy, counted>>
  PROVE  /\ discarded' \subseteq Chunk
         /\ charges' \in [Chunk -> [UID -> Nat]]
         /\ CounterOwned' /\ BatchOwned' /\ Disjoint' /\ Fresh' /\ Covered'
<1> USE DEF IInv
<1>1. \A q \in Process, u \in UID, c \in Chunk :
        c \in batch'[q][u] <=> q # p /\ c \in batch[q][u]
  BY DEF TypeOK, NoRecords
<1>2. /\ ChunksOf(p) \subseteq Chunk
      /\ \A c : c \in ChunksOf(p) <=> \E u \in UID : c \in batch[p][u]
  BY DEF ChunksOf, TypeOK
<1>3. charges' \in [Chunk -> [UID -> Nat]]
  <2>1. charges \in [Chunk -> [UID -> Nat]]
    BY DEF TypeOK
  <2>2. \A c \in Chunk, u \in UID :
          (IF c \in batch[p][u] THEN charges[c][u] + 1 ELSE charges[c][u]) \in Nat
    BY <2>1
  <2>3. CASE PanelAdds(p)
    BY <2>2, <2>3, Zenon DEF PanelAdds
  <2> QED
    BY <2>1, <2>3, Zenon
<1>4. \A c \in Chunk : (\A u \in UID : c \notin batch[p][u]) =>
        /\ Uncharged(c)' <=> Uncharged(c)
        /\ c \in discarded' <=> c \in discarded
  BY <1>2 DEF PanelAdds, Uncharged, TypeOK
<1>5. \A c \in Chunk, u \in UID : c \in batch[p][u] =>
        ~Uncharged(c)' \/ c \in discarded'
  BY <1>2 DEF PanelAdds, Uncharged, TypeOK
<1>6. CounterOwned'
  BY <1>4 DEF CounterOwned, Disjoint
<1>7. BatchOwned'
  BY <1>1, <1>4 DEF BatchOwned, Disjoint
<1>8. Disjoint'
  BY <1>1 DEF Disjoint
<1>9. Fresh'
  BY <1>4, TrafficAssumption DEF Fresh, BatchOwned
<1>10. Covered'
  BY <1>1, <1>4, <1>5, Zenon DEF Covered, TypeOK
<1> QED
  BY <1>2, <1>3, <1>6, <1>7, <1>8, <1>9, <1>10 DEF TypeOK

\* A step that moves no chunk and takes no meter away from its user leaves
\* every chunk where it is.
LEMMA PlacesKept ==
  ASSUME IInv,
         UNCHANGED <<counter, batch, usedBy, counted, charges, discarded>>,
         \A m \in Meter : uidOf[m] # nil => uidOf'[m] = uidOf[m]
  PROVE  CounterOwned' /\ BatchOwned' /\ Disjoint' /\ Fresh' /\ Covered'
<1>1. CounterOwned /\ BatchOwned /\ Disjoint /\ Fresh /\ Covered
  BY DEF IInv
<1>2. \A c : Uncharged(c)' <=> Uncharged(c)
  BY DEF Uncharged
<1>3. CounterOwned'
  BY <1>1, <1>2 DEF CounterOwned
<1>4. BatchOwned'
  BY <1>1, <1>2 DEF BatchOwned
<1>5. Disjoint'
  BY <1>1 DEF Disjoint
<1>6. Fresh'
  BY <1>1, <1>2 DEF Fresh
<1>7. Covered'
  BY <1>1, <1>2 DEF Covered
<1> QED
  BY <1>3, <1>4, <1>5, <1>6, <1>7

\* A Swap(0) of User.Close takes chunks from a counter and gives them up.
LEMMA DiscardPlaces ==
  ASSUME IInv, NEW m \in Meter, NEW part, Discard(m, part),
         UNCHANGED <<batch, usedBy, counted, charges>>
  PROVE  CounterOwned' /\ BatchOwned' /\ Disjoint' /\ Fresh' /\ Covered'
<1>1. \A n \in Meter, c \in Chunk :
        c \in counter'[n] <=> c \in counter[n] /\ ~(n = m /\ c \in part)
  BY DEF Discard, IInv, TypeOK
<1>2. \A c : c \in discarded' <=> c \in discarded \/ (c \in counter[m] /\ c \in part)
  BY Zenon DEF Discard
<1>3. (\A c : Uncharged(c)' <=> Uncharged(c)) /\ uidOf' = uidOf
  BY Zenon DEF Discard, Uncharged
<1>4. CounterOwned /\ BatchOwned /\ Disjoint /\ Fresh /\ Covered
  BY DEF IInv
<1>5. CounterOwned'
  BY <1>1, <1>2, <1>3, <1>4 DEF CounterOwned, Disjoint
<1>6. BatchOwned'
  BY <1>2, <1>3, <1>4 DEF BatchOwned, Disjoint
<1>7. Disjoint'
  BY <1>1, <1>4, Zenon DEF Disjoint
<1>8. Fresh'
  BY <1>2, <1>3, <1>4, TrafficAssumption DEF Fresh, CounterOwned
<1>9. Covered'
  <2>1. counted \subseteq Chunk
    BY DEF IInv, TypeOK
  <2> QED
    BY <1>1, <1>2, <1>3, <1>4, <2>1 DEF Covered
<1> QED
  BY <1>5, <1>6, <1>7, <1>8, <1>9

\* Every step of every goroutine preserves the invariant.
LEMMA NextIInv ==
  ASSUME ~ResetAfterProcessing, IInv
  PROVE  [Next]_vars => IInv'
<1> USE TrafficAssumption DEF IInv, Process, authorVars, procVars
<1>1. ASSUME NEW k \in Conn, NEW u \in UID, Authenticate(k, u) PROVE IInv'
  <2> USE <1>1 DEF Authenticate
  <2>1. TypeOK'
    BY DEF TypeOK
  <2>2. MetersOwned'
    BY Zenon DEF MetersOwned, TypeOK
  <2>3. CounterOwned' /\ BatchOwned' /\ Disjoint' /\ Fresh' /\ Covered'
    BY PlacesKept, Zenon
  <2> QED
    BY <2>1, <2>2, <2>3
<1>2. ASSUME NEW k \in Conn, RoutedConnection(k) PROVE IInv'
  <2> USE <1>2 DEF RoutedConnection
  <2>1. TypeOK'
    <3>1. conn[k].uid \in UID /\ users[conn[k].uid] \in Meter \cup {nil}
      BY DEF MetersOwned, TypeOK
    <3> QED
      BY <3>1 DEF TypeOK
  <2>2. MetersOwned'
    BY DEF MetersOwned, TypeOK
  <2>3. CounterOwned' /\ BatchOwned' /\ Disjoint' /\ Fresh' /\ Covered'
    BY PlacesKept
  <2> QED
    BY <2>1, <2>2, <2>3
<1>3. ASSUME NEW k \in Conn, NEW c \in Chunk, Transfer(k, c) PROVE IInv'
  <2> USE <1>3 DEF Transfer
  <2>1. TypeOK'
    <3>1. conn[k].uid \in UID \cup {nil} /\ conn[k].meter \in Meter \cup {nil}
      BY DEF TypeOK
    <3>2. usedBy' \in [Chunk -> UID \cup {nil}] /\ counted' \subseteq Chunk
      BY <3>1 DEF TypeOK
    <3>3. counter' \in [Meter -> SUBSET Chunk]
      BY <3>1 DEF TypeOK
    <3> QED
      BY <3>2, <3>3 DEF TypeOK
  <2>2. MetersOwned'
    BY DEF MetersOwned, TypeOK
  <2>3. CASE conn[k].meter = nil
    <3>1. CounterOwned' /\ BatchOwned'
      BY <2>3 DEF CounterOwned, BatchOwned, Uncharged, TypeOK
    <3>2. Disjoint'
      BY <2>3 DEF Disjoint, TypeOK
    <3>3. Fresh' /\ Covered'
      BY <2>3, Zenon DEF Fresh, Covered, Uncharged, TypeOK
    <3> QED
      BY <2>1, <2>2, <3>1, <3>2, <3>3
  <2>4. CASE conn[k].meter # nil
    <3> DEFINE m == conn[k].meter
    <3>1. /\ m \in Meter /\ conn[k].uid = uidOf[m] /\ uidOf[m] # nil
          /\ usedBy[c] = nil /\ usedBy' = [usedBy EXCEPT ![c] = uidOf[m]]
          /\ counted' = counted \cup {c}
          /\ UNCHANGED <<uidOf, batch, charges, discarded>>
      BY <2>4, ZenonT(20) DEF MetersOwned, TypeOK
    <3>2. \A n \in Meter, d \in Chunk :
            d \in counter'[n] <=> d \in counter[n] \/ (n = m /\ d = c)
      <4>1. counter' = [counter EXCEPT ![m] = counter[m] \cup {c}]
        BY <2>4
      <4>2. counter \in [Meter -> SUBSET Chunk]
        BY DEF TypeOK
      <4> HIDE DEF m, Transfer, IInv
      <4> QED
        BY <3>1, <4>1, <4>2
    <3>3. /\ \A n \in Meter : c \notin counter[n]
          /\ \A p \in Process, u \in UID : c \notin batch[p][u]
      BY <3>1 DEF CounterOwned, BatchOwned
    <3>4. CounterOwned'
      BY <3>1, <3>2, <3>3 DEF CounterOwned, Fresh, Uncharged, TypeOK
    <3>5. BatchOwned'
      BY <3>1, <3>3 DEF BatchOwned, Uncharged, TypeOK
    <3>6. Disjoint'
      BY <3>1, <3>2, <3>3 DEF Disjoint
    <3>7. Fresh'
      BY <3>1 DEF Fresh, Uncharged, TypeOK
    <3>8. Covered'
      <4> SUFFICES ASSUME NEW d \in counted', Uncharged(d)', d \notin discarded',
                          \A n \in Meter : d \notin counter'[n]
                   PROVE  \E p \in Process, u \in UID : d \in batch'[p][u]
        BY DEF Covered
      <4>1. d \in counted /\ d \in Chunk /\ Uncharged(d) /\ d \notin discarded
        BY <3>1, <3>2 DEF Uncharged, TypeOK
      <4> QED
        BY <3>1, <3>2, <4>1 DEF Covered
    <3> QED
      BY <2>1, <2>2, <3>4, <3>5, <3>6, <3>7, <3>8
  <2> QED
    BY <2>3, <2>4
<1>4. ASSUME NEW k \in Conn, CloseConn(k) PROVE IInv'
  <2> USE <1>4 DEF CloseConn, Idle
  <2>1. TypeOK'
    BY DEF TypeOK
  <2>2. MetersOwned'
    BY Zenon DEF MetersOwned, TypeOK
  <2>3. CounterOwned' /\ BatchOwned' /\ Disjoint' /\ Fresh' /\ Covered'
    BY PlacesKept
  <2> QED
    BY <2>1, <2>2, <2>3
<1>5. ASSUME ListUsers PROVE IInv'
  <2> USE <1>5 DEF ListUsers, Goto
  <2>1. TypeOK'
    BY DEF TypeOK
  <2>2. MetersOwned'
    BY DEF MetersOwned, TypeOK
  <2>3. CounterOwned' /\ BatchOwned' /\ Disjoint' /\ Fresh' /\ Covered'
    BY PlacesKept, Zenon
  <2> QED
    BY <2>1, <2>2, <2>3
<1>6. ASSUME NEW p \in Process, SwapSent(p) PROVE IInv'
  <2> USE <1>6 DEF SwapSent, Goto
  <2>1. PICK m \in todo[p] : /\ Swap(p, m, Up)
                            /\ meter' = [meter EXCEPT ![p] = m]
    BY Zenon
  <2>2. m \in Meter /\ uidOf[m] # nil
    BY DEF MetersOwned, TypeOK
  <2>3. /\ counter' \in [Meter -> SUBSET Chunk]
        /\ batch' \in [Process -> [UID -> SUBSET Chunk]]
        /\ CounterOwned' /\ BatchOwned' /\ Disjoint' /\ Fresh' /\ Covered'
    BY <2>1, <2>2, SwapPlaces
  <2>4. UNCHANGED <<authorVars, conn, tries, usedBy, counted, charges, discarded>>
    BY <2>1 DEF Swap
  <2>5. TypeOK'
    BY <2>1, <2>2, <2>3, <2>4, Zenon DEF TypeOK
  <2>6. MetersOwned'
    BY <2>1, <2>2, <2>4 DEF MetersOwned, TypeOK
  <2> QED
    BY <2>3, <2>5, <2>6
<1>7. ASSUME NEW p \in Process, SwapRecv(p) PROVE IInv'
  <2> USE <1>7 DEF SwapRecv, Goto
  <2> DEFINE m == meter[p]
  <2>1. Swap(p, m, Chunk \ Up)
    OBVIOUS
  <2>2. m \in Meter /\ uidOf[m] # nil
    BY DEF MetersOwned, TypeOK
  <2>3. /\ counter' \in [Meter -> SUBSET Chunk]
        /\ batch' \in [Process -> [UID -> SUBSET Chunk]]
        /\ CounterOwned' /\ BatchOwned' /\ Disjoint' /\ Fresh' /\ Covered'
    BY <2>1, <2>2, SwapPlaces
  <2>4. UNCHANGED <<authorVars, conn, tries, usedBy, counted, charges, discarded>>
    BY <2>1 DEF Swap
  <2>5. TypeOK'
    BY <2>1, <2>2, <2>3, <2>4, Zenon DEF TypeOK
  <2>6. MetersOwned'
    BY <2>1, <2>2, <2>4, Zenon DEF MetersOwned, TypeOK
  <2> QED
    BY <2>3, <2>5, <2>6
<1>8. ASSUME NEW p \in Process, Drained(p) PROVE IInv'
  <2> USE <1>8 DEF Drained, Goto, Reported
  <2>1. TypeOK'
    BY Zenon DEF TypeOK
  <2>2. MetersOwned'
    BY DEF MetersOwned, TypeOK
  <2>3. CounterOwned' /\ BatchOwned' /\ Disjoint' /\ Fresh' /\ Covered'
    BY PlacesKept
  <2> QED
    BY <2>1, <2>2, <2>3, Zenon
<1>9. ASSUME NEW p \in Process, PostOk(p) PROVE IInv'
  <2> USE <1>9 DEF PostOk, PostReturns, Goto, Reported
  <2>1. /\ discarded' \subseteq Chunk
        /\ charges' \in [Chunk -> [UID -> Nat]]
        /\ CounterOwned' /\ BatchOwned' /\ Disjoint' /\ Fresh' /\ Covered'
    BY PostPlaces, Zenon
  <2>2. TypeOK'
    BY <2>1 DEF TypeOK, NoRecords
  <2>3. MetersOwned'
    BY DEF MetersOwned, TypeOK
  <2> QED
    BY <2>1, <2>2, <2>3
<1>10. ASSUME NEW p \in Process, PostTimeout(p) PROVE IInv'
  <2> USE <1>10 DEF PostTimeout, PostReturns, Goto, Reported
  <2>1. /\ discarded' \subseteq Chunk
        /\ charges' \in [Chunk -> [UID -> Nat]]
        /\ CounterOwned' /\ BatchOwned' /\ Disjoint' /\ Fresh' /\ Covered'
    BY PostPlaces, Zenon
  <2>2. TypeOK'
    BY <2>1 DEF TypeOK, NoRecords
  <2>3. MetersOwned'
    BY DEF MetersOwned, TypeOK
  <2> QED
    BY <2>1, <2>2, <2>3
<1>11. ASSUME NEW p \in Process, PostConnError(p) PROVE IInv'
  <2> USE <1>11 DEF PostConnError, PostReturns, Goto, Reported
  <2>1. CASE tries[p] < RetryCount
    <3>1. UNCHANGED charges
      OBVIOUS
    <3>2. TypeOK'
      BY <2>1, <3>1 DEF TypeOK
    <3>3. MetersOwned'
      BY <2>1, Zenon DEF MetersOwned, TypeOK
    <3>4. CounterOwned' /\ BatchOwned' /\ Disjoint' /\ Fresh' /\ Covered'
      BY <2>1, <3>1, PlacesKept
    <3> QED
      BY <3>2, <3>3, <3>4
  <2>2. CASE ~(tries[p] < RetryCount)
    <3>1. /\ discarded' \subseteq Chunk
          /\ charges' \in [Chunk -> [UID -> Nat]]
          /\ CounterOwned' /\ BatchOwned' /\ Disjoint' /\ Fresh' /\ Covered'
      BY <2>2, PostPlaces, Zenon
    <3>2. TypeOK'
      BY <2>2, <3>1 DEF TypeOK, NoRecords
    <3>3. MetersOwned'
      BY <2>2 DEF MetersOwned, TypeOK
    <3> QED
      BY <3>1, <3>2, <3>3
  <2> QED
    BY <2>1, <2>2
<1>12. ASSUME NEW l \in SUBSET UID, SyncUserList(l) PROVE IInv'
  <2> USE <1>12 DEF SyncUserList, Goto
  <2>1. TypeOK'
    BY DEF TypeOK
  <2>2. MetersOwned'
    BY DEF MetersOwned, TypeOK
  <2>3. CounterOwned' /\ BatchOwned' /\ Disjoint' /\ Fresh' /\ Covered'
    BY PlacesKept, Zenon
  <2> QED
    BY <2>1, <2>2, <2>3, Zenon
<1>13. ASSUME RemoveUsers PROVE IInv'
  <2> USE <1>13 DEF RemoveUsers, SyncStep, Goto
  <2>1. TypeOK'
    BY Zenon DEF TypeOK
  <2>2. MetersOwned'
    BY Zenon DEF MetersOwned, TypeOK
  <2>3. CounterOwned' /\ BatchOwned' /\ Disjoint' /\ Fresh' /\ Covered'
    BY PlacesKept
  <2> QED
    BY <2>1, <2>2, <2>3, Zenon
<1>14. ASSUME AddUsers PROVE IInv'
  <2> USE <1>14 DEF AddUsers, SyncStep, Goto
  <2>1. TypeOK'
    BY Zenon DEF TypeOK, Added
  <2>2. MetersOwned'
    BY Zenon DEF MetersOwned, TypeOK
  <2>3. CounterOwned' /\ BatchOwned' /\ Disjoint' /\ Fresh' /\ Covered'
    BY PlacesKept, Zenon
  <2> QED
    BY <2>1, <2>2, <2>3
<1>15. ASSUME RuntimeError PROVE IInv'
  <2> USE <1>15 DEF RuntimeError, SyncStep, Goto
  <2>1. TypeOK'
    BY Zenon DEF TypeOK
  <2>2. MetersOwned'
    BY DEF MetersOwned, TypeOK
  <2>3. CounterOwned' /\ BatchOwned' /\ Disjoint' /\ Fresh' /\ Covered'
    BY PlacesKept, Zenon
  <2> QED
    BY <2>1, <2>2, <2>3, Zenon
<1>16. ASSUME NEW u \in UID, DelUser(u) PROVE IInv'
  <2>1. CASE CloseSent(u)
    <3> USE <2>1 DEF CloseSent, SyncStep, Goto, Leaving
    <3>1. users[u] \in Meter
      BY DEF TypeOK
    <3>2. TypeOK'
      BY <3>1, Zenon DEF TypeOK, Discard
    <3>3. MetersOwned'
      BY DEF MetersOwned, TypeOK, Discard
    <3>4. CounterOwned' /\ BatchOwned' /\ Disjoint' /\ Fresh' /\ Covered'
      BY <3>1, DiscardPlaces
    <3> QED
      BY <3>2, <3>3, <3>4
  <2>2. CASE CloseRecv(u)
    <3> USE <2>2 DEF CloseRecv, SyncStep, Goto, Leaving
    <3>1. users[u] \in Meter
      BY DEF TypeOK
    <3>2. TypeOK'
      BY <3>1, Zenon DEF TypeOK, Discard
    <3>3. MetersOwned'
      BY DEF MetersOwned, TypeOK, Discard
    <3>4. CounterOwned' /\ BatchOwned' /\ Disjoint' /\ Fresh' /\ Covered'
      BY <3>1, DiscardPlaces
    <3> QED
      BY <3>2, <3>3, <3>4
  <2>3. CASE DeleteUser(u)
    <3> USE <2>3 DEF DeleteUser, SyncStep, Goto, Leaving
    <3>1. TypeOK'
      BY Zenon DEF TypeOK
    <3>2. MetersOwned'
      BY DEF MetersOwned, TypeOK
    <3>3. CounterOwned' /\ BatchOwned' /\ Disjoint' /\ Fresh' /\ Covered'
      BY PlacesKept, Zenon
    <3> QED
      BY <3>1, <3>2, <3>3
  <2> QED
    BY <1>16, <2>1, <2>2, <2>3 DEF DelUser
<1>17. ASSUME NEW u \in UID, AddUser(u) PROVE IInv'
  <2> USE <1>17 DEF AddUser, SyncStep, Goto, Unused
  <2>1. PICK m \in Meter : /\ uidOf[m] = nil
                          /\ uidOf' = [uidOf EXCEPT ![m] = u]
                          /\ users' = [users EXCEPT ![u] = m]
    BY Zenon
  <2>2. TypeOK'
    BY <2>1 DEF TypeOK
  <2>3. /\ uidOf'[m] = u /\ u # nil
        /\ \A n \in Meter : uidOf[n] # nil => uidOf'[n] = uidOf[n]
    BY <2>1 DEF TypeOK
  <2>4. MetersOwned'
    <3>1. /\ \A v \in UID : users[v] \in Meter \cup {nil}
          /\ \A v \in UID : users'[v] = IF v = u THEN m ELSE users[v]
      BY <2>1, Zenon DEF TypeOK
    <3>2. /\ \A k \in Conn : conn[k].meter \in Meter \cup {nil}
          /\ \A p \in Process : todo[p] \subseteq Meter /\ meter[p] \in Meter \cup {nil}
      BY Zenon DEF TypeOK
    <3>3. \A p \in Process : pc'[p] = "recv" => pc[p] = "recv"
      BY DEF TypeOK
    <3>4. MetersOwned /\ UNCHANGED <<conn, todo, meter>>
      BY Zenon
    <3> HIDE DEF AddUser, SyncStep, Goto, IInv
    <3>5. ASSUME NEW v \in UID, users'[v] # nil PROVE uidOf'[users'[v]] = v
      <4>1. CASE v = u
        BY <4>1, <2>3, <3>1, Zenon
      <4>2. CASE v # u
        <5>1. users'[v] = users[v] /\ users[v] \in Meter
          BY <4>2, <3>1, <3>5, Zenon
        <5>2. uidOf[users[v]] = v
          BY <5>1, <3>4, <3>5 DEF MetersOwned
        <5> QED
          BY <5>1, <5>2, <2>3, TrafficAssumption
      <4> QED
        BY <4>1, <4>2
    <3>6. \A k \in Conn : conn[k].meter # nil => uidOf'[conn[k].meter] = conn[k].uid
      BY <2>3, <3>2, <3>4, Zenon DEF MetersOwned
    <3>7. /\ \A p \in Process, n \in Meter : n \in todo[p] => uidOf'[n] # nil
          /\ \A p \in Process : pc'[p] = "recv" => meter[p] # nil /\ uidOf'[meter[p]] # nil
      BY <2>3, <3>2, <3>3, <3>4 DEF MetersOwned
    <3> QED
      BY <3>4, <3>5, <3>6, <3>7 DEF MetersOwned
  <2>5. CounterOwned' /\ BatchOwned' /\ Disjoint' /\ Fresh' /\ Covered'
    BY <2>3, PlacesKept
  <2> QED
    BY <2>2, <2>4, <2>5, Zenon
<1>18. ASSUME CommitMap PROVE IInv'
  <2> USE <1>18 DEF CommitMap, SyncStep, Goto
  <2>1. TypeOK'
    BY Zenon DEF TypeOK
  <2>2. MetersOwned'
    BY Zenon DEF MetersOwned, TypeOK
  <2>3. CounterOwned' /\ BatchOwned' /\ Disjoint' /\ Fresh' /\ Covered'
    BY PlacesKept, Zenon
  <2> QED
    BY <2>1, <2>2, <2>3
<1>19. ASSUME UNCHANGED vars PROVE IInv'
  <2> USE <1>19 DEF vars
  <2>1. TypeOK'
    BY Zenon DEF TypeOK
  <2>2. MetersOwned'
    BY Zenon DEF MetersOwned
  <2>3. CounterOwned' /\ BatchOwned' /\ Disjoint' /\ Fresh' /\ Covered'
    BY PlacesKept, Zenon
  <2> QED
    BY <2>1, <2>2, <2>3, Zenon
<1> QED
  BY <1>1, <1>2, <1>3, <1>4, <1>5, <1>6, <1>7, <1>8, <1>9,
     <1>10, <1>11, <1>12, <1>13, <1>14, <1>15, <1>16, <1>17, <1>18, <1>19
  DEF Next, UserMonitor, Sync, Report, Connection

\* ResetTraffic, the reports and DelUser: a counted chunk is in one place.
THEOREM ChunkInOnePlace ==
  ASSUME ~ResetAfterProcessing PROVE Spec => []InOnePlace
<1>1. IInv => InOnePlace
  <2> SUFFICES ASSUME IInv PROVE InOnePlace
    BY Zenon
  <2> USE DEF IInv
  <2>1. \A p \in Process : \A c : c \in ChunksOf(p) <=> \E u \in UID : c \in batch[p][u]
    BY Zenon DEF ChunksOf
  <2>2. \A m, n \in Meter : m # n => counter[m] \cap counter[n] = {}
    BY DEF Disjoint, TypeOK
  <2>3. \A m \in Meter, p \in Process : counter[m] \cap ChunksOf(p) = {}
    BY <2>1 DEF Disjoint, TypeOK
  <2>4. ChunksOf("monitor") \cap ChunksOf("sync") = {}
    BY <2>1 DEF Disjoint, TypeOK, Process
  <2>5. \A c \in Chunk : Charged(c) <=> ~Uncharged(c)
    BY DEF Charged, Uncharged, TypeOK
  <2>6. \A c \in counted : \/ \E m \in Meter : c \in counter[m]
                           \/ \E p \in Process : c \in ChunksOf(p)
                           \/ Charged(c) \/ c \in discarded
    BY <2>1, <2>5, Zenon DEF Covered, TypeOK
  <2> QED
    BY <2>2, <2>3, <2>4, <2>5, <2>6, Zenon DEF InOnePlace, CounterOwned, BatchOwned
<1>2. IInv /\ [Next]_vars => IInv'
  BY NextIInv
<1> QED
  BY InitIInv, <1>1, <1>2, PTL DEF Spec

\* What the panel adds for a report is a charge of the ledger.
LEMMA PanelCharges ==
  ASSUME IInv, NEW p \in Process, PanelAdds(p), UNCHANGED usedBy
  PROVE  Ledger!Next
<1> USE DEF IInv
<1> DEFINE C == ChunksOf(p)
<1>1. /\ C \in SUBSET Chunk
      /\ \A c : c \in C <=> \E u \in UID : c \in batch[p][u]
  BY DEF ChunksOf, TypeOK
<1>2. \A c \in C : usedBy[c] \in UID /\ usedBy[c] # nil /\ c \in batch[p][usedBy[c]]
  BY <1>1, TrafficAssumption DEF BatchOwned
<1>3. \A c \in C : charges[c] = [u \in UID |-> 0]
  BY <1>1 DEF BatchOwned, Uncharged, TypeOK
<1>4. charges' = [c \in Chunk |-> IF c \in C
                    THEN [u \in UID |-> IF u = usedBy[c] THEN 1 ELSE 0]
                    ELSE charges[c]]
  <2>1. \A c \in Chunk, u \in UID : c \in C =>
          (c \in batch[p][u] <=> u = usedBy[c]) /\ charges[c][u] = 0
    <3>1. \A c \in C, u \in UID : charges[c][u] = 0
      BY <1>3
    <3>2. \A c \in C, u \in UID : u = usedBy[c] => c \in batch[p][u]
      BY <1>2, Zenon
    <3>3. \A c \in C, u \in UID : c \in batch[p][u] => u = usedBy[c]
      BY <1>1 DEF BatchOwned
    <3> QED
      BY <3>1, <3>2, <3>3, Zenon
  <2>2. ASSUME NEW c \in Chunk, c \in C
        PROVE  [u \in UID |-> IF c \in batch[p][u] THEN charges[c][u] + 1 ELSE charges[c][u]]
                 = [u \in UID |-> IF u = usedBy[c] THEN 1 ELSE 0]
    <3>1. \A u \in UID : (IF c \in batch[p][u] THEN charges[c][u] + 1 ELSE charges[c][u])
                            = IF u = usedBy[c] THEN 1 ELSE 0
      BY <2>1, <2>2
    <3> QED
      BY <3>1, Zenon
  <2>3. \A c \in Chunk : c \notin C =>
          [u \in UID |-> IF c \in batch[p][u] THEN charges[c][u] + 1 ELSE charges[c][u]]
            = charges[c]
    BY <1>1 DEF TypeOK
  <2> QED
    BY <2>2, <2>3, Zenon DEF PanelAdds
<1> HIDE DEF C
<1>5. Ledger!Charge(C)
  BY <1>2, <1>3, <1>4 DEF Ledger!Charge
<1> QED
  BY <1>1, <1>5 DEF Ledger!Next

\* Traffic accounting implements the ledger: every chunk is charged at most
\* once, and to the user who moved it.
THEOREM ImplementsLedger ==
  ASSUME ~ResetAfterProcessing PROVE Spec => LedgerSpec
<1>1. Init => Ledger!Init
  BY DEF Init, Ledger!Init
<1>2. IInv /\ [Next]_vars => [Ledger!Next]_(Ledger!vars)
  <2> SUFFICES ASSUME IInv, [Next]_vars PROVE [Ledger!Next]_(Ledger!vars)
    OBVIOUS
  <2> USE DEF Ledger!vars
  <2>1. ASSUME NEW k \in Conn, NEW c \in Chunk, Transfer(k, c) PROVE Ledger!Next
    <3>1. conn[k].uid \in UID
      BY <2>1 DEF IInv, MetersOwned, TypeOK, Transfer
    <3>2. Ledger!Use(c, conn[k].uid)
      BY <2>1, Zenon DEF Transfer, Ledger!Use
    <3> QED
      BY <3>1, <3>2, Zenon DEF Ledger!Next
  <2>2. ASSUME NEW p \in Process, PostOk(p) \/ PostTimeout(p) \/ PostConnError(p)
        PROVE  [Ledger!Next]_(Ledger!vars)
    BY <2>2, PanelCharges, Zenon DEF PostOk, PostTimeout, PostConnError
  <2>3. ASSUME NEW p \in Process, SwapSent(p) \/ SwapRecv(p) \/ Drained(p)
        PROVE  UNCHANGED <<usedBy, charges>>
    BY <2>3 DEF SwapSent, SwapRecv, Drained, Swap
  <2>4. ASSUME NEW k \in Conn, NEW u \in UID, Authenticate(k, u)
        PROVE  UNCHANGED <<usedBy, charges>>
    BY <2>4 DEF Authenticate
  <2>5. ASSUME NEW k \in Conn, RoutedConnection(k) \/ CloseConn(k)
        PROVE  UNCHANGED <<usedBy, charges>>
    BY <2>5 DEF RoutedConnection, CloseConn
  <2>6. ASSUME NEW l \in SUBSET UID, SyncUserList(l) PROVE UNCHANGED <<usedBy, charges>>
    BY <2>6 DEF SyncUserList
  <2>7. ASSUME NEW u \in UID, DelUser(u) \/ AddUser(u) PROVE UNCHANGED <<usedBy, charges>>
    BY <2>7, Zenon DEF DelUser, CloseSent, CloseRecv, DeleteUser, AddUser, SyncStep
  <2>8. CASE ListUsers \/ RemoveUsers \/ AddUsers \/ RuntimeError \/ CommitMap
    BY <2>8, Zenon DEF ListUsers, RemoveUsers, AddUsers, RuntimeError, CommitMap, SyncStep
  <2>9. CASE UNCHANGED vars
    BY <2>9, Zenon DEF vars
  <2> QED
    BY <2>1, <2>2, <2>3, <2>4, <2>5, <2>6, <2>7, <2>8, <2>9
    DEF Next, UserMonitor, Sync, Report, Connection, Process
<1>3. IInv /\ [Next]_vars => IInv'
  BY NextIInv
<1> QED
  BY InitIInv, <1>1, <1>2, <1>3, PTL DEF Spec, LedgerSpec, Ledger!Spec

-----------------------------------------------------------------------------
(* Who may route a connection without counters.  This holds also where a     *)
(* connection can break after the panel has processed, so it rests on an     *)
(* invariant of its own, with the part of TypeOK that it needs.              *)

\* A user who stays has a meter; so has every user of usersMap, except while
\* the delta is being committed.
Metered ==
  /\ users \in [UID -> Meter \cup {nil}]
  /\ usersMap \subseteq UID /\ next \subseteq UID
  /\ pc \in [Process -> {"idle", "drain", "recv", "post", "remove", "add", "commit",
                       "close", "delete"}]
  /\ DOMAIN conn = Conn
  /\ \A u \in usersMap \cap next : users[u] # nil
  /\ pc["sync"] \notin {"commit", "close", "delete"} => \A u \in usersMap : users[u] # nil

\* Every step of every goroutine preserves it: DelUser takes the meters of
\* those who leave, and the map is committed when those who come have theirs.
LEMMA NextMetered == Metered /\ [Next]_vars => Metered'
<1> SUFFICES ASSUME Metered, [Next]_vars PROVE Metered'
  BY Zenon
<1> USE DEF Metered, Process, authorVars, procVars
<1>1. ASSUME NEW k \in Conn, Connection(k) PROVE Metered'
  BY <1>1 DEF Connection, Authenticate, RoutedConnection, Transfer, CloseConn
<1>2. ASSUME NEW p \in Process, Report(p) PROVE Metered'
  <2>1. UNCHANGED <<users, usersMap, next, conn>>
    BY <1>2, Zenon DEF Report, SwapSent, SwapRecv, Swap, Drained, PostOk, PostTimeout,
       PostConnError
  <2>2. /\ pc[p] \in {"drain", "recv", "post"}
        /\ \E l \in {"idle", "drain", "recv", "post", "remove"} : pc' = [pc EXCEPT ![p] = l]
    BY <1>2, Zenon DEF Report, SwapSent, SwapRecv, Drained, PostOk, PostTimeout,
       PostConnError,
       PostReturns, Goto, Reported
  <2> QED
    BY <2>1, <2>2
<1>3. CASE ListUsers
  BY <1>3, Zenon DEF ListUsers, Goto
<1>4. ASSUME NEW l \in SUBSET UID, SyncUserList(l) PROVE Metered'
  BY <1>4, Zenon DEF SyncUserList, Goto
<1>5. CASE RemoveUsers \/ AddUsers \/ RuntimeError
  BY <1>5 DEF RemoveUsers, AddUsers, RuntimeError, SyncStep, Goto
<1>6. ASSUME NEW u \in UID, DelUser(u) PROVE Metered'
  BY <1>6 DEF DelUser, CloseSent, CloseRecv, DeleteUser, Discard, Leaving, SyncStep, Goto,
     Deleted
<1>7. ASSUME NEW u \in UID, AddUser(u) PROVE Metered'
  <2>1. PICK m \in Meter : users' = [users EXCEPT ![u] = m]
    BY <1>7, Zenon DEF AddUser, Unused
  <2>2. /\ pc["sync"] = "commit" /\ pc' = [pc EXCEPT !["sync"] = "commit"]
        /\ UNCHANGED <<usersMap, next, conn>>
    BY <1>7 DEF AddUser, SyncStep, Goto
  <2> QED
    BY <2>1, <2>2, TrafficAssumption
<1>8. CASE CommitMap
  BY <1>8 DEF CommitMap, SyncStep, Goto, Added
<1>9. CASE UNCHANGED vars
  BY <1>9 DEF vars
<1> QED
  BY <1>1, <1>2, <1>3, <1>4, <1>5, <1>6, <1>7, <1>8, <1>9, Zenon DEF Next, UserMonitor, Sync

\* RoutedConnection leaves a connection without counters only if its user is
\* being added or deleted, or was deleted since the handshake.
THEOREM RawOnlyInChange == Spec => RawOnlyWhileChanging
<1>1. Init => Metered
  BY DEF Init, Metered, Process
<1>2. ASSUME Metered, [Next]_vars, NEW k \in Conn,
             conn'[k].state = "routed", conn[k].state # "routed", conn'[k].meter = nil
      PROVE  conn[k].uid \notin usersMap \cap next
  <2>1. CASE RoutedConnection(k)
    BY <1>2, <2>1 DEF RoutedConnection, Metered
  <2>2. ASSUME NEW j \in Conn, RoutedConnection(j), j # k PROVE FALSE
    BY <1>2, <2>2 DEF RoutedConnection, Metered
  <2>3. ASSUME NEW j \in Conn, NEW u \in UID, Authenticate(j, u) PROVE FALSE
    BY <1>2, <2>3 DEF Authenticate, Metered
  <2>4. ASSUME NEW j \in Conn, CloseConn(j) PROVE FALSE
    BY <1>2, <2>4 DEF CloseConn, Idle, Metered
  <2>5. ~UNCHANGED conn
    BY <1>2
  <2> QED
    BY <1>2, <2>1, <2>2, <2>3, <2>4, <2>5, Zenon DEF Next, Connection, UserMonitor, Sync,
       Report,
       ListUsers, SwapSent, SwapRecv, Swap, Drained, PostOk, PostTimeout, PostConnError,
       SyncUserList, SyncStep, RemoveUsers, AddUsers, RuntimeError, DelUser, CloseSent,
       CloseRecv, DeleteUser, AddUser, CommitMap, Transfer, vars
<1>3. Metered /\ [Next]_vars =>
        [\A k \in Conn :
           conn'[k].state = "routed" /\ conn[k].state # "routed" /\ conn'[k].meter = nil
             => conn[k].uid \notin usersMap \cap next]_vars
  BY <1>2
<1> QED
  BY <1>1, <1>3, NextMetered, PTL DEF Spec, RawOnlyWhileChanging

-----------------------------------------------------------------------------
(* What becomes of the records. *)

AtWork(p) == pc[p] \in {"drain", "recv", "post"}

\* A process has records only while it drains and reports: every way out of
\* ReportUserTraffic gives them up.
InHand ==
  /\ DOMAIN pc = Process /\ DOMAIN batch = Process /\ DOMAIN users = UID
  /\ \A p \in Process : ~AtWork(p) => batch[p] = NoRecords

\* A counted chunk is in a counter, where the next tick finds it, or in the
\* records of a process at work, or it was charged or discarded.
OnItsWay ==
  \A c \in counted : \/ \E m \in Meter : c \in counter[m]
                     \/ \E p \in Process : AtWork(p) /\ c \in ChunksOf(p)
                     \/ Charged(c) \/ c \in discarded

\* Only two things give up a chunk: a report that comes to its end, and
\* DelUser of a user that the list lacks.
DiscardedForCause ==
  [][\A c \in discarded' \ discarded :
       \/ \E p \in Process : /\ pc[p] = "post" /\ c \in ChunksOf(p)
                             /\ pc'[p] = Reported(p) /\ batch'[p] = NoRecords
       \/ \E u \in Deleted : /\ users[u] # nil /\ c \in counter[users[u]]
                             /\ pc'["sync"] \in {"close", "delete"}]_vars

\* No step leaves records behind.
LEMMA NextInHand == InHand /\ [Next]_vars => InHand'
<1> SUFFICES ASSUME InHand, [Next]_vars PROVE InHand'
  BY Zenon
<1> USE DEF authorVars, procVars
<1>a. ASSUME UNCHANGED batch, DOMAIN users' = UID, DOMAIN pc' = Process,
             \A p \in Process : AtWork(p) => AtWork(p)'
      PROVE  InHand'
  BY <1>a, Zenon DEF InHand, NoRecords
<1>1. ASSUME NEW p \in Process, SwapSent(p) \/ SwapRecv(p) PROVE InHand'
  <2>1. /\ UNCHANGED users /\ DOMAIN batch' = Process
        /\ \A q \in Process : q # p => batch'[q] = batch[q]
    BY <1>1, Zenon DEF SwapSent, SwapRecv, Swap, InHand
  <2>2. \E l \in {"recv", "drain"} : pc' = [pc EXCEPT ![p] = l]
    BY <1>1, Zenon DEF SwapSent, SwapRecv, Goto
  <2>3. DOMAIN pc' = Process /\ AtWork(p)' /\ \A q \in Process : q # p => pc'[q] = pc[q]
    BY <2>2 DEF InHand, AtWork
  <2> QED
    BY <2>1, <2>3, Zenon DEF InHand, AtWork, NoRecords
<1>2. ASSUME NEW p \in Process, Drained(p) PROVE InHand'
  <2>1. /\ UNCHANGED <<users, batch>>
        /\ pc' = [pc EXCEPT ![p] = IF batch[p] = NoRecords THEN Reported(p) ELSE "post"]
    BY <1>2, Zenon DEF Drained, Goto
  <2>2. /\ DOMAIN pc' = Process /\ \A q \in Process : q # p => pc'[q] = pc[q]
        /\ batch[p] = NoRecords \/ AtWork(p)'
    BY <2>1 DEF InHand, AtWork
  <2> QED
    BY <2>1, <2>2, Zenon DEF InHand, AtWork, NoRecords
<1>3. ASSUME NEW p \in Process, PostReturns(p), UNCHANGED users PROVE InHand'
  <2>1. /\ DOMAIN pc' = Process /\ DOMAIN batch' = Process /\ batch'[p] = NoRecords
        /\ \A q \in Process : q # p => pc'[q] = pc[q] /\ batch'[q] = batch[q]
    BY <1>3, Zenon DEF PostReturns, Goto, InHand
  <2> QED
    BY <1>3, <2>1, Zenon DEF InHand, AtWork, NoRecords
<1>4. ASSUME NEW p \in Process, PostOk(p) \/ PostTimeout(p) \/ PostConnError(p) PROVE InHand'
  <2>1. UNCHANGED users /\ (PostReturns(p) \/ UNCHANGED <<pc, batch>>)
    BY <1>4, Zenon DEF PostOk, PostTimeout, PostConnError
  <2>2. CASE UNCHANGED <<pc, batch>>
    BY <1>a, <2>1, <2>2, Zenon DEF InHand, AtWork
  <2> QED
    BY <1>3, <2>1, <2>2, Zenon
<1>5. CASE ListUsers \/ \E l \in SUBSET UID : SyncUserList(l)
  <2>1. UNCHANGED <<users, batch>> /\ \E p \in Process : pc' = [pc EXCEPT ![p] = "drain"]
    BY <1>5, Zenon DEF ListUsers, SyncUserList, Goto, Process
  <2>2. DOMAIN pc' = Process /\ \A p \in Process : AtWork(p) => AtWork(p)'
    BY <2>1 DEF InHand, AtWork
  <2> QED
    BY <1>a, <2>1, <2>2, Zenon DEF InHand
<1>6. CASE \/ RemoveUsers \/ AddUsers \/ RuntimeError \/ CommitMap
           \/ \E u \in UID : DelUser(u) \/ AddUser(u)
  <2>1. /\ UNCHANGED batch /\ pc["sync"] \in {"remove", "add", "commit", "close", "delete"}
        /\ \E l : pc' = [pc EXCEPT !["sync"] = l]
    BY <1>6, Zenon DEF RemoveUsers, AddUsers, RuntimeError, CommitMap, DelUser, CloseSent,
       CloseRecv, DeleteUser, AddUser, SyncStep, Goto
  <2>2. DOMAIN pc' = Process /\ \A p \in Process : AtWork(p) => AtWork(p)'
    BY <2>1 DEF InHand, AtWork
  <2>3. DOMAIN users' = UID
    BY <1>6, Zenon DEF RemoveUsers, AddUsers, RuntimeError, CommitMap, DelUser, CloseSent,
       CloseRecv, DeleteUser, Discard, AddUser, InHand
  <2> QED
    BY <1>a, <2>1, <2>2, <2>3, Zenon
<1>7. CASE UNCHANGED vars \/ \E k \in Conn : Connection(k)
  <2>1. UNCHANGED <<users, pc, batch>>
    BY <1>7, Zenon DEF vars, Connection, Authenticate, RoutedConnection, Transfer, CloseConn
  <2> QED
    BY <1>a, <2>1, Zenon DEF InHand, AtWork
<1> QED
  BY <1>1, <1>2, <1>4, <1>5, <1>6, <1>7, Zenon
  DEF Next, UserMonitor, Sync, Report, Process

\* Nothing is in hand at first.
LEMMA InitInHand == Init => InHand
BY DEF Init, InHand, NoRecords

\* Between its ticks a monitor keeps no bytes to itself, however the report
\* ended: what was counted is in a counter, charged or discarded.  It is the
\* safety half of CountedIsCharged.
THEOREM NothingIsKeptBack ==
  ASSUME ~ResetAfterProcessing PROVE Spec => []OnItsWay
<1>1. InOnePlace /\ InHand => OnItsWay
  <2> SUFFICES ASSUME InOnePlace, InHand PROVE OnItsWay
    OBVIOUS
  <2>1. \A p \in Process : ~AtWork(p) => ChunksOf(p) = {}
    BY DEF InHand, ChunksOf, NoRecords
  <2> QED
    BY <2>1, Zenon DEF InOnePlace, OnItsWay
<1> QED
  BY <1>1, ChunkInOnePlace, InitInHand, NextInHand, PTL DEF Spec

\* Bytes are given up only with a report that was sent and not confirmed, or
\* with the user they belong to.
THEOREM DiscardsHaveCause == Spec => DiscardedForCause
<1> DEFINE Cause ==
      \A c \in discarded' \ discarded :
        \/ \E p \in Process : /\ pc[p] = "post" /\ c \in ChunksOf(p)
                              /\ pc'[p] = Reported(p) /\ batch'[p] = NoRecords
        \/ \E u \in Deleted : /\ users[u] # nil /\ c \in counter[users[u]]
                              /\ pc'["sync"] \in {"close", "delete"}
<1>1. InHand /\ [Next]_vars => [Cause]_vars
  <2> SUFFICES ASSUME InHand, Next PROVE Cause
    BY Zenon
  <2>1. ASSUME NEW p \in Process, PostTimeout(p) \/ PostConnError(p) PROVE Cause
    <3>1. CASE UNCHANGED discarded
      BY <3>1, Zenon
    <3>2. CASE PostReturns(p) /\ discarded' = discarded \cup ChunksOf(p)
      <4>1. pc[p] = "post"
        BY <2>1, Zenon DEF PostTimeout, PostConnError
      <4>2. pc'[p] = Reported(p) /\ batch'[p] = NoRecords
        BY <3>2, Zenon DEF PostReturns, Goto, InHand
      <4> QED
        BY <3>2, <4>1, <4>2, Zenon
    <3> QED
      BY <2>1, <3>1, <3>2, Zenon DEF PostTimeout, PostConnError
  <2>2. ASSUME NEW u \in UID, DelUser(u) PROVE Cause
    <3>1. CASE UNCHANGED discarded
      BY <3>1, Zenon
    <3>2. CASE CloseSent(u) \/ CloseRecv(u)
      <4>1. \E part : discarded' = discarded \cup (counter[users[u]] \cap part)
        BY <3>2, Zenon DEF CloseSent, CloseRecv, Discard
      <4>2. pc'["sync"] \in {"close", "delete"}
        BY <3>2 DEF CloseSent, CloseRecv, SyncStep, Goto, InHand, Process
      <4>3. u \in Deleted /\ users[u] # nil
        BY <3>2, Zenon DEF CloseSent, CloseRecv, Leaving
      <4> QED
        BY <4>1, <4>2, <4>3, Zenon
    <3> QED
      BY <2>2, <3>1, <3>2, Zenon DEF DelUser, DeleteUser
  <2>3. CASE UNCHANGED discarded
    BY <2>3, Zenon
  <2> HIDE DEF Cause
  <2> QED
    BY <2>1, <2>2, <2>3, Zenon DEF Next, UserMonitor, Sync, Report, Process, Connection,
       Authenticate, RoutedConnection, Transfer, CloseConn, ListUsers, SwapSent, SwapRecv,
       Swap, Drained, PostOk, SyncUserList, RemoveUsers, AddUsers, RuntimeError, AddUser,
       CommitMap
<1> QED
  BY <1>1, InitInHand, NextInHand, PTL DEF Spec, DiscardedForCause

=============================================================================
