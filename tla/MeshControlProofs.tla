-------------------------- MODULE MeshControlProofs --------------------------
(***************************************************************************)
(* What the mesh control keeps for any registry, any addresses and any     *)
(* number of changes, failures and restarts.                               *)
(***************************************************************************)
EXTENDS MeshControl, TLAPS

Booting == {"boot", "register", "key", "start"}
Writing == {"write", "fill", "rename"}

\* The key is chosen before start; the loop runs once start has returned.
PhasesInv ==
  /\ pc \in Booting => source = "cache"
  /\ pc \in {"sync", "idle", "done"} => source = "registry"
  /\ key = Unset => source = "cache" /\ pc \in {"boot", "register", "key"} \cup Writing
  /\ pc \in {"boot", "register", "key"} => key = Unset
  /\ pc \in Writing /\ key # Unset => source = "registry"

\* Only an answer apply has accepted is written, or, where no cache can be read,
\* the first one; a boot goes by the cache if it can read one.
CacheInv ==
  /\ pc = "register" => ReadFile = NoContent
  /\ pc \in Writing => (IF key = Unset THEN ReadFile = NoContent ELSE Usable(answer))
  /\ pc = "rename" => tmp = answer
  /\ pc = "key" => ReadFile \in {NoContent, answer}
  /\ pc = "start" \/ (pc \in {"apply", "peers"} /\ source = "cache") =>
       (Usable(ReadFile) => key = Response[ReadFile].psk)
  /\ pc \in {"apply", "peers"} /\ source = "cache" => answer = ReadFile

\* Without a key there are no peers.
KeyInv == key \in {NoKey, Unset} => peers = {} /\ todo = {}

\* Close begins after start, and ends after the loop.
CloseInv ==
  /\ source = "cache" => closer = "open"
  /\ closer = "closed" => pc = "done" /\ peers = {}

\* From the request on, what was reported and what is being meshed with
\* belong to the current addresses.
SyncInv ==
  /\ source = "cache" => ~synced
  /\ pc \in {"apply", "peers"} /\ source = "registry" => reported = current
  /\ pc = "peers" =>
       /\ Usable(answer)
       /\ key # NoKey => peers \cup todo \cup missing = MeshTargets(answer, current)
  /\ SyncedIsCurrent

IInv == PhasesInv /\ CacheInv /\ KeyInv /\ CloseInv /\ SyncInv

-----------------------------------------------------------------------------
\* A missing file is not usable, and a usable one has a key.
LEMMA UsableKey ==
  /\ ~Usable(NoContent)
  /\ \A c : Usable(c) => Response[c].psk # NoKey
  BY MeshAssumption DEF Usable, Parses

\* A relay boots without peers, and goes by its cache.
LEMMA InitIInv == Init => IInv
  BY Zenon DEF Init, IInv, PhasesInv, CacheInv, KeyInv, CloseInv, SyncInv, SyncedIsCurrent,
         Booting, Writing

\* Every step preserves the invariant.
LEMMA NextIInv == IInv /\ [Next]_vars => IInv'
<1> SUFFICES ASSUME IInv PROVE [Next]_vars => IInv'
  OBVIOUS
<1> USE MeshAssumption, UsableKey
    DEF IInv, PhasesInv, CacheInv, KeyInv, CloseInv, SyncInv, SyncedIsCurrent, Booting,
        Writing, surroundings, disk, addressVars, peerVars, Calm, Disturb, ReadFile
<1>1. ASSUME Boot PROVE IInv'
  BY <1>1 DEF Boot, Refresh
<1>2. ASSUME ChooseKey PROVE IInv'
  <2>1. key' # Unset
    BY <1>2 DEF ChooseKey, Parses, NoKey, Unset
  <2>2. Usable(ReadFile) => key' = Response[ReadFile].psk
    BY <1>2 DEF ChooseKey, Usable
  <2> QED
    BY <1>2, <2>1, <2>2 DEF ChooseKey
<1>3. ASSUME Start PROVE IInv'
  BY <1>3 DEF Start, Refresh
<1>4. ASSUME RequestOK PROVE IInv'
  BY <1>4 DEF RequestOK
<1>5. ASSUME RequestFails PROVE IInv'
  BY <1>5 DEF RequestFails, NoKey, Unset
<1>6. ASSUME ApplyRefuses PROVE IInv'
  BY <1>6 DEF ApplyRefuses, ApplyReturns
<1>7. ASSUME ApplyStops PROVE IInv'
  BY <1>7 DEF ApplyStops
<1>8. ASSUME ApplyStarts PROVE IInv'
  BY <1>8 DEF ApplyStarts
<1>9. ASSUME ApplyDone PROVE IInv'
  BY <1>9, Zenon DEF ApplyDone, ApplyReturns
<1>10. ASSUME WriteBegins PROVE IInv'
  BY <1>10 DEF WriteBegins, AfterWrite
<1>11. ASSUME WriteFills PROVE IInv'
  BY <1>11 DEF WriteFills
<1>12. ASSUME WriteRenames PROVE IInv'
  BY <1>12 DEF WriteRenames, AfterWrite
<1>13. ASSUME WriteFails PROVE IInv'
  BY <1>13 DEF WriteFails, AfterWrite
<1>14. ASSUME AddressTick PROVE IInv'
  BY <1>14, Zenon DEF AddressTick, Refresh
<1>15. ASSUME Debounced PROVE IInv'
  BY <1>15 DEF Debounced
<1>16. ASSUME PeerFailed PROVE IInv'
  BY <1>16 DEF PeerFailed
<1>17. ASSUME SyncTimer PROVE IInv'
  BY <1>17 DEF SyncTimer
<1>18. ASSUME LoopExits PROVE IInv'
  BY <1>18 DEF LoopExits
<1>19. ASSUME Cancel PROVE IInv'
  BY <1>19 DEF Cancel
<1>20. ASSUME CloseAll PROVE IInv'
  BY <1>20 DEF CloseAll
<1>21. ASSUME NotePeerFailure PROVE IInv'
  BY <1>21 DEF NotePeerFailure
<1>22. ASSUME NEW w \in Interval, Elapse(w) PROVE IInv'
  BY <1>22 DEF Elapse
<1>23. ASSUME Surroundings PROVE IInv'
  BY <1>23 DEF Surroundings
<1>24. ASSUME Restart PROVE IInv'
  BY <1>24 DEF Restart
<1>25. ASSUME Stopped PROVE IInv'
  BY <1>25 DEF Stopped, vars
<1>26. ASSUME UNCHANGED vars PROVE IInv'
  BY <1>26 DEF vars
<1> QED
  BY <1>1, <1>2, <1>3, <1>4, <1>5, <1>6, <1>7, <1>8, <1>9, <1>10, <1>11, <1>12, <1>13, <1>14,
     <1>15, <1>16, <1>17, <1>18, <1>19, <1>20, <1>21, <1>22, <1>23, <1>24, <1>25, <1>26, Zenon
  DEF Next, Request, Apply, WriteCache, Loop

-----------------------------------------------------------------------------
\* Between a usable sync and the next, the registry and the peers are up to
\* date with our addresses, unless a debounce is running (loop, apply).
THEOREM SyncedStaysCurrent == Spec => []SyncedIsCurrent
<1>1. IInv => SyncedIsCurrent
  BY DEF IInv, SyncInv
<1> QED
  BY InitIInv, NextIInv, <1>1, PTL DEF Spec

\* No peer outlives Close, whatever apply was doing (Close, apply).
THEOREM CloseStopsPeers == Spec => []ClosedHasNoPeers
<1>1. IInv => ClosedHasNoPeers
  BY DEF IInv, CloseInv, ClosedHasNoPeers
<1> QED
  BY InitIInv, NextIInv, <1>1, PTL DEF Spec

\* No crash, full disk or bad answer costs a usable cache (writeCache, sync).
THEOREM CacheStaysUsable == Spec => UsableCacheStays
<1>1. IInv /\ [Next]_vars => (Usable(ReadFile) => Usable(cache'))
  <2> SUFFICES ASSUME IInv, Usable(ReadFile) PROVE [Next]_vars => Usable(cache')
    OBVIOUS
  <2>1. ASSUME WriteRenames PROVE Usable(cache')
    BY <2>1, UsableKey DEF WriteRenames, IInv, CacheInv, Writing
  <2>2. ASSUME Boot \/ ChooseKey \/ Start \/ Request \/ Apply PROVE UNCHANGED cache
    BY <2>2 DEF Boot, ChooseKey, Start, Request, RequestOK, RequestFails, Apply,
       ApplyRefuses, ApplyStops, ApplyStarts, ApplyDone, disk
  <2>3. ASSUME WriteBegins \/ WriteFills \/ WriteFails \/ Loop PROVE UNCHANGED cache
    BY <2>3 DEF WriteBegins, WriteFills, WriteFails, Loop, AddressTick, Debounced,
       PeerFailed, SyncTimer, LoopExits, disk
  <2>4. ASSUME \/ Cancel \/ CloseAll \/ NotePeerFailure \/ (\E w \in Interval : Elapse(w))
               \/ Surroundings \/ Restart \/ Stopped \/ UNCHANGED vars
        PROVE  UNCHANGED cache
    BY <2>4 DEF Cancel, CloseAll, NotePeerFailure, Elapse, Surroundings, Restart, Stopped,
       vars, disk
  <2>5. Usable(cache)
    BY UsableKey DEF ReadFile
  <2> QED
    BY <2>1, <2>2, <2>3, <2>4, <2>5 DEF Next, WriteCache
<1> QED
  BY InitIInv, NextIInv, <1>1, PTL DEF Spec, UsableCacheStays

\* A broken or unreachable registry stops no peer (apply, meshPeerSet.apply).
THEOREM MeshIsKept == Spec => OnlyUnlistedStopped
<1> DEFINE Kept == \A t \in peers \ peers' :
                     \/ pc' = "boot" \/ closer' = "closed"
                     \/ Usable(answer) /\ t \notin MeshTargets(answer, current)
<1>1. IInv /\ [Next]_vars => Kept
  <2> SUFFICES ASSUME IInv PROVE [Next]_vars => Kept
    OBVIOUS
  <2>1. ASSUME ApplyStops PROVE Kept
    BY <2>1 DEF ApplyStops, IInv, KeyInv
  <2>2. ASSUME ApplyStarts PROVE Kept
    BY <2>2 DEF ApplyStarts
  <2>3. ASSUME CloseAll \/ Restart PROVE Kept
    BY <2>3 DEF CloseAll, Restart
  <2>4. ASSUME Boot \/ ChooseKey \/ Start \/ Request \/ ApplyRefuses \/ ApplyDone
        PROVE  UNCHANGED peers
    BY <2>4 DEF Boot, ChooseKey, Start, Request, RequestOK, RequestFails, ApplyRefuses,
       ApplyDone, peerVars
  <2>5. ASSUME WriteCache \/ Loop PROVE UNCHANGED peers
    BY <2>5 DEF WriteCache, WriteBegins, WriteFills, WriteRenames, WriteFails, Loop,
       AddressTick, Debounced, PeerFailed, SyncTimer, LoopExits, peerVars
  <2>6. ASSUME \/ Cancel \/ NotePeerFailure \/ (\E w \in Interval : Elapse(w))
               \/ Surroundings \/ Stopped \/ UNCHANGED vars
        PROVE  UNCHANGED peers
    BY <2>6 DEF Cancel, NotePeerFailure, Elapse, Surroundings, Stopped, vars, peerVars
  <2> QED
    BY <2>1, <2>2, <2>3, <2>4, <2>5, <2>6 DEF Next, Apply
<1> QED
  BY InitIInv, NextIInv, <1>1, PTL DEF Spec, OnlyUnlistedStopped

\* A restart has the cached key and has tried the cached peers before its first
\* sync (initialPSK, start).
THEOREM RestartFromCache == Spec => RestartRebuilds
<1> DEFINE Rebuilt == source = "cache" /\ source' = "registry" /\ Usable(ReadFile) =>
                        /\ key = Response[ReadFile].psk
                        /\ peers' \cup missing' = MeshTargets(ReadFile, current')
<1>1. IInv /\ [Next]_vars => Rebuilt
  <2> SUFFICES ASSUME IInv PROVE [Next]_vars => Rebuilt
    OBVIOUS
  <2>1. ASSUME Start PROVE Rebuilt
    BY <2>1, UsableKey DEF Start
  <2>2. ASSUME ApplyRefuses PROVE Rebuilt
    BY <2>2 DEF ApplyRefuses, IInv, CacheInv, CloseInv
  <2>3. ASSUME ApplyDone PROVE Rebuilt
    BY <2>3, UsableKey DEF ApplyDone, IInv, CacheInv, SyncInv, addressVars, peerVars
  <2>4. ASSUME Boot \/ ChooseKey \/ Request \/ ApplyStops \/ ApplyStarts
        PROVE  UNCHANGED source
    BY <2>4 DEF Boot, ChooseKey, Request, RequestOK, RequestFails, ApplyStops, ApplyStarts
  <2>5. ASSUME WriteCache \/ Loop PROVE UNCHANGED source
    BY <2>5 DEF WriteCache, WriteBegins, WriteFills, WriteRenames, WriteFails, Loop,
       AddressTick, Debounced, PeerFailed, SyncTimer, LoopExits
  <2>6. ASSUME \/ Cancel \/ CloseAll \/ NotePeerFailure \/ (\E w \in Interval : Elapse(w))
               \/ Surroundings \/ Stopped \/ UNCHANGED vars
        PROVE  UNCHANGED source
    BY <2>6 DEF Cancel, CloseAll, NotePeerFailure, Elapse, Surroundings, Stopped, vars
  <2>7. ASSUME Restart PROVE source' = "cache"
    BY <2>7 DEF Restart
  <2> QED
    BY <2>1, <2>2, <2>3, <2>4, <2>5, <2>6, <2>7 DEF Next, Apply
<1> QED
  BY InitIInv, NextIInv, <1>1, PTL DEF Spec, RestartRebuilds

\* A mesh key is chosen once per process, and a peer runs only under one.
KeyIsFixed ==
  [][/\ key # Unset => key' = key \/ pc' = "boot"
     /\ peers' # {} => key' \notin {NoKey, Unset}]_vars

\* The key the server serves with never changes under its clients and peers:
\* no later answer, usable or not, replaces it (SetMeshKey, initialPSK).
THEOREM KeyStays == Spec => KeyIsFixed
<1>1. IInv /\ [Next]_vars => (key # Unset => key' = key \/ pc' = "boot")
  <2> SUFFICES ASSUME IInv, [Next]_vars, key # Unset PROVE key' = key \/ pc' = "boot"
    OBVIOUS
  <2>1. CASE ChooseKey \/ Request
    BY <2>1 DEF ChooseKey, Request, RequestOK, RequestFails, IInv, PhasesInv
  <2>2. CASE Boot \/ Start \/ Apply
    BY <2>2, Zenon DEF Boot, Start, Apply, ApplyRefuses, ApplyStops, ApplyStarts, ApplyDone
  <2>3. CASE WriteCache \/ Loop
    BY <2>3, Zenon DEF WriteCache, WriteBegins, WriteFills, WriteRenames, WriteFails, Loop,
       AddressTick, Debounced, PeerFailed, SyncTimer, LoopExits
  <2>4. CASE \/ Cancel \/ CloseAll \/ NotePeerFailure \/ (\E w \in Interval : Elapse(w))
             \/ Surroundings \/ Restart \/ Stopped \/ UNCHANGED vars
    BY <2>4, Zenon DEF Cancel, CloseAll, NotePeerFailure, Elapse, Surroundings, Restart,
       Stopped, vars
  <2> QED
    BY <2>1, <2>2, <2>3, <2>4, Zenon DEF Next
<1>2. IInv' => (peers' # {} => key' \notin {NoKey, Unset})
  BY Zenon DEF IInv, KeyInv
<1> QED
  BY InitIInv, NextIInv, <1>1, <1>2, PTL DEF Spec, KeyIsFixed

-----------------------------------------------------------------------------
\* A usable answer names only well-formed peers.
LEMMA TargetsType ==
  ASSUME NEW c, Usable(c), NEW own \in Addresses
  PROVE  MeshTargets(c, own) \subseteq Target
<1> SUFFICES ASSUME NEW n \in Nodes(c), Shared(n, own) # {}
             PROVE  [pin |-> n.pin,
                     host |-> n.ip[IF "ipv4" \in Shared(n, own) THEN "ipv4" ELSE "ipv6"]]
                    \in Target
  BY DEF MeshTargets
<1>1. n.pin \in Pin
  BY DEF Usable, GoodNode
<1>2. n.ip[IF "ipv4" \in Shared(n, own) THEN "ipv4" ELSE "ipv6"] \in Addr
  BY DEF Shared, Family
<1> QED
  BY <1>1, <1>2 DEF Target

\* refresh keeps the types of what it computes.
LEMMA RefreshType ==
  ASSUME TypeOK, Refresh
  PROVE  /\ current' \in Addresses /\ lookedUp' \in Addresses /\ waiting' \subseteq Interval
         /\ disturbances' \in 0 .. MaxDisturbances
<1>1. lookedUp' \in Addresses /\ waiting' \subseteq Interval
  BY MeshAssumption DEF TypeOK, Refresh, Addresses, Interval
<1>2. \A f \in Family : OwnAddress(f, lookedUp') \in Addr \cup {NoAddr}
  BY <1>1, MeshAssumption DEF TypeOK, OwnAddress, Addresses
<1>3. current' \in Addresses
  BY <1>2 DEF Refresh, Addresses
<1>4. disturbances' \in 0 .. MaxDisturbances
  BY MeshAssumption DEF TypeOK, Refresh, Calm, Disturb
<1> QED
  BY <1>1, <1>3, <1>4

\* Before the first refresh no family has an address.
LEMMA NoAddresses == [f \in Family |-> NoAddr] \in Addresses
  BY DEF Addresses

\* The state keeps its type, for any registry and any addresses.
THEOREM TypeCorrect == Spec => []TypeOK
<1>1. Init => TypeOK
  <2> SUFFICES ASSUME Init PROVE TypeOK
    OBVIOUS
  <2>1. /\ reported \in Addresses /\ current \in Addresses /\ lookedUp \in Addresses
        /\ disturbances \in 0 .. MaxDisturbances
    BY NoAddresses, MeshAssumption DEF Init
  <2>2. debounce \in BOOLEAN /\ peerFailed \in BOOLEAN /\ synced \in BOOLEAN
    BY Zenon DEF Init
  <2> QED
    BY <2>1, <2>2 DEF Init, TypeOK
<1>2. TypeOK /\ IInv /\ [Next]_vars => TypeOK'
  <2> SUFFICES ASSUME TypeOK, IInv PROVE [Next]_vars => TypeOK'
    OBVIOUS
  <2> USE MeshAssumption
      DEF TypeOK, surroundings, disk, addressVars, peerVars, Calm, Disturb, ReadFile
  <2>1. ASSUME Boot PROVE TypeOK'
    <3>1. CASE ReadFile # NoContent
      BY <2>1, <3>1 DEF Boot
    <3>2. CASE ReadFile = NoContent
      BY <2>1, <3>2, RefreshType DEF Boot
    <3> QED
      BY <3>1, <3>2
  <2>2. ASSUME ChooseKey PROVE TypeOK'
    BY <2>2 DEF ChooseKey, Parses
  <2>3. ASSUME Start PROVE TypeOK'
    BY <2>3, RefreshType DEF Start
  <2>4. ASSUME RequestOK PROVE TypeOK'
    BY <2>4 DEF RequestOK
  <2>5. ASSUME RequestFails PROVE TypeOK'
    <3>1. reported' \in Addresses
      BY <2>5 DEF RequestFails
    <3>2. key' \in PSK \cup {NoKey, Unset} /\ pc' \in {"start", "idle"}
      BY <2>5 DEF RequestFails
    <3>3. disturbances' \in 0 .. MaxDisturbances
      BY <2>5 DEF RequestFails
    <3>4. synced' \in BOOLEAN
      BY <2>5, Zenon DEF RequestFails
    <3> QED
      BY <2>5, <3>1, <3>2, <3>3, <3>4 DEF RequestFails
  <2>6. ASSUME ApplyRefuses PROVE TypeOK'
    BY <2>6, ZenonT(20) DEF ApplyRefuses, ApplyReturns
  <2>7. ASSUME ApplyStops PROVE TypeOK'
    BY <2>7, TargetsType DEF ApplyStops
  <2>8. ASSUME ApplyStarts PROVE TypeOK'
    BY <2>8 DEF ApplyStarts
  <2>9. ASSUME ApplyDone PROVE TypeOK'
    BY <2>9 DEF ApplyDone, ApplyReturns
  <2>10. ASSUME WriteBegins PROVE TypeOK'
    BY <2>10 DEF WriteBegins, AfterWrite
  <2>11. ASSUME WriteFills PROVE TypeOK'
    BY <2>11 DEF WriteFills
  <2>12. ASSUME WriteRenames PROVE TypeOK'
    BY <2>12 DEF WriteRenames, AfterWrite, IInv, CacheInv
  <2>13. ASSUME WriteFails PROVE TypeOK'
    BY <2>13 DEF WriteFails, AfterWrite
  <2>14. ASSUME AddressTick PROVE TypeOK'
    BY <2>14, RefreshType DEF AddressTick
  <2>15. ASSUME Debounced PROVE TypeOK'
    <3>1. debounce' = FALSE /\ pc' = "sync"
      BY <2>15 DEF Debounced
    <3> QED
      BY <2>15, <3>1, ZenonT(20) DEF Debounced
  <2>16. ASSUME PeerFailed PROVE TypeOK'
    <3>1. peerFailed' \in BOOLEAN /\ pc' \in {"idle", "sync"}
      BY <2>16, Zenon DEF PeerFailed
    <3>2. waiting' \subseteq Interval
      BY <2>16 DEF PeerFailed, Interval
    <3> QED
      BY <2>16, <3>1, <3>2 DEF PeerFailed
  <2>17. ASSUME SyncTimer PROVE TypeOK'
    BY <2>17 DEF SyncTimer
  <2>18. ASSUME LoopExits PROVE TypeOK'
    BY <2>18 DEF LoopExits
  <2>19. ASSUME Cancel PROVE TypeOK'
    BY <2>19 DEF Cancel
  <2>20. ASSUME CloseAll PROVE TypeOK'
    BY <2>20 DEF CloseAll
  <2>21. ASSUME NotePeerFailure PROVE TypeOK'
    BY <2>21 DEF NotePeerFailure
  <2>22. ASSUME NEW w \in Interval, Elapse(w) PROVE TypeOK'
    BY <2>22 DEF Elapse, Interval
  <2>23. ASSUME Surroundings PROVE TypeOK'
    BY <2>23 DEF Surroundings
  <2>24. ASSUME Restart PROVE TypeOK'
    <3>1. current' \in Addresses /\ lookedUp' \in Addresses
      BY <2>24, NoAddresses DEF Restart
    <3>2. disturbances' \in 0 .. MaxDisturbances
      BY <2>24 DEF Restart
    <3> QED
      BY <2>24, <3>1, <3>2, Zenon DEF Restart
  <2>25. ASSUME Stopped PROVE TypeOK'
    BY <2>25 DEF Stopped, vars
  <2>26. ASSUME UNCHANGED vars PROVE TypeOK'
    BY <2>26 DEF vars
  <2> QED
    BY <2>1, <2>2, <2>3, <2>4, <2>5, <2>6, <2>7, <2>8, <2>9, <2>10, <2>11, <2>12, <2>13,
       <2>14,
       <2>15, <2>16, <2>17, <2>18, <2>19, <2>20, <2>21, <2>22, <2>23, <2>24, <2>25, <2>26,
       Zenon
    DEF Next, Request, Apply, WriteCache, Loop
<1> QED
  BY <1>1, <1>2, InitIInv, NextIInv, PTL DEF Spec

-----------------------------------------------------------------------------
(* A relay that has settled. *)

\* The addresses are the ones the relay has.
Located == \A f \in Family : ~NeedsLookup(f) /\ current[f] = OwnAddress(f, lookedUp)

\* Settled, with no older answer in hand that apply has yet to act on.
AtRest ==
  /\ Settled
  /\ pc \notin Booting /\ source = "registry"
  /\ pc \in {"apply", "peers"} => answer = registry

\* Only a disturbance, Close or a restart ends the rest: no timer, sync,
\* address tick or failing peer moves a settled relay.
RestsUntilDisturbed ==
  [][AtRest /\ closer' = "open" /\ UNCHANGED disturbances => AtRest']_vars

\* A sync that acts on the registry's present answer, from addresses that are
\* up to date, and whose peers all start, leaves the relay settled.
SyncBringsRest ==
  [][/\ pc = "peers" /\ pc' # "peers" /\ source = "registry"
     /\ answer = registry /\ missing = {} /\ Located
     => AtRest' \/ pc' = "boot"]_vars

\* refresh of a located relay asks nobody and finds the same addresses.
LEMMA RefreshKeeps ==
  ASSUME TypeOK, Located, Refresh
  PROVE  UNCHANGED <<current, lookedUp>>
<1>1. lookedUp' = [f \in Family |-> lookedUp[f]]
  BY DEF Located, Refresh
<1>2. lookedUp \in Addresses /\ current \in Addresses
  BY DEF TypeOK
<1>3. lookedUp' = lookedUp
  BY <1>1, <1>2 DEF Addresses
<1>4. current' = [f \in Family |-> OwnAddress(f, lookedUp)]
  BY <1>3 DEF Refresh
<1>5. current' = current
  BY <1>2, <1>4 DEF Located, Addresses
<1> QED
  BY <1>3, <1>5

\* A step that changes nothing of what Settled looks at.
LEMMA SettledKept ==
  ASSUME Settled, UNCHANGED <<local, registry, reported, current, lookedUp, peers, key>>
  PROVE  Settled'
BY Zenon DEF Settled, NeedsLookup, OwnAddress, HasAddress

\* loop, sync, apply: once the mesh is what the registry lists, repeating the
\* sync changes nothing, so the relay stays settled.  With SyncSettles it is
\* the safety half of Settles.
THEOREM RestLasts == Spec => RestsUntilDisturbed
<1>1. TypeOK /\ IInv /\ [Next]_vars
        => (AtRest /\ closer' = "open" /\ UNCHANGED disturbances => AtRest')
  <2> SUFFICES ASSUME TypeOK, IInv, [Next]_vars, AtRest, closer' = "open",
                      UNCHANGED disturbances
               PROVE  AtRest'
    OBVIOUS
  <2>0. disturbances \in Int
    BY MeshAssumption DEF TypeOK
  <2> USE DEF surroundings, addressVars, peerVars, Booting
  <2>1. CASE Boot \/ ChooseKey \/ Start
    BY <2>1 DEF Boot, ChooseKey, Start, AtRest
  <2>2. CASE RequestOK
    <3>1. reported' = current /\ UNCHANGED <<local, registry, current, lookedUp, peers, key>>
      BY <2>2 DEF RequestOK
    <3>2. Settled'
      BY <3>1, Zenon DEF AtRest, Settled, NeedsLookup, OwnAddress, HasAddress
    <3> QED
      BY <2>2, <3>2 DEF RequestOK, AtRest
  <2>3. CASE RequestFails
    <3>1. pc = "sync"
      BY <2>3 DEF RequestFails, AtRest
    <3>2. ~HasAddress
      BY <2>3, <2>0 DEF RequestFails, Disturb, IInv, CloseInv
    <3>3. UNCHANGED <<local, registry, reported, current, lookedUp, peers, key>>
      BY <2>3, <3>1, <3>2 DEF RequestFails
    <3>4. Settled'
      BY <3>3, SettledKept DEF AtRest
    <3> QED
      BY <2>3, <3>1, <3>4 DEF RequestFails, AtRest
  <2>4. CASE ApplyStops
    <3>1. /\ UNCHANGED <<local, registry, reported, current, lookedUp, key, answer, source>>
          /\ answer = registry /\ Usable(registry) /\ pc' = "peers"
          /\ peers' = peers \cap (IF key = NoKey THEN {} ELSE MeshTargets(registry, current))
      BY <2>4 DEF ApplyStops, AtRest
    <3>2. HasAddress /\ key # NoKey => peers' = peers
      BY <3>1 DEF AtRest, Settled
    <3>3. Settled'
      BY <3>1, <3>2, Zenon DEF AtRest, Settled, NeedsLookup, OwnAddress, HasAddress
    <3> QED
      BY <3>1, <3>3 DEF AtRest
  <2>5. CASE ApplyStarts
    <3>1. /\ UNCHANGED <<local, registry, reported, current, lookedUp, key, answer, source, pc>>
          /\ answer = registry /\ Usable(registry) /\ pc = "peers"
      BY <2>5 DEF ApplyStarts, AtRest, IInv, SyncInv
    <3>2. key # NoKey => todo \subseteq MeshTargets(registry, current)
      BY <3>1 DEF IInv, SyncInv
    <3>3. peers' = peers \/ \E t \in todo : peers' = peers \cup {t}
      BY <2>5 DEF ApplyStarts
    <3>4. HasAddress /\ key # NoKey => peers' = peers
      BY <3>1, <3>2, <3>3 DEF AtRest, Settled
    <3>5. Settled'
      BY <3>1, <3>4, Zenon DEF AtRest, Settled, NeedsLookup, OwnAddress, HasAddress
    <3> QED
      BY <3>1, <3>5 DEF AtRest
  <2>6. CASE ApplyRefuses \/ ApplyDone \/ WriteCache
    <3>1. UNCHANGED <<local, registry, reported, current, lookedUp, peers, key>>
      BY <2>6 DEF ApplyRefuses, ApplyDone, WriteCache, WriteBegins, WriteFills, WriteRenames,
         WriteFails
    <3>2. source' = "registry" /\ pc' \in {"write", "fill", "rename", "idle"}
      BY <2>6 DEF ApplyRefuses, ApplyDone, ApplyReturns, WriteCache, WriteBegins, WriteFills,
         WriteRenames, WriteFails, AfterWrite, AtRest, IInv, PhasesInv, Writing
    <3> QED
      BY <3>1, <3>2, SettledKept DEF AtRest
  <2>7. CASE AddressTick
    <3>1. UNCHANGED <<current, lookedUp>>
      BY <2>7, RefreshKeeps DEF AddressTick, AtRest, Settled, Located
    <3> QED
      BY <2>7, <3>1, SettledKept DEF AddressTick, AtRest
  <2>8. CASE Debounced \/ PeerFailed \/ SyncTimer \/ LoopExits
    <3>1. UNCHANGED <<local, registry, reported, current, lookedUp, peers, key>>
      BY <2>8 DEF Debounced, PeerFailed, SyncTimer, LoopExits
    <3>2. UNCHANGED source /\ pc' \in {"idle", "sync", "done"}
      BY <2>8 DEF Debounced, PeerFailed, SyncTimer, LoopExits
    <3> QED
      BY <3>1, <3>2, SettledKept DEF AtRest
  <2>9. CASE \/ Cancel \/ NotePeerFailure \/ (\E w \in Interval : Elapse(w))
             \/ Stopped \/ UNCHANGED vars
    <3>1. UNCHANGED <<local, registry, reported, current, lookedUp, peers, key>>
      BY <2>9, Zenon DEF Cancel, NotePeerFailure, Elapse, Stopped, vars
    <3>2. UNCHANGED <<source, pc, answer>>
      BY <2>9, Zenon DEF Cancel, NotePeerFailure, Elapse, Stopped, vars
    <3> QED
      BY <3>1, <3>2, SettledKept DEF AtRest
  <2>10. CASE CloseAll \/ Surroundings \/ Restart
    BY <2>10, <2>0 DEF CloseAll, Surroundings, Restart, Disturb
  <2> QED
    BY <2>1, <2>2, <2>3, <2>4, <2>5, <2>6, <2>7, <2>8, <2>9, <2>10, Zenon
    DEF Next, Request, Apply, Loop
<1> QED
  BY InitIInv, NextIInv, TypeCorrect, <1>1, PTL DEF Spec, RestsUntilDisturbed

\* apply leaves exactly the peers of the answer, reported from the addresses in
\* use: one undisturbed sync is enough to settle.
THEOREM SyncSettles == Spec => SyncBringsRest
<1> DEFINE Done == /\ pc = "peers" /\ pc' # "peers" /\ source = "registry"
                   /\ answer = registry /\ missing = {} /\ Located
<1>1. IInv /\ [Next]_vars => (Done => AtRest' \/ pc' = "boot")
  <2> SUFFICES ASSUME IInv, [Next]_vars, Done PROVE AtRest' \/ pc' = "boot"
    OBVIOUS
  <2> USE DEF surroundings, addressVars, peerVars
  <2>1. CASE ApplyDone
    <3>1. /\ todo = {} /\ pc' = "write" /\ source' = "registry"
          /\ UNCHANGED <<local, registry, reported, current, lookedUp, peers, key>>
      BY <2>1 DEF ApplyDone, ApplyReturns
    <3>2. reported = current /\ (key # NoKey => peers = MeshTargets(registry, current))
      BY <3>1 DEF IInv, SyncInv
    <3>3. Settled
      BY <3>2, Zenon DEF Settled, Located
    <3> QED
      BY <3>1, <3>3, SettledKept DEF AtRest, Booting
  <2>2. CASE Restart
    BY <2>2 DEF Restart
  <2>3. CASE Boot \/ ChooseKey \/ Start \/ Request \/ ApplyRefuses \/ ApplyStops
    BY <2>3 DEF Boot, ChooseKey, Start, Request, RequestOK, RequestFails, ApplyRefuses,
       ApplyStops
  <2>4. CASE WriteCache \/ Loop
    BY <2>4 DEF WriteCache, WriteBegins, WriteFills, WriteRenames, WriteFails, Loop,
       AddressTick, Debounced, PeerFailed, SyncTimer, LoopExits
  <2>5. CASE \/ ApplyStarts \/ Cancel \/ CloseAll \/ NotePeerFailure
             \/ (\E w \in Interval : Elapse(w)) \/ Surroundings \/ Stopped \/ UNCHANGED vars
    BY <2>5, Zenon DEF ApplyStarts, Cancel, CloseAll, NotePeerFailure, Elapse, Surroundings,
       Stopped, vars
  <2> QED
    BY <2>1, <2>2, <2>3, <2>4, <2>5, Zenon DEF Next, Apply
<1> QED
  BY InitIInv, NextIInv, <1>1, PTL DEF Spec, SyncBringsRest
=============================================================================
