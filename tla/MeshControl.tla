----------------------------- MODULE MeshControl -----------------------------
(***************************************************************************)
(* service/derp/singr_mesh.go: a relay reports its own addresses to the    *)
(* registry, and gets back the mesh key and the list of relays it keeps    *)
(* connections to.  The last usable answer is cached on disk, so that a    *)
(* restarted relay meshes again before the registry answers.               *)
(*                                                                         *)
(* One goroutine runs initialPSK, start and then loop; Close, the peers    *)
(* and the surroundings (the registry, the network, the disk, a crash)     *)
(* run beside it.  A node is its pin and its address per family, the port  *)
(* being part of the address; a peer is the pin and the address chosen.    *)
(* Timers fire at any moment.  What goes wrong or changes around the relay *)
(* is counted by disturbances.                                             *)
(***************************************************************************)
EXTENDS Integers, FiniteSets

CONSTANTS
  Self,       \* the pin of our certificate
  Pin, Addr,  \* well-formed pins and public addresses
  PSK,        \* well-formed mesh keys
  Pinned,     \* advertise_ipv4 and advertise_ipv6: "auto", "none" or an address
  LocalView,  \* what the kernel may say our source addresses are
  NatAddr,    \* what ip.sb says our addresses are
  Content,    \* the bodies the registry may answer with
  Response,   \* and what each decodes to: a status, a key and a set of nodes
  MaxDisturbances

Family == {"ipv4", "ipv6"}
NoAddr == "no address"
Private == "private address"
NoContent == "no file"
Torn == "half-written file"
NoKey == "no key"
Unset == "key not chosen yet"
Interval == Family \cup {"failure"}  \* publicIPRetryInterval, peerFailureResync
Addresses == [Family -> Addr \cup {NoAddr}]
Target == [pin : Pin, host : Addr]

ASSUME MeshAssumption ==
  /\ Self \in Pin
  /\ {NoAddr, Private, "auto", "none"} \cap Addr = {}
  /\ {NoKey, Unset} \cap PSK = {}
  /\ {NoContent, Torn} \cap Content = {}
  /\ Pinned \in [Family -> Addr \cup {"auto", "none"}]
  /\ LocalView \subseteq [Family -> Addr \cup {NoAddr, Private}]
  /\ NatAddr \in [Family -> Addr]
  /\ DOMAIN Response = Content
  /\ \A c \in Content : Response[c].status \in BOOLEAN
  /\ MaxDisturbances \in Nat

VARIABLES
  local, registry, reported,  \* our source addresses; the registry's answer
                              \* now, and what it knows of us
  cache, tmp,                 \* the cache file and its temporary
  readable,                   \* this process can read the cache file
  pc,                         \* where the control goroutine is
  source,                     \* of the content being applied
  key,                        \* the mesh key the server serves with
  current, lookedUp,          \* of ownAddresses
  waiting,                    \* intervals that have not elapsed yet
  debounce, peerFailed,       \* the channels the loop selects on
  answer,                     \* the content in hand, then the last one
  peers, todo,                \* running peers; the ones apply has yet to start
  closer,                     \* progress of Close
  synced, missing,            \* history: the last sync was usable; the peers
                              \* the last apply could not start
  disturbances

surroundings == <<local, registry>>
disk == <<cache, tmp, readable>>
addressVars == <<current, lookedUp>>
peerVars == <<peers, todo, missing>>
vars == <<surroundings, reported, disk, pc, source, key, addressVars, waiting, debounce,
          peerFailed, answer, peerVars, closer, synced, disturbances>>

TypeOK ==
  /\ local \in LocalView /\ registry \in Content
  /\ reported \in Addresses
  /\ cache \in Content \cup {NoContent} /\ tmp \in Content \cup {NoContent, Torn}
  /\ readable \in BOOLEAN
  /\ pc \in {"boot", "register", "key", "start", "sync", "apply", "peers", "write", "fill",
             "rename", "idle", "done"}
  /\ source \in {"cache", "registry"}
  /\ key \in PSK \cup {NoKey, Unset}
  /\ current \in Addresses /\ lookedUp \in Addresses
  /\ waiting \subseteq Interval
  /\ debounce \in BOOLEAN /\ peerFailed \in BOOLEAN /\ synced \in BOOLEAN
  /\ answer \in Content \cup {NoContent}
  /\ peers \subseteq Target /\ todo \subseteq Target /\ missing \subseteq Target
  /\ closer \in {"open", "cancelled", "closed"}
  /\ disturbances \in 0 .. MaxDisturbances

Disturb == disturbances < MaxDisturbances /\ disturbances' = disturbances + 1
Calm == UNCHANGED disturbances

-----------------------------------------------------------------------------
Nodes(c) == Response[c].nodes

Parses(c) ==
  /\ c \in Content
  /\ Response[c].status /\ Response[c].psk \in PSK /\ Nodes(c) # {}

GoodNode(n) == n.pin \in Pin /\ \A f \in Family : n.ip[f] \in Addr \cup {NoAddr}

\* What apply acts on: one bad entry rejects the whole list.
Usable(c) == Parses(c) /\ \A n \in Nodes(c) : GoodNode(n)

Shared(n, own) == {f \in Family : own[f] \in Addr /\ n.ip[f] \in Addr}

\* IPv4 when both sides have one, else IPv6 when both do.
MeshTargets(c, own) ==
  {[pin |-> n.pin, host |-> n.ip[IF "ipv4" \in Shared(n, own) THEN "ipv4" ELSE "ipv6"]] :
     n \in {m \in Nodes(c) : m.pin # Self /\ Shared(m, own) # {}}}

NeedsLookup(f) == Pinned[f] = "auto" /\ local[f] = Private /\ lookedUp[f] = NoAddr

\* The address of a family to report, given what ip.sb has said.
OwnAddress(f, looked) ==
  IF Pinned[f] = "none" THEN NoAddr
  ELSE IF Pinned[f] # "auto" THEN Pinned[f]
  ELSE IF local[f] \in Addr THEN local[f]
  ELSE looked[f]

\* ownAddresses.refresh: ip.sb is asked, when its turn has come, for the
\* families behind NAT, and answers for some of them.  A family it answered
\* for is never asked about again, so its interval is not kept.
Refresh ==
  LET asked == {f \in Family : NeedsLookup(f) /\ f \notin waiting}
  IN  \E answered \in SUBSET asked :
        /\ IF answered = asked THEN Calm ELSE Disturb
        /\ waiting' = waiting \cup (asked \ answered)
        /\ lookedUp' = [f \in Family |-> IF f \in answered THEN NatAddr[f] ELSE lookedUp[f]]
        /\ current' = [f \in Family |-> OwnAddress(f, lookedUp')]

Init ==
  /\ local \in LocalView /\ registry \in Content
  /\ reported = [f \in Family |-> NoAddr]
  /\ cache \in Content \cup {NoContent} /\ tmp = NoContent /\ readable \in BOOLEAN
  /\ pc = "boot" /\ source = "cache" /\ key = Unset
  /\ current = [f \in Family |-> NoAddr] /\ lookedUp = [f \in Family |-> NoAddr]
  /\ waiting = {} /\ debounce = FALSE /\ peerFailed = FALSE
  /\ answer = NoContent /\ peers = {} /\ todo = {} /\ missing = {}
  /\ closer = "open" /\ synced = FALSE /\ disturbances = 0

-----------------------------------------------------------------------------
(* initialPSK: with a cache, its key; without one, register once. *)

\* A file that cannot be read, for whatever reason, is as good as none.
ReadFile == IF readable THEN cache ELSE NoContent

Boot ==
  /\ pc = "boot"
  /\ \/ /\ ReadFile # NoContent
        /\ answer' = ReadFile /\ pc' = "key"
        /\ UNCHANGED <<addressVars, waiting, disturbances>>
     \/ /\ ReadFile = NoContent
        /\ Refresh /\ pc' = "register"
        /\ UNCHANGED answer
  /\ UNCHANGED <<surroundings, reported, disk, source, key, debounce, peerFailed, peerVars,
                 closer, synced>>

\* The key is fixed from here on: SetMeshKey, before the server serves.
ChooseKey ==
  /\ pc = "key"
  /\ key' = IF Parses(answer) THEN Response[answer].psk ELSE NoKey
  /\ pc' = "start"
  /\ UNCHANGED <<surroundings, reported, disk, source, addressVars, waiting, debounce,
                 peerFailed, answer, peerVars, closer, synced, disturbances>>

\* A bug: the peers wait for the registry.
StartWithoutCache ==
  /\ pc = "start"
  /\ Refresh
  /\ pc' = "sync" /\ source' = "registry"
  /\ UNCHANGED <<surroundings, reported, disk, key, debounce, peerFailed, answer, peerVars,
                 closer, synced>>

\* start: the cached peers first, then the loop.
Start ==
  /\ pc = "start"
  /\ Refresh
  /\ IF ReadFile # NoContent
       THEN pc' = "apply" /\ answer' = ReadFile /\ UNCHANGED source
       ELSE pc' = "sync" /\ source' = "registry" /\ UNCHANGED answer
  /\ UNCHANGED <<surroundings, reported, disk, key, debounce, peerFailed, peerVars, closer,
                 synced>>

-----------------------------------------------------------------------------
(* syncRequest, of initialPSK and of sync.  Without an address there is    *)
(* nothing to report.  A request the registry has taken may still fail on  *)
(* the way back, and every request fails once the context is cancelled.    *)

HasAddress == \E f \in Family : current[f] # NoAddr

RequestOK ==
  /\ pc \in {"register", "sync"}
  /\ HasAddress /\ closer = "open"
  /\ reported' = current /\ answer' = registry
  /\ pc' = IF pc = "register" THEN "write" ELSE "apply"
  /\ UNCHANGED <<surroundings, disk, source, key, addressVars, waiting, debounce, peerFailed,
                 peerVars, closer, synced, disturbances>>

RequestFails ==
  /\ pc \in {"register", "sync"}
  /\ IF HasAddress /\ closer = "open" THEN Disturb ELSE Calm
  /\ reported' \in IF HasAddress THEN {reported, current} ELSE {reported}
  /\ IF pc = "register"
       THEN pc' = "start" /\ key' = NoKey
       ELSE pc' = "idle" /\ UNCHANGED key
  /\ synced' = FALSE
  /\ UNCHANGED <<surroundings, disk, source, addressVars, waiting, debounce, peerFailed,
                 answer, peerVars, closer>>

-----------------------------------------------------------------------------
(* apply.  The interval and the warnings are left out. *)

\* start goes on to the loop, whose first step is a sync; sync returns to it.
ApplyReturns(next) ==
  /\ pc' = IF source = "cache" THEN "sync" ELSE next
  /\ source' = "registry"

\* A bug: whatever the registry answers is cached.
ApplyRefusesCached ==
  /\ pc = "apply" /\ (~Usable(answer) \/ closer # "open")
  /\ ApplyReturns("write")
  /\ synced' = FALSE
  /\ UNCHANGED <<surroundings, reported, disk, key, addressVars, waiting, debounce,
                 peerFailed, answer, peerVars, closer, disturbances>>

\* A bad answer keeps the current peers; so does one that arrives after Close.
ApplyRefuses ==
  /\ pc = "apply" /\ (~Usable(answer) \/ closer # "open")
  /\ ApplyReturns("idle")
  /\ synced' = FALSE
  /\ UNCHANGED <<surroundings, reported, disk, key, addressVars, waiting, debounce,
                 peerFailed, answer, peerVars, closer, disturbances>>

\* A bug: a bad entry is skipped, and the peer it was for is stopped.
ApplyStopsBroken ==
  /\ pc = "apply" /\ Parses(answer) /\ closer = "open"
  /\ LET wanted == IF key = NoKey THEN {} ELSE MeshTargets(answer, current)
     IN  peers' = peers \cap wanted /\ todo' = wanted \ peers
  /\ missing' = {}
  /\ pc' = "peers"
  /\ UNCHANGED <<surroundings, reported, disk, source, key, addressVars, waiting, debounce,
                 peerFailed, answer, closer, synced, disturbances>>

\* A bug: a peer that failed to start is not tried again.
ApplyStopsOnce ==
  /\ pc = "apply" /\ Usable(answer) /\ closer = "open"
  /\ LET wanted == IF key = NoKey THEN {} ELSE MeshTargets(answer, current)
     IN  /\ peers' = peers \cap wanted
         /\ todo' = wanted \ (peers \cup missing)
         /\ missing' = missing \cap wanted
  /\ pc' = "peers"
  /\ UNCHANGED <<surroundings, reported, disk, source, key, addressVars, waiting, debounce,
                 peerFailed, answer, closer, synced, disturbances>>

\* Stop the peers that are not listed.  Without a key there are no peers.
ApplyStops ==
  /\ pc = "apply" /\ Usable(answer) /\ closer = "open"
  /\ LET wanted == IF key = NoKey THEN {} ELSE MeshTargets(answer, current)
     IN  peers' = peers \cap wanted /\ todo' = wanted \ peers
  /\ missing' = {}
  /\ pc' = "peers"
  /\ UNCHANGED <<surroundings, reported, disk, source, key, addressVars, waiting, debounce,
                 peerFailed, answer, closer, synced, disturbances>>

\* Start one that is new, in any order; one that fails is left out.
ApplyStarts ==
  /\ pc = "peers"
  /\ \E t \in todo :
       /\ todo' = todo \ {t}
       /\ \/ peers' = peers \cup {t} /\ Calm /\ UNCHANGED missing
          \/ missing' = missing \cup {t} /\ Disturb /\ UNCHANGED peers
  /\ UNCHANGED <<surroundings, reported, disk, pc, source, key, addressVars, waiting, debounce,
                 peerFailed, answer, closer, synced>>

ApplyDone ==
  /\ pc = "peers" /\ todo = {}
  /\ ApplyReturns("write")
  /\ synced' = (source = "registry")
  /\ UNCHANGED <<surroundings, reported, disk, key, addressVars, waiting, debounce,
                 peerFailed, answer, peerVars, closer, disturbances>>

-----------------------------------------------------------------------------
(* writeCache: through a temporary file, and only when the content differs. *)

AfterWrite == IF key = Unset THEN "key" ELSE "idle"

WriteBegins ==
  /\ pc = "write"
  /\ IF ReadFile = answer
       THEN pc' = AfterWrite /\ UNCHANGED tmp
       ELSE pc' = "fill" /\ tmp' = Torn
  /\ UNCHANGED <<surroundings, reported, cache, readable, source, key, addressVars, waiting,
                 debounce, peerFailed, answer, peerVars, closer, synced, disturbances>>

WriteFills ==
  /\ pc = "fill"
  /\ tmp' = answer /\ pc' = "rename"
  /\ UNCHANGED <<surroundings, reported, cache, readable, source, key, addressVars, waiting,
                 debounce, peerFailed, answer, peerVars, closer, synced, disturbances>>

WriteRenames ==
  /\ pc = "rename"
  /\ cache' = tmp /\ tmp' = NoContent /\ readable' = TRUE
  /\ pc' = AfterWrite
  /\ UNCHANGED <<surroundings, reported, source, key, addressVars, waiting, debounce,
                 peerFailed, answer, peerVars, closer, synced, disturbances>>

\* Either step may fail; the temporary is removed.
WriteFails ==
  /\ pc \in {"fill", "rename"} /\ Disturb
  /\ tmp' = NoContent
  /\ pc' = AfterWrite
  /\ UNCHANGED <<surroundings, reported, cache, readable, source, key, addressVars, waiting,
                 debounce, peerFailed, answer, peerVars, closer, synced>>

-----------------------------------------------------------------------------
(* loop: one case of the select each. *)

\* A bug: a tick that sees no change takes back the debounce of one that did.
AddressTickResets ==
  /\ pc = "idle"
  /\ Refresh
  /\ debounce' = (current' # current)
  /\ UNCHANGED <<surroundings, reported, disk, pc, source, key, peerFailed, answer, peerVars,
                 closer, synced>>

AddressTick ==
  /\ pc = "idle"
  /\ Refresh
  /\ debounce' = (debounce \/ current' # current)
  /\ UNCHANGED <<surroundings, reported, disk, pc, source, key, peerFailed, answer, peerVars,
                 closer, synced>>

Debounced ==
  /\ pc = "idle" /\ debounce
  /\ debounce' = FALSE /\ pc' = "sync"
  /\ UNCHANGED <<surroundings, reported, disk, source, key, addressVars, waiting, peerFailed,
                 answer, peerVars, closer, synced, disturbances>>

\* At most one sync per interval for peers that fail.
PeerFailed ==
  /\ pc = "idle" /\ peerFailed
  /\ peerFailed' = FALSE
  /\ IF "failure" \in waiting
       THEN UNCHANGED <<pc, waiting>>
       ELSE pc' = "sync" /\ waiting' = waiting \cup {"failure"}
  /\ UNCHANGED <<surroundings, reported, disk, source, key, addressVars, debounce, answer,
                 peerVars, closer, synced, disturbances>>

SyncTimer ==
  /\ pc = "idle" /\ pc' = "sync"
  /\ UNCHANGED <<surroundings, reported, disk, source, key, addressVars, waiting, debounce,
                 peerFailed, answer, peerVars, closer, synced, disturbances>>

LoopExits ==
  /\ pc = "idle" /\ closer # "open"
  /\ pc' = "done"
  /\ UNCHANGED <<surroundings, reported, disk, source, key, addressVars, waiting, debounce,
                 peerFailed, answer, peerVars, closer, synced, disturbances>>

-----------------------------------------------------------------------------
(* Close, which the service registers once start has returned. *)

Cancel ==
  /\ closer = "open" /\ source = "registry"
  /\ closer' = "cancelled"
  /\ UNCHANGED <<surroundings, reported, disk, pc, source, key, addressVars, waiting, debounce,
                 peerFailed, answer, peerVars, synced, disturbances>>

CloseAll ==
  /\ closer = "cancelled" /\ pc = "done"
  /\ closer' = "closed" /\ peers' = {}
  /\ UNCHANGED <<surroundings, reported, disk, pc, source, key, addressVars, waiting, debounce,
                 peerFailed, answer, todo, missing, synced, disturbances>>

-----------------------------------------------------------------------------
(* The surroundings. *)

\* notePeerFailure: a failing peer leaves one signal, unless it was stopped.
NotePeerFailure ==
  /\ peers # {} /\ closer = "open"
  /\ peerFailed' = TRUE
  /\ UNCHANGED <<surroundings, reported, disk, pc, source, key, addressVars, waiting, debounce,
                 answer, peerVars, closer, synced, disturbances>>

Elapse(w) ==
  /\ w \in waiting /\ waiting' = waiting \ {w}
  /\ UNCHANGED <<surroundings, reported, disk, pc, source, key, addressVars, debounce,
                 peerFailed, answer, peerVars, closer, synced, disturbances>>

Surroundings ==
  /\ Disturb
  /\ \/ local' \in LocalView /\ UNCHANGED registry
     \/ registry' \in Content /\ UNCHANGED local
  /\ UNCHANGED <<reported, disk, pc, source, key, addressVars, waiting, debounce, peerFailed,
                 answer, peerVars, closer, synced>>

\* The process stops, at any point, and starts again with what is on disk, if
\* it can read it.
Restart ==
  /\ Disturb
  /\ pc' = "boot" /\ source' = "cache" /\ key' = Unset
  /\ current' = [f \in Family |-> NoAddr] /\ lookedUp' = [f \in Family |-> NoAddr]
  /\ waiting' = {} /\ debounce' = FALSE /\ peerFailed' = FALSE
  /\ answer' = NoContent /\ peers' = {} /\ todo' = {} /\ missing' = {}
  /\ closer' = "open" /\ synced' = FALSE
  /\ readable' \in BOOLEAN
  /\ UNCHANGED <<surroundings, reported, cache, tmp>>

\* Close has returned: nothing is left to run.
Stopped == closer = "closed" /\ UNCHANGED vars

-----------------------------------------------------------------------------
Request == RequestOK \/ RequestFails
Apply == ApplyRefuses \/ ApplyStops \/ ApplyStarts \/ ApplyDone
WriteCache == WriteBegins \/ WriteFills \/ WriteRenames \/ WriteFails
Loop == AddressTick \/ Debounced \/ PeerFailed \/ SyncTimer \/ LoopExits

Next ==
  \/ Boot \/ ChooseKey \/ Start
  \/ Request \/ Apply \/ WriteCache \/ Loop
  \/ Cancel \/ CloseAll
  \/ NotePeerFailure \/ (\E w \in Interval : Elapse(w)) \/ Surroundings \/ Restart \/ Stopped

Spec == Init /\ [][Next]_vars

\* The goroutine runs; an interval elapses; a ready case of the select is not
\* passed over forever; Close waits for the loop and goes on.
Fairness ==
  /\ WF_vars(Boot \/ ChooseKey \/ Start \/ Request \/ Apply \/ WriteCache)
  /\ WF_vars(SyncTimer) /\ SF_vars(AddressTick) /\ SF_vars(LoopExits)
  /\ (\A w \in Interval : WF_vars(Elapse(w))) /\ WF_vars(CloseAll)

FairSpec == Spec /\ Fairness

-----------------------------------------------------------------------------
\* Between a usable sync and the next one, the registry knows our addresses
\* and the peers are those its answer lists for them, less the ones that could
\* not be started, unless the debounce that follows an address change is
\* running: no address change is reported late or meshed around (loop, apply).
SyncedIsCurrent ==
  synced /\ ~debounce /\ pc \in {"write", "fill", "rename", "idle"} =>
    /\ reported = current
    /\ key # NoKey => peers \cup missing = MeshTargets(answer, current)

\* Close leaves no peer running, whatever apply was doing when the context was
\* cancelled: it may start peers after the cancel, and Close waits for it.
ClosedHasNoPeers == closer = "closed" => peers = {}

\* A usable cache is never replaced by anything a restart could not use: not by
\* a bad answer, nor by a file cut short by a crash or a full disk.  One that
\* cannot be read is: initialPSK caches the first answer as it comes.
UsableCacheStays == [][Usable(ReadFile) => Usable(cache')]_vars

\* Only an answer that is good in every entry stops a peer of a running relay,
\* and only a peer that the answer does not list at the address in use: a
\* broken registry, or an unreachable one, keeps the mesh.
OnlyUnlistedStopped ==
  [][\A t \in peers \ peers' :
       \/ pc' = "boot" \/ closer' = "closed"
       \/ Usable(answer) /\ t \notin MeshTargets(answer, current)]_vars

\* A restart with a usable cache serves with the cached key and has tried every
\* cached peer it shares a family with before it first needs the registry.
RestartRebuilds ==
  [][source = "cache" /\ source' = "registry" /\ Usable(ReadFile) =>
       /\ key = Response[ReadFile].psk
       /\ peers' \cup missing' = MeshTargets(ReadFile, current')]_vars

Settled ==
  /\ \A f \in Family : ~NeedsLookup(f) /\ current[f] = OwnAddress(f, lookedUp)
  /\ HasAddress => reported = current
  /\ HasAddress /\ Usable(registry) /\ key # NoKey => peers = MeshTargets(registry, current)

\* A relay that is left running settles: it reports the addresses it has, and
\* runs exactly the peers the registry lists for them, however requests,
\* lookups, peers and cache writes failed before, and whenever the addresses
\* or the list changed.
Settles == <>[](pc # "boot" /\ closer = "open") => <>[]Settled
=============================================================================
