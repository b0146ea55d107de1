# SingR in TLA+

SingR is a fork of sing-box that runs proxy nodes for an SSPanel-style panel.
The fork adds a *panel controller* (`src/poet`), inbounds that can be
reconfigured while they serve (`src/protocol/{anytls,hysteria2,naive}`), and a
self-organising relay mesh (`src/service/derp/singr_mesh.go`). This directory
specifies that added part, the life of the process around it, and the DNS rule
walk: what they do when the panel, the network, the disk, the operator and the
program's own goroutines interleave. TLC checks the specifications
on small instances, and TLAPS proves the most important properties for all
instances.

## 1. The system and its parts

| part | code | specified in |
|---|---|---|
| periodic task runner | `poet/common/task/periodic.go` | `Periodic` |
| panel controller: boot, node monitor, user sync | `poet/controller/{controller,control,userbuilder}.go` | `Controller` |
| traffic accounting: counters, drains, reports | `poet/controller/{user,control,controller}.go`, `poet/poet.go` | `UserTraffic`, `BillingLedger` |
| online addresses and the device limit | `poet/controller/{user,control,controller}.go`, `poet/api/sspanel/sspanel.go` | `OnlineIPs`, `UserMonitor` |
| audit rules and hits | `poet/controller/controller.go`, `poet/api/sspanel/sspanel.go` | `Audit`, `UserMonitor` |
| panel client: ETags, retry policy, device shares | `poet/api/sspanel/sspanel.go` | inside `Controller`, `UserTraffic`, `OnlineIPs`, `Audit` |
| process, box and panel: start, reload, stop | `cmd/sing-box/{cmd_run,cmd_check}.go`, `box.go`, `adapter/lifecycle.go`, `poet/poet.go`, `poet/panel/panel.go` | `Lifecycle` (and the phases of `NodeReload`) |
| hot reload of AnyTLS, Hysteria2, Naive | `protocol/*/inbound.go`, `pinbound.go` | `NodeReload`, `TLSReload`, `AnyTLSInbound`, `NaiveInbound`, `Hysteria2Inbound`, `ReloadContract` |
| relay mesh control | `service/derp/singr_mesh.go` | `MeshControl` |
| DNS rule walk: evaluate, race, speculative | `dns/router.go`, `route/rule/rule_dns.go` | `DNSRuleWalk` |
| router, DNS client, outbound groups, transports, Clash API | upstream sing-box | not modelled (section 9) |

How they interact: `Periodic` runs two tasks of a `Controller`. The *node monitor*
fetches the node and the user list from the panel, both behind ETags, so that an
unchanged answer is a 304 without a body. It pushes the user difference into the
inbound's runtime table and into the authenticator, and hands changed node settings
to the inbound's `ConfigureFromPanelNode`. The *user monitor* drains what
connections leave behind, traffic counters, source addresses and audit hits, and
reports it. The box starts the controllers before the inbounds and stops them before
it closes the inbounds, but stopping does not wait for a tick in flight. SIGHUP
makes a new box in the same process, and a table of inbounds, the active panel and
goroutines nobody waits for outlive the old one. The mesh control is a service of
its own, with its own goroutine.

## 2. Modules

**`Periodic`**. State: `running`, `timer`, and a program counter per goroutine;
a timer that has not fired is a goroutine waiting at `armed`. Every critical
section of the mutex is one action (`Start`, `HasClosed`, `Execute`, `Rearm`,
`Close`, ...); `Execute` runs outside the lock, so all of them interleave with it.

**`Lifecycle`** extends `Periodic` with who starts and closes the tasks. The main
goroutine (`at`) reads `server.json` (`options`), goes through `create`, which
filters it by `panel.json` as it is by then, `Box.Start`, the wait for a signal,
`check`, `Box.Close` and back; `cleanups` is the scope's list, `ctx` the live
contexts, `registered` the process-wide table of inbounds by tag, `attached` what
the panel's nodes took from it. Beside it run the helper goroutine of every
`create`, the two kinds of `closeMonitor`, the monitors, signals and edits of the
two files. A task is named by the box whose panel runs it; `early` is history, the
tasks that were closed before their `Start`. A component may fail at any stage; a
cleanup may hang; `Exit` ends everything.

**`Controller`**. One goroutine (justified by `Periodic!NoOverlap`), so one
`pc`. Its actions are the fallible parts of `Controller.Start` and
`nodeInfoMonitor` in the code's order: fetch node, fetch users, remove, add,
commit, limits, reload. `eTags` holds the content a stored ETag stands for, and
is set when a body parses, before anything is applied, as in the client.
`world` is chosen in the initial state: the kind of inbound (incremental and
configurable like AnyTLS, Hysteria2 and Naive, or with a full refresh and settings
of its own like the others), whether the panel sends ETags, and which calls may
return an error. It lets a single run cover all kinds of inbound and failure.

**`UserTraffic`**. A *chunk* is a unit of traffic; a meter is a `User` object.
Deleting and re-adding a user allocates a new meter, and connections keep the
one they attached to. The two drains (user monitor and
`dumpTrafficForDeleted`) are the same actions for two processes; `ResetTraffic`
is two separate swaps, also in `DelUser`, whose user is still found in the table
between them. `BillingLedger` is the abstract specification: a chunk is
used once, then charged at most once, to its user. `UserTraffic` is shown to
implement it (`LedgerSpec`).

**`OnlineIPs`** has `AddIP` and `ResetIPTable` access by access, since the table
and its count are separate, the online report, and the user list that
`ParseUserListResponse` computes from the panel's `alive_ip` and from
`LastReportOnline`. A list is applied in `syncUserList`'s steps: the traffic of
the users it lacks is taken, then the runtime may refuse it, and it is kept for a
retry. Only the panel's total is observed: addresses it knows from
this node (`alive`) and a number from others. **`Audit`** has the rule versions with
their ETag, the dedup map with its pruning, and the hits; a report is sent again
when its connection fails (`RetryIllegal`). `lastHit`, `hits`, `sent` and `told`
are history. **`UserMonitor`** composes the two: one tick of the user monitor drains
first the addresses, then the hits, and a tick of the node monitor comes to the
rules only after a user sync without an error.

**`NodeReload`** models who calls an inbound and when (boot, tick, stop, close). A
tick whose user sync fails returns before the call and remembers nothing
(`SyncFails`, `skipped`), and a node without a port ends the monitor (`NoPort`,
`ended`). The three inbound modules extend it with the handler, step by step: TLS, bind,
swap, close old. `open` and `tlsStarted` are the sockets and TLS configurations
that exist, so that leaks are visible. **`TLSReload`** has that state, and what is
expected of it, for the two inbounds whose TLS lives outside the service: AnyTLS,
on TCP, and Naive, on TCP, UDP or both. **`ReloadContract`** is the abstract
specification of a reload, which is what `Controller` assumes of
`ConfigureFromPanelNode`: success serves the new settings, failure the old ones,
and in between the old or the new. Each inbound is checked to implement it
(`ContractSpec`), AnyTLS and Naive without a gap in service, Hysteria2 with one.
Hysteria2 implements it until a restart on the same port has failed, since then
the inbound is down, as its comment says; `RetryBringsUp` covers what follows.

**`MeshControl`**. The control goroutine from `initialPSK` over `start` to
`loop`; `apply` starts peers one at a time; the cache is written through a
temporary file in three steps, and a process may be unable to read it (`readable`),
which counts as no cache. Beside it run `Close`, failing peers, timers, and
the surroundings: own addresses, registry answers, crash and restart. A registry
answer is a name (`Content`) with what it decodes to (`Response`). The registry
is external and modelled from how the code uses it.

**`DNSRuleWalk`**. One query: `ruleIndex`, the armed race rules and what they were
armed with, the futures of the evaluate rules and `namedResponses` (`settled`).
`settleDNSFutures` and `sweepArmedDNSRules` take one element at a time, because
responses arrive between their iterations. A response is what a rule bound to it
looks for ("good"), or not, or an error. The synchronous and the asynchronous entry
differ only in who waits.

`MC*` modules give the constants their values; `*Proofs` hold the theorems.
Definitions introduced by "A bug" are faulty variants of the definition below
them. No specification uses them: substituting one shows that the property it
was written for can fail.

## 3. Abstractions

* Names, payloads and messages are members of small sets. A TLS configuration is
  named by its SNI, a credential by its value, an HTTP body by its identity.
* Time: a timer may fire at any moment. Rate windows (`waiting` in
  `MeshControl`) are flags that an elapse action clears.
* The panel's ETag is the identity of the content it was sent with. A panel sends
  ETags always or never; one that sends them now and then is left out.
* The inbounds' configuration enables TLS, as panel nodes need it.
* Formatting, logging, metrics and the data path of the protocols are left out.
* A process crash keeps completed file operations; power loss is not modelled.

## 4. Runs

| run | bounds | distinct states | shows |
|---|---|---|---|
| `lifecycle` | 1 reload, 1 edit of the files, 2 tags, 1 monitor per panel, 2 goroutines each | 64,327 | no monitor is left running when a box is taken down, nodes use their own box's inbounds, a cancelled box is being closed, ticks neither overlap nor begin after `Close`, SIGTERM ends the process |
| `controller` | 2 users, 2 materials, 4 nodes (one without a port, one without a host), 2 edits, 2 failures | 471,343 | users, limits and settings follow the panel across 304s and retries |
| `lost_reload` | 1 user, 1 edit, 1 failure | violation | section 8 |
| `traffic` | 1 user, 2 meters, 1 connection, 2 chunks (one per direction), 3 syncs, 1 retry | 122,928 | every counted chunk is in one place, charged at most once, and in the end charged, unless its report failed or its user was deleted |
| `traffic_reset` | the same, 1 sync | violation | section 8 |
| `monitor` | 1 user, 2 meters, 2 connections, 2 addresses, limit 2, 2 lists; 3 rule versions, 2 keys, 5 clock steps, 1 retry | 201,510 | the address count never falls short, the node's share of the limit, addresses and hits are reported, repeats are suppressed, rules follow the panel |
| `device_limit` | the same, limit 1 | violation | section 8 |
| `anytls` | 3 edits, 2 failures | 82,250 | reloads roll back, leak nothing, keep the contract, converge unless a failed user sync made the controller skip one |
| `hysteria2` | 3 edits, 2 failures, 1 user, 2 user operations | 624,506 | the users survive rebuilds, nothing leaks, retries bring the inbound up |
| `naive` | 3 edits, 2 failures, TCP and UDP | 40,609 | both networks move together; a closed inbound stays closed |
| `mesh` | 2 views of the own addresses, 4 registry answers, 2 disturbances | 154,731 | reports and peers are current, bad answers cost nothing, a restart meshes from the cache it can read, the relay settles |
| `dns_walk` | 16 lists of 4 to 6 rules | 288,007 | nothing behind a race comes too soon, the outcome is the list's, the walk ends |

Why the bounds are enough for the cases of interest:

* `controller`: an edit, a failure while it is applied, a second edit (or taking
  the first one back) before the retry, and a second failure. Two users let one
  change while the other is deleted or added. Speeds 0, 1, 2 tell "no limit"
  from a minimum.
* `lifecycle`: one reload has two boxes, so everything that outlives a box meets
  the next one. Two worlds share the bound: in one the monitors run and SIGHUP
  arrives at any moment, in the other the files change, both signals are sent and
  no monitor is scheduled.
* `monitor`: two connections may store the same address or different ones while
  the monitor drains; two lists are enough to drop a user and bring them back. Each
  behaviour is about the table, the limits or the hits, which share little. The
  pruning limit of 4096 entries is 1, the three retries of a report are one.
* `dns_walk`: the lists have two races, races before held, speculative and missing
  rules, responses without a tag replacing each other, inverted and two-fold
  bindings, and all pairs from a small stock behind two evaluate rules.
* `traffic`: three syncs are add, delete, add again; two meters are the old and
  the new one of the re-added user; the connection may hold either. The
  attribution to the right user among several is proved (section 6).
* inbounds: the third edit makes "change, change back, change again" possible,
  with a failure, of a call or of a user sync, at two of them. The nodes include one
  without a host, one above port 65535 and one with port 0, and AnyTLS also meets a
  node of another type, so every refusal happens.
* `mesh`: two disturbances are, for instance, a failed cache write followed by a
  crash, or an address change followed by a lost answer. The four answers are
  two good ones with different keys and peers, one with a broken entry, and one
  without a valid key; the cache starts with any of them, missing or unreadable.

Deadlock is checked in `traffic`, `monitor` and `mesh`. The controller stops
for good at an error in `Start`, or when the monitor returns one; the inbound
models stop when the box is closed, `lifecycle` when the process exits, and
`dns_walk` when the query is answered.

## 5. Properties

* `Periodic`, checked under `Lifecycle`: `NoOverlap`, `NoExecuteAfterClose`,
  `KeepsTicking`.
* `Lifecycle`: `NothingLeftRunning`, `AttachedToOwn`, `CancelledIsClosing`,
  `StopsOnTerm`. Proved only: `NeverQuiet`, `NoStrayTimer`, `TermIsKept`.
* `Controller`: `RuntimeFollowsMap` and `NoStaleLogin` (who can log in, and with
  which credential, between two ticks), `ReloadRememberedIfSynced`,
  `LimitsFollowNode`, `ConvergesIfSynced`, `UsersConverge`. `RetryIsCurrent` (the
  list kept for a replay under 304), `CommitAfterRuntime`, `ETagsAreTaken`,
  `UsersSettled` and `NodeSettled` are proved only.
  The conditions `AtomicDelta` and `SyncSucceeds` name the worlds in which a
  property holds; section 8 has what happens in the others.
* `UserTraffic`: `InOnePlace`, `LedgerSpec` (refinement), `CountedIsCharged`,
  `RawOnlyWhileChanging` (a connection without a meter exists only around a
  change of its user). Proved only: `OnItsWay`, `DiscardedForCause`.
* `UserMonitor`: `IPNumCovers` (an inequality: two calls that store one address do
  count it twice), `ShareOfLimit` (for a list and a report that agree; section 7),
  `OnlineReported` (unless a list without the user comes first), `RecordedApart`,
  `AuditKeepsUp` (hits are sent; the rules follow while user syncs go on to
  succeed). Proved only: `AdmittedWithin`,
  `DrainedIsListed`, `TagIsInForce`, `HitsAccounted`.
* Inbounds: `CleanBetweenCalls`, `NothingLeaked`, `ClosedStaysClosed` (Naive),
  `ContractSpec` (refinement), `UsersSurvive`, `Converges` and `RetryBringsUp`, both
  of them unless the tick that fetched the node could not sync the users or a node
  without a port ended the monitor. Proved only: `ServesUnlessPending`,
  `AlwaysServed`, `GapOnlyForSNI`.
* `MeshControl`: `SyncedIsCurrent`, `UsableCacheStays`, `OnlyUnlistedStopped`,
  `RestartRebuilds`, `Settles`. Proved only: `ClosedHasNoPeers`, `KeyIsFixed`,
  `SyncBringsRest`, `RestsUntilDisturbed`.
* `DNSRuleWalk`: `HeldForRaces`, `AsListedIfSettled` (against a reading of the list
  that knows nothing of time: `Takes`, `InForce`), `Ends`. `WaitsForAnswers` is
  proved only.

Every component has a type invariant `TypeOK` (`LifeTypes` in `LifecycleProofs`);
for `Controller` and `MeshControl` it is a theorem.

### Fairness

A goroutine that can take a step takes it: weak fairness of the monitor, of the
drains, of the handler, of the mesh goroutine. A timer fires (`Fire`, `Tick`,
`SyncTimer`, `Elapse`). The panel, the operator and failures have no fairness, and
their number is bounded, so a liveness property reads "once the panel is left alone
and calls stop failing". In `UserMonitor` the fetch of the rules is strongly fair: a
node monitor that comes to it again and again is not refused every time. That it
does come to it is a hypothesis of `AuditKeepsUp`. In `MeshControl`, `AddressTick`
and `LoopExits` are strongly fair: both are cases of a Go `select`, which chooses
uniformly among the ready cases: the address ticker (5 s) and, after `Close`, the
cancelled context are ready again and again when the loop comes back to it.

In `Lifecycle`, a cleanup that a signal asked for has no fairness, it may hang;
`closeMonitor` has. After a failed start there is no `closeMonitor` in `run`, and
the cleanups are assumed to return. In `DNSRuleWalk` a query that was sent is
answered or times out, as the client's deadline guarantees, and the caller need
not leave.

## 6. Proofs

All theorems hold for arbitrary constants under the named assumptions of each
module (disjointness of special values, types of the constants).

* **`LifecycleProofs`**: for a periodic task `TaskNoOverlap`,
  `TaskNoExecuteAfterClose`, `TaskNeverQuiet` and `TaskNoStrayTimer`; for the
  program `NothingIsLeftRunning`, `NodesUseOwnInbounds`, `KeptBoxIsLive`,
  `MonitorsDoNotOverlap`, `MonitorsNoExecuteAfterClose`, `MonitorsNeverQuiet` and
  `TermIsNeverLost`, for any number of reloads, tags, tasks and edits. What makes
  `NoOverlap` inductive: nothing of a task exists before its `Start`, which happens
  once, and a task that was closed never runs again (`IInv`). `LInv` adds to it what
  every position of the main goroutine knows: while the box starts, every inbound it
  has is registered as its own (`Starts`); when it is up and its context is or is
  about to be cancelled, a signal is in the channel or a rejected reload is the
  reason (`Up`, `Cancelled`); and once the panel was stopped none is active
  (`Stopped`). `Accounted` follows the monitors: every one that was launched is the
  active panel's, on the list that `Panel.Close` works off, or closed, after its
  `Start` or before it. `LifeSteps` reduces what the program does to a task to the
  steps of `Periodic` and `Exit`, so what is proved of a task carries over to the
  monitors. That a task never goes quiet and that its armed timer is the one `Close`
  stops are proved together: a `Rearm` would otherwise leave a second timer.
* **`DNSRuleWalkProofs`**: `RacesAreHeldFor`, `OutcomeIsListed` and `NoWakeUpLost`,
  for every list of rules that the validation accepts. For the first, `IInv` says
  that a race rule which is no longer armed has all it was armed for, and that
  whatever has been sent lies behind the walk or is the held route's query. The
  second compares the walk with a reading of the list in which nothing takes time.
  While the walk is on (`Walking`), the anonymous future and the options are those
  the list gives the rule in hand, and of every rule behind it either it waits for
  nothing and does not take the query, or it is armed with what was in force where
  it stands (`ArmedRight`). A rule that waits for nothing is `Fixed`: no response
  that arrives later changes how the list reads up to it (`FixedKept`), which is why
  the choice, once made, stays the right one (`Right`). That the recursive function
  `InForce` is defined for every index is itself proved, by the least index at which
  it would not be (`Least`, `InForceToExists`, `InForceToUnique`). For
  `NoWakeUpLost`, every future that the walk holds was launched (`Links`), and what
  a sweep has passed over is not ready, unless a response came since, and that one
  wakes the walk (`Awake`).
* **`InboundProofs`**: `AnyTLSReloadsAreClean`, `NaiveReloadsAreClean`, the
  refinements `AnyTLSImplementsContract`, `NaiveImplementsContract`, then
  `AnyTLSForgetsNothing`, `AnyTLSAlwaysServes`, `NaiveForgetsNothing`,
  `NaiveAlwaysServes` and, for Naive, `ClosedForGood`. The two inbounds share the
  state and the properties of `TLSReload`, and the module proves about AnyTLS through
  its instance `A`; nothing there uses that AnyTLS serves TCP only
  (`AnyTLSAssumption`). `Live` says at every step of the handler
  which sockets are open, which TLS configurations run and which of them are
  current; `Order` that only a running inbound reloads and, for Naive, that no
  reload is under way once `Close` has the lock. For AnyTLS `ALive` ends with
  `Close`, since a tick in flight may reload a closed inbound (section 7). What
  clients are served (`Served`) follows from `Live`, and with it every step is a
  step of `ReloadContract` or a stutter. `Applied` joins the inbound to the
  controller: only a pending retry, or a user sync that failed in the tick, excuses
  options that are not the node's.
* **`Hysteria2InboundProofs`**: `ReloadKeepsUsers`, `ReloadsLeakNothing`,
  `PortMovesWithoutGap`, `ForgetsNothing` and the refinement `ImplementsContract`.
  Here `Live` also says when the port is free in the middle of a reload, that is,
  where a failed start leaves the inbound down; from then on the contract counts it
  as closed (`Stage`). `Users` follows the user table through a reload: the mirror
  and the running service agree at every step, and the service being built has
  everybody who was and stayed in it.
* **`ControllerProofs`**: `TypeCorrect`, `KeptListIsCurrent`, `NoStaleCredential`,
  `RuntimeIsMap`, `CommitIsLast`, `ReloadIsRemembered`, `LimitsAreCurrent`,
  `NotModifiedHidesNothing`, `UsersAreSettled`, `NodeIsSettled`. The properties
  speak of the idle state; the invariants `ListIsCurrent` and `NoStale` say what
  holds at every `pc`. In particular, while a list is applied, a credential in the
  runtime is the user's in the map that is being replaced or, after the runtime
  changed, in the one replacing it. The others add, per `pc`, what is still to be
  done (`RuntimeInv`, `ReloadInv`, `LimitInv`). `ETagInv` follows the ETags from the
  moment they are stored, before their content is applied, to the commit or the
  pending retry; with the others it gives the last two, that a controller at rest
  has what the panel has.
* **`UserTrafficProofs`**: `ChunkInOnePlace`, the refinement `ImplementsLedger`,
  `NothingIsKeptBack`, all assuming `~ResetAfterProcessing` (section 8 says why),
  `DiscardsHaveCause` and `RawOnlyInChange`.
  `IInv` locates every chunk element by element: counters and batches are disjoint
  (`Disjoint`), hold only uncharged chunks of their owner (`CounterOwned`,
  `BatchOwned`), and cover what was counted (`Covered`). `MetersOwned`, all
  references to a meter agree on its user, is what makes the charge go to the
  right one. `InHand` adds that a process which is not at work has no records.
* **`UserMonitorProofs`**: `CountCoversTable`, `LimitAdmits`, `NoAddressLost`,
  `ListSharesLimit`, `HitsAreApart`, `NoHitLost`, `TagStandsForRules`. The count
  covers the table together with what is between two steps: connections that have
  stored an address and not counted it yet, and what the monitor is about to
  subtract. A change of the table is a change of a cardinality, which needs the
  connections and addresses to be finite. The same invariant bounds what the check
  of `AddIP`, made without a lock, lets pass (`LimitAdmits`). While the monitor
  ranges over a table (`RangeKeeps`), what it has not visited is still in the table
  and what it has visited is in the user's list. For `HitsAreApart`, `OnHold` says
  that an entry which pruning removed had expired. `NoHitLost` is the safety half of
  `AuditKeepsUp`: a recorded hit waits, is in the report under way, or was in one
  that ended, and only the retries of that report can tell the panel of it again.
* **`MeshControlProofs`**: `TypeCorrect`, `SyncedStaysCurrent`, `CloseStopsPeers`,
  `CacheStaysUsable`, `MeshIsKept`, `RestartFromCache`, `KeyStays`, `SyncSettles`,
  `RestLasts`. The invariant joins what each phase knows: the key is chosen before
  the cached peers are started, and peers need a key (`PhasesInv`, `KeyInv`), only
  an accepted answer, or the first one where no cache can be read, is written
  (`CacheInv`), `Close` is over only after the loop (`CloseInv`), and from the
  request on what is reported and meshed with belongs to the current addresses
  (`SyncInv`). `AtRest` adds to `Settled` that no older answer is still to be
  applied; without that a settled relay could yet lose its peers to an answer it
  asked for before.

Only model-checked: liveness, since the prover has no rule for fairness and
`ENABLED`. Of each of these properties the part that is safety is proved, that is,
that the system cannot come to rest, or give something up, before what is awaited
has happened, or that it keeps what it has reached:

| liveness property | proved part |
|---|---|
| `KeepsTicking` | `TaskNeverQuiet`, `MonitorsNeverQuiet` |
| `StopsOnTerm` | `TermIsNeverLost` |
| `UsersConverge`, `ConvergesIfSynced` | `UsersAreSettled`, `NodeIsSettled`, `NotModifiedHidesNothing` |
| `CountedIsCharged` | `NothingIsKeptBack`, `DiscardsHaveCause` |
| `OnlineReported` | `NoAddressLost` |
| `AuditKeepsUp` | `NoHitLost`, `TagStandsForRules` |
| `Converges` | `AnyTLSForgetsNothing` |
| `RetryBringsUp` | `ForgetsNothing` |
| `Ends` | `NoWakeUpLost` |
| `Settles` | `SyncSettles`, `RestLasts` |

Every safety property and every refinement that a passing run checks is a theorem.
No theorem depends on a recursive operator.

## 7. Hazards

`PROJECT.json` lists what is hard to test here, with the line where it bites and
the properties that watch it. One entry has no property of a run, the late peers
of the mesh, and is proved instead. Notes tell what a property leaves out. In short:

* A node with port 0 makes the monitor return an error, and `Periodic` then stops
  it for good; `anytls/inbound.go:121-123` is written for a panel that "briefly"
  does this. `ConvergesIfSynced` and `Converges` exclude it.
* A user whom a list drops and the runtime does not let go has been stripped of the
  bytes counted so far, and the user monitor passes over the addresses of a user
  without bytes. `OnlineReported` excludes it.
* A tick in flight can open a listener on an AnyTLS inbound that `Close` has just
  closed, which `box.go:668-669` rules out; Naive has a guard.
* After a failed Hysteria2 restart, taking the change back makes
  `ConfigureFromPanelNode` find nothing to do while the inbound is down.
* A DNS response that arrives between `settleDNSFutures` and the judging of a rule
  counts as resolved but is not in `namedResponses`: the rule is judged without it
  and passed over. `AsListedIfSettled` excludes that moment.
* The second of two user lists without an online report in between counts this
  node's own devices as foreign ones, and may drop the user.
* A tag dropped from `server.json` keeps its entry in the table of inbounds, so a
  node of that tag is attached to a closed inbound after a reload.
* A monitor whose goroutine gets to `Start` only after its controller was closed is
  closed by nobody. `NothingLeftRunning` says that it is the only one.
* A relay that cannot read its cache replaces it by the registry's first answer, good
  or bad.

## 8. Where code and comments disagree

Each is a run whose property states what the comment says, and which TLC
violates; the property that does hold is checked in the passing run.

* `lost_reload`: `controller.go:58-68` promises that a reload is remembered
  across 304s. If the user sync fails in the tick that saw the new node, the tick
  ends before the reload and nothing remembers it. The limiter refresh of the
  same tick is lost in the same way.
* `traffic_reset`: `sspanel.go:59-62` excludes from the retries whatever the panel
  may already have processed; a connection reset after the request was written is
  such a case and is retried, so the bytes are charged twice.
* `device_limit`: `config.go:15-17` says that connections beyond the device limit
  are rejected; `control.go:263` ignores `AddIP`'s answer.

## 9. Not modelled

The repository is sing-box with the fork's additions, and by far most of its lines
are upstream: protocol handshakes, transports, TLS, tunnels, platform code,
management interfaces. They are data paths, I/O and conversions in which a model of
this kind has little to say, and they are the reason why the mapped lines are a
small share of the whole. Of the fork's own parts these are left out:

* the naive user table (`protocol/naive/singr_users.go`): sequential code under one
  lock; and the tables of the other inbounds, which `Controller` takes as one
  runtime that succeeds or fails as a whole (`AtomicDelta`; for an inbound whose
  `AddUsers` could fail after its `RemoveUsers`, the replay that `control.go:48-56`
  argues from need not be of the same delta);
* inbounds without TLS in their configuration, and panels whose answers have an ETag
  only sometimes;
* Hysteria2's `InterfaceUpdated`, which reads the service without the lock: it sees
  the old one or the new one, and the old one ignores it once closed;
* the rate limiter's waiting and arithmetic, which are a library's;
* the mesh's HTTP form, probe listener, certificate pins and loopback admission;
* parsing of panel answers and configuration files, which are conversions;
* in `Lifecycle`, components beyond two groups, and the start that libbox uses;
* in `DNSRuleWalk`, legacy mode, `Lookup`'s two parallel queries, and rule updates.

Work that would add most: a composition of `Controller` with an inbound
through `ReloadContract`, so that `applied` is the inbound's state and not an
assumption; and, upstream, the DNS client's cache and request sharing and the URL
test group.
