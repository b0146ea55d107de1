-------------------------------- MODULE Audit --------------------------------
(***************************************************************************)
(* Audit rules: the node monitor fetches them (refreshDetectRules,         *)
(* GetNodeRule), connections are matched against the list in force         *)
(* (MatchAudit, recordDetect), and the user monitor drains the hits and    *)
(* reports them (drainDetectResults, ReportIllegal); the client sends a    *)
(* report again when the connection fails.                                 *)
(*                                                                         *)
(* The panel's rules are versions, named by their ETag; RulesOf gives the  *)
(* rules of a version, and the versions in Broken do not compile.  A hit   *)
(* is a pair of a user and a rule, the detectKey.                          *)
(***************************************************************************)
EXTENDS Naturals, FiniteSets

CONSTANTS
  Key,         \* detectKey: pairs of a user and a rule
  RulesOf,     \* the keys that the rules of each version match
  Broken,      \* versions with a pattern that does not compile
  TTL,         \* detectDedupTTL
  PruneAbove,  \* size of detectDedup that sets off the pruning (4096)
  RetryCount,  \* client.SetRetryCount
  MaxTime,     \* bound: the clock
  MaxHits      \* bound: hits waiting to be reported

Version == DOMAIN RulesOf

ASSUME AuditAssumption ==
  /\ IsFiniteSet(Key)
  /\ \A v \in Version : RulesOf[v] \subseteq Key
  /\ Broken \subseteq Version
  /\ 0 \in Version \ Broken /\ RulesOf[0] = {}
  /\ TTL \in Nat \ {0}
  /\ {PruneAbove, RetryCount, MaxTime, MaxHits} \subseteq Nat

VARIABLES
  panelRules,              \* the version that the panel serves
  ruleTag,                 \* eTags["rules"]; 0: no answer accepted yet
  detectRules,             \* the version in force
  clock,
  detectDedup,             \* expiry of every key; 0: not in the map
  detectResults,           \* how often each key waits to be reported
  reporting, tries,        \* the hits that ReportIllegal is sending, and how
                           \* often it has sent them again
  lastHit, hits,           \* history: when each key was recorded last, and how often,
  sent, told               \* in how many reports that ended it was, and how often the
                           \* panel processed it

ruleVars   == <<panelRules, ruleTag, detectRules>>
reportVars == <<reporting, tries, sent, told>>
hitVars    == <<detectDedup, detectResults, reportVars, lastHit, hits>>
auditVars  == <<ruleVars, clock, hitVars>>

None == [k \in Key |-> 0]

AuditInit ==
  /\ panelRules = 0 /\ ruleTag = 0 /\ detectRules = 0
  /\ clock = TTL
  /\ detectDedup = None /\ detectResults = None
  /\ reporting = None /\ tries = 0
  /\ lastHit = None /\ hits = None /\ sent = None /\ told = None

-----------------------------------------------------------------------------
(* The rule list. *)

PanelChanges(v) ==
  /\ v # panelRules
  /\ panelRules' = v
  /\ UNCHANGED <<ruleTag, detectRules, clock, hitVars>>

\* A bug: an error empties the list, and the ETag of the old one is kept.
RefreshDetectRulesCleared ==
  /\ ruleTag # panelRules
  /\ detectRules' = IF panelRules \in Broken THEN 0 ELSE panelRules
  /\ ruleTag' = IF panelRules \in Broken THEN ruleTag ELSE panelRules
  /\ UNCHANGED <<panelRules, clock, hitVars>>

\* GetNodeRule answers with rules if there are new ones, and compiles every
\* pattern before it keeps their ETag.
GetNodeRule ==
  /\ ruleTag # panelRules
  /\ panelRules \notin Broken
  /\ ruleTag' = panelRules

\* refreshDetectRules keeps the old list on 304 and on any error.
RefreshDetectRules ==
  /\ GetNodeRule
  /\ detectRules' = panelRules
  /\ UNCHANGED <<panelRules, clock, hitVars>>

-----------------------------------------------------------------------------
(* Hits. *)

Tick ==
  /\ clock < MaxTime
  /\ clock' = clock + 1
  /\ UNCHANGED <<ruleVars, hitVars>>

\* A bug: the map is emptied instead of pruned.
PruneAll(dedup) ==
  IF Cardinality({k \in Key : dedup[k] # 0}) > PruneAbove THEN None ELSE dedup

\* Entries that have expired leave a map that has grown too large.
Prune(dedup) ==
  IF Cardinality({k \in Key : dedup[k] # 0}) > PruneAbove
    THEN [k \in Key |-> IF clock > dedup[k] THEN 0 ELSE dedup[k]]
    ELSE dedup

\* MatchAudit of a host that a rule in force matches, and recordDetect: the
\* connection is refused, the hit recorded unless the key is on hold.
MatchAudit(k) ==
  /\ k \in RulesOf[detectRules]
  /\ ~(clock < detectDedup[k])
  /\ detectResults[k] < MaxHits
  /\ detectDedup' = Prune([detectDedup EXCEPT ![k] = clock + TTL])
  /\ detectResults' = [detectResults EXCEPT ![k] = @ + 1]
  /\ lastHit' = [lastHit EXCEPT ![k] = clock]
  /\ hits' = [hits EXCEPT ![k] = @ + 1]
  /\ UNCHANGED <<ruleVars, clock, reportVars>>

\* drainDetectResults takes all hits at once.
DrainDetectResults ==
  /\ reporting' = detectResults
  /\ detectResults' = None
  /\ UNCHANGED <<ruleVars, clock, detectDedup, lastHit, hits, tries, sent, told>>

\* One request of a report: the panel processes it or does not.
PostHits == told' \in {told, [k \in Key |-> told[k] + reporting[k]]}

\* The connection fails, after the panel processed the request or before: the
\* retry condition sends the same report again.
RetryIllegal ==
  /\ tries < RetryCount
  /\ PostHits
  /\ tries' = tries + 1
  /\ UNCHANGED <<ruleVars, clock, detectDedup, detectResults, reporting, lastHit, hits, sent>>

\* ReportIllegal returns: with an answer, a timeout, or when the retries are
\* used up.  A failure is logged, and the hits are forgotten either way.
ReportIllegal ==
  /\ PostHits
  /\ sent' = [k \in Key |-> sent[k] + reporting[k]]
  /\ reporting' = None
  /\ tries' = 0
  /\ UNCHANGED <<ruleVars, clock, detectDedup, detectResults, lastHit, hits>>

Audited == (\E v \in Version : PanelChanges(v)) \/ Tick \/ \E k \in Key : MatchAudit(k)
=============================================================================
