----------------------------- MODULE DNSRuleWalk -----------------------------
(***************************************************************************)
(* One DNS query walking the DNS rules (dns.Router.exchangeWithRules).     *)
(* An evaluate rule launches a query and the walk goes on; its response is *)
(* a future that a later rule may be bound to (match_response), by tag or, *)
(* without a tag, as the latest one.  A rule waits for what it is bound    *)
(* to, except a race rule: it is armed, and judged when its futures are    *)
(* resolved, while the walk goes on to the first rule that has to be held  *)
(* until the races are over.  Responses arrive in goroutines of their own. *)
(*                                                                         *)
(* A rule is a record, and a future is named by the rule that launched it; *)
(* tags are unique (validateLegacyDNSModeDisabledRules), so a tag is the   *)
(* evaluate rule that has it.  A response is "good" or "bad": what a rule  *)
(* bound to it looks for, or not.  Rules whose other conditions fail are   *)
(* as if they were not listed.  Query options are the set of the           *)
(* route-options rules applied.                                            *)
(***************************************************************************)
EXTENDS Naturals, Sequences

CONSTANT RuleLists    \* the lists of rules to be walked

Action == {"options", "evaluate", "respond", "route", "reject", "predefined"}

\* tags, anon: the futures that the rule is bound to; any, invert: how it
\* matches them; named: an evaluate rule has a tag; loaded: its server exists
\* (and is no FakeIP server where none is allowed).
Rule(a, tags, anon) ==
  [action |-> a, tags |-> tags, anon |-> anon, any |-> FALSE, invert |-> FALSE,
   race |-> FALSE, speculative |-> FALSE, named |-> TRUE, loaded |-> TRUE]

RuleType ==
  [action : Action, tags : SUBSET Nat, anon : BOOLEAN, any : BOOLEAN, invert : BOOLEAN,
   race : BOOLEAN, speculative : BOOLEAN, named : BOOLEAN, loaded : BOOLEAN]

\* What validateLegacyDNSModeDisabledRules and validateDNSRuleAction see to: a
\* rule is bound to earlier evaluate rules with a tag, only a rule with a final
\* action races, and a respond rule with a tag has that one alone (a logical
\* rule, which could gather several, may not respond with any).
ASSUME RulesAssumption ==
  \A l \in RuleLists :
    /\ l \in Seq(RuleType)
    /\ \A i \in 1 .. Len(l) :
         /\ \A t \in l[i].tags : t \in 1 .. i - 1 /\ l[t].action = "evaluate" /\ l[t].named
         /\ l[i].race => l[i].action \notin {"options", "evaluate"}
                         /\ ~l[i].speculative /\ (l[i].tags # {} \/ l[i].anon)
         /\ l[i].action = "respond" /\ l[i].tags # {} =>
              ~l[i].anon /\ \E t \in l[i].tags : l[i].tags = {t}

Response == {"good", "bad"}
Answer == Response \cup {"error"}

VARIABLES
  rules,
  \* dnsRuleWalkState
  ruleIndex, effectiveOptions,
  anonymousFuture,       \* 0: none
  armedRules, armed,     \* the armed rules, and what each was armed with
  terminalFuture,        \* 0: none
  settled,               \* futures that namedResponses knows
  wake,                  \* the channel, with room for one
  \* dnsEvaluatedFuture
  future,                \* of every rule: "none", "pending" or the answer
  unsignalled,           \* resolved futures whose callback has yet to wake
  canceled,
  \* exchangeWithRules and its callers
  pc, pos, ret,          \* where it is; in a loop; and where it returns to
  suspension,
  ctxDone,
  result,
  missed                 \* history: rules judged without a response that
                         \* had arrived

vars == <<rules, ruleIndex, effectiveOptions, anonymousFuture, armedRules, armed,
          terminalFuture, settled, wake, future, unsignalled, canceled, pc, pos, ret,
          suspension, ctxDone, result, missed>>

Index == 1 .. Len(rules)
current == rules[ruleIndex]
Launched == {f \in Index : future[f] # "none"}
resolved(f) == future[f] \in Answer
First(S) == {i \in S : \A j \in S : i <= j}

None == "none"
view(f) == IF f # 0 /\ future[f] \in Response THEN future[f] ELSE None
namedResponse(t) == IF t \in settled THEN view(t) ELSE None

NoArms == [futures |-> {}, anonymous |-> 0, options |-> {}]
Running == [kind |-> "running", rule |-> 0, value |-> None, options |-> {}]
Proceed == [kind |-> "none", rule |-> 0, future |-> 0, options |-> {}]

Init ==
  /\ rules \in RuleLists
  /\ ruleIndex = 1 /\ effectiveOptions = {} /\ anonymousFuture = 0
  /\ armedRules = {} /\ armed = [i \in Index |-> NoArms]
  /\ terminalFuture = 0 /\ settled = {} /\ wake = FALSE
  /\ future = [i \in Index |-> "none"] /\ unsignalled = {} /\ canceled = {}
  /\ pc = "walk" /\ pos = 0 /\ ret = "walk" /\ suspension = Proceed
  /\ ctxDone = FALSE /\ result = Running /\ missed = {}

envVars   == <<rules, future, unsignalled, wake, ctxDone>>
stateVars == <<ruleIndex, effectiveOptions, anonymousFuture, armedRules, armed,
               terminalFuture, settled>>

-----------------------------------------------------------------------------
(* How a step goes on. *)

Goto(p) == pc' = p /\ UNCHANGED <<pos, ret, suspension, result, canceled>>

Loop(p, back) ==
  /\ pc' = p /\ pos' = 0 /\ ret' = back
  /\ UNCHANGED <<suspension, result, canceled>>

NextRule == ruleIndex' = ruleIndex + 1 /\ Goto("walk")

\* walkDNSRules returns a suspension: the loop of resumeExchangeWithRules.
Suspend(kind, f) ==
  /\ suspension' = [kind |-> kind, rule |-> ruleIndex, future |-> f, options |-> {}]
  /\ pc' = "settle" /\ pos' = 0 /\ ret' = "resume"
  /\ UNCHANGED <<result, canceled>>

\* A pending exchange is chosen: finishPendingExchange cancels all others.
Pend(i, f, options) ==
  /\ suspension' = [kind |-> "pending", rule |-> i, future |-> f, options |-> options]
  /\ pc' = "finish" /\ canceled' = Launched \ {f}
  /\ UNCHANGED <<pos, ret, result>>

Return(kind, i, v, options) ==
  /\ result' = [kind |-> kind, rule |-> i, value |-> v, options |-> options]
  /\ pc' = "done" /\ canceled' = Launched
  /\ UNCHANGED <<pos, ret, suspension>>

\* A respond action: an error if there is no response.
Respond(i, v) == Return(IF v = None THEN "error" ELSE "response", i, v, {})

-----------------------------------------------------------------------------
(* settleDNSFutures: one future of the list after the other. *)

settleDNSFutures ==
  /\ pc = "settle"
  /\ LET left == {f \in Launched : f > pos} IN
     \/ /\ left = {}
        /\ Loop(IF ret = "walk" THEN "bind" ELSE "sweep", ret) /\ UNCHANGED settled
     \/ \E f \in First(left) :
          /\ pos' = f
          /\ settled' = IF resolved(f) THEN settled \cup {f} ELSE settled
          /\ UNCHANGED <<pc, ret, suspension, result, canceled>>
  /\ UNCHANGED <<envVars, ruleIndex, effectiveOptions, anonymousFuture, armedRules, armed,
                 terminalFuture, missed>>

-----------------------------------------------------------------------------
(* walkDNSRules *)

hasBindings(r) == r.tags # {} \/ r.anon

WalkRule ==
  /\ pc = "walk" /\ ruleIndex \in Index
  /\ IF hasBindings(current) THEN Loop("settle", "walk") ELSE Goto("match")
  /\ UNCHANGED <<envVars, stateVars, missed>>

\* Past the last rule: the default server, unless a race is on.
WalkEnd ==
  /\ pc = "walk" /\ ruleIndex \notin Index
  /\ IF armedRules # {} THEN Suspend("drain", 0)
                        ELSE Pend(ruleIndex, 0, effectiveOptions)
  /\ UNCHANGED <<envVars, stateVars, missed>>

pendingFutures ==
  {f \in current.tags \cup (IF current.anon THEN {anonymousFuture} \ {0} ELSE {}) :
     f \in Launched /\ ~resolved(f)}

\* A race rule is armed; with nothing to wait for, the armed rules are swept.
BindRace ==
  /\ pc = "bind" /\ current.race
  /\ armedRules' = armedRules \cup {ruleIndex}
  /\ armed' = [armed EXCEPT ![ruleIndex] =
       [futures |-> pendingFutures,
        anonymous |-> IF current.anon THEN anonymousFuture ELSE 0,
        options |-> effectiveOptions]]
  /\ IF pendingFutures = {} THEN Loop("sweep", "walk") /\ UNCHANGED ruleIndex
                            ELSE NextRule
  /\ UNCHANGED <<envVars, effectiveOptions, anonymousFuture, terminalFuture, settled, missed>>

BindOrdered ==
  /\ pc = "bind" /\ ~current.race
  /\ \/ pendingFutures = {} /\ Goto("match")
     \/ \E f \in pendingFutures : Suspend("await", f)
  /\ UNCHANGED <<envVars, stateVars, missed>>

\* Match of the rule's response conditions, on what namedResponses knows.
Match(i, anonymousResponse) ==
  LET r == rules[i]
      responses == {namedResponse(t) : t \in r.tags}
                     \cup (IF r.anon THEN {anonymousResponse} ELSE {})
  IN r.invert # (IF r.any THEN "good" \in responses ELSE responses \subseteq {"good"})

\* History: rule i is judged though namedResponses lacks a response it is
\* bound to that has arrived.
Judge(i) ==
  missed' = missed \cup {j \in {i} : \E t \in rules[j].tags : resolved(t) /\ t \notin settled}

Matched(action) ==
  /\ pc = "match" /\ Judge(ruleIndex)
  /\ Match(ruleIndex, view(anonymousFuture))
  /\ current.action = action

NoMatch ==
  /\ pc = "match" /\ Judge(ruleIndex)
  /\ ~Match(ruleIndex, view(anonymousFuture))
  /\ NextRule
  /\ UNCHANGED <<envVars, effectiveOptions, anonymousFuture, armedRules, armed,
                 terminalFuture, settled>>

RuleActionDNSRouteOptions ==
  /\ Matched("options")
  /\ effectiveOptions' = effectiveOptions \cup {ruleIndex}
  /\ NextRule
  /\ UNCHANGED <<envVars, anonymousFuture, armedRules, armed, terminalFuture, settled>>

launchDNSEvaluate == future' = [future EXCEPT ![ruleIndex] = "pending"]

\* A bug: an evaluate action is never held.
RuleActionEvaluateEager ==
  /\ Matched("evaluate")
  /\ NextRule
  /\ IF current.loaded THEN launchDNSEvaluate ELSE UNCHANGED future
  /\ anonymousFuture' = IF current.named THEN anonymousFuture
                        ELSE IF current.loaded THEN ruleIndex ELSE 0
  /\ UNCHANGED <<rules, unsignalled, wake, ctxDone, effectiveOptions, armedRules, armed,
                 terminalFuture, settled>>

\* An evaluate action that is not speculative is held while a race is on.
RuleActionEvaluate ==
  /\ Matched("evaluate")
  /\ IF current.loaded /\ ~current.speculative /\ armedRules # {}
       THEN /\ Suspend("drain", 0)
            /\ UNCHANGED <<future, ruleIndex, anonymousFuture>>
       ELSE /\ NextRule
            /\ IF current.loaded THEN launchDNSEvaluate ELSE UNCHANGED future
            /\ anonymousFuture' = IF current.named THEN anonymousFuture
                                  ELSE IF current.loaded THEN ruleIndex ELSE 0
  /\ UNCHANGED <<rules, unsignalled, wake, ctxDone, effectiveOptions, armedRules, armed,
                 terminalFuture, settled>>

RuleActionRespond ==
  /\ Matched("respond")
  /\ IF armedRules # {} THEN Suspend("drain", 0)
     ELSE IF current.tags # {}
       THEN \E t \in current.tags : Respond(ruleIndex, namedResponse(t))
     ELSE IF anonymousFuture # 0 /\ ~current.anon /\ ~resolved(anonymousFuture)
       THEN Suspend("await", anonymousFuture)
     ELSE Respond(ruleIndex, view(anonymousFuture))
  /\ UNCHANGED <<envVars, stateVars>>

\* While a race is on a speculative route sends its query, and is held.
RuleActionDNSRoute ==
  /\ Matched("route")
  /\ IF ~current.loaded THEN NextRule /\ UNCHANGED <<future, terminalFuture>>
     ELSE IF armedRules # {}
       THEN /\ IF current.speculative /\ terminalFuture = 0
                 THEN launchDNSEvaluate /\ terminalFuture' = ruleIndex
                 ELSE UNCHANGED <<future, terminalFuture>>
            /\ Suspend("drain", 0) /\ UNCHANGED ruleIndex
       ELSE /\ Pend(ruleIndex, IF terminalFuture = ruleIndex THEN ruleIndex ELSE 0,
                    effectiveOptions)
            /\ UNCHANGED <<future, terminalFuture, ruleIndex>>
  /\ UNCHANGED <<rules, unsignalled, wake, ctxDone, effectiveOptions, anonymousFuture,
                 armedRules, armed, settled>>

\* RuleActionReject and RuleActionPredefined: an answer of the rule's own.
RuleActionFixed ==
  /\ Matched("reject") \/ Matched("predefined")
  /\ IF armedRules # {} THEN Suspend("drain", 0)
                        ELSE Return(current.action, ruleIndex, None, {})
  /\ UNCHANGED <<envVars, stateVars>>

-----------------------------------------------------------------------------
(* sweepArmedDNSRules: the armed rules in the order of the list. *)

Unswept == {i \in armedRules : i > pos}
Ready(i) == \A f \in armed[i].futures : resolved(f)

\* A bug: an armed rule sees the latest response, not the one it was armed with.
anonymousViewLatest(i) == view(anonymousFuture)

anonymousView(i) == IF rules[i].anon THEN view(armed[i].anonymous) ELSE view(anonymousFuture)

SweepEnd ==
  /\ pc = "sweep" /\ Unswept = {}
  /\ IF ret = "walk" THEN NextRule ELSE Goto("resume") /\ UNCHANGED ruleIndex
  /\ UNCHANGED <<envVars, effectiveOptions, anonymousFuture, armedRules, armed,
                 terminalFuture, settled, missed>>

SweepPast ==
  /\ pc = "sweep"
  /\ \E i \in First(Unswept) : ~Ready(i) /\ pos' = i
  /\ UNCHANGED <<envVars, stateVars, missed, pc, ret, suspension, result, canceled>>

\* An armed rule is judged once.  The first that matches ends the walk; a
\* route to a server that is not there is passed over.
SweepJudge ==
  /\ pc = "sweep"
  /\ \E i \in First(Unswept) :
     /\ Ready(i) /\ Judge(i)
     /\ armedRules' = armedRules \ {i}
     /\ IF ~Match(i, anonymousView(i)) \/ (rules[i].action = "route" /\ ~rules[i].loaded)
          THEN /\ pos' = i
               /\ UNCHANGED <<pc, ret, suspension, result, canceled>>
        ELSE IF rules[i].action = "respond"
          THEN IF rules[i].tags # {}
                 THEN \E t \in rules[i].tags : Respond(i, namedResponse(t))
                 ELSE Respond(i, view(IF armed[i].anonymous # 0 THEN armed[i].anonymous
                                                                ELSE anonymousFuture))
        ELSE IF rules[i].action = "route" THEN Pend(i, 0, armed[i].options)
        ELSE Return(rules[i].action, i, None, {})
  /\ UNCHANGED <<envVars, ruleIndex, effectiveOptions, anonymousFuture, armed,
                 terminalFuture, settled>>

-----------------------------------------------------------------------------
(* resumeExchangeWithRules and finishPendingExchange *)

Suspended ==
  \/ suspension.kind = "await" /\ ~resolved(suspension.future)
  \/ suspension.kind = "drain" /\ armedRules # {}

Resume ==
  /\ pc = "resume"
  /\ Goto(IF Suspended THEN "wait" ELSE "walk")
  /\ UNCHANGED <<envVars, stateVars, missed>>

Wake ==
  /\ pc = "wait" /\ wake
  /\ wake' = FALSE
  /\ Loop("settle", "resume")
  /\ UNCHANGED <<rules, future, unsignalled, ctxDone, stateVars, missed>>

GiveUp ==
  /\ pc = "wait" \/ (pc = "finish" /\ suspension.future # 0)
  /\ ctxDone
  /\ Return("ctx", 0, None, {})
  /\ UNCHANGED <<envVars, stateVars, missed>>

FinishFuture ==
  /\ pc = "finish" /\ suspension.future # 0 /\ resolved(suspension.future)
  /\ Return("exchange", suspension.rule, future[suspension.future], suspension.options)
  /\ UNCHANGED <<envVars, stateVars, missed>>

\* client.Exchange, which ends: every exchange has a timeout.
FinishExchange ==
  /\ pc = "finish" /\ suspension.future = 0
  /\ \E v \in Answer : Return("exchange", suspension.rule, v, suspension.options)
  /\ UNCHANGED <<envVars, stateVars, missed>>

Walk ==
  \/ settleDNSFutures \/ WalkRule \/ WalkEnd \/ BindRace \/ BindOrdered
  \/ NoMatch \/ RuleActionDNSRouteOptions \/ RuleActionEvaluate \/ RuleActionRespond
  \/ RuleActionDNSRoute \/ RuleActionFixed
  \/ SweepEnd \/ SweepPast \/ SweepJudge
  \/ Resume \/ Wake \/ GiveUp \/ FinishFuture \/ FinishExchange

-----------------------------------------------------------------------------
(* The queries, and the caller. *)

walkerVars == <<rules, stateVars, canceled, pc, pos, ret, suspension, result, missed>>

\* The callback of ExchangeAsync stores the answer and closes done ...
Arrive(f) ==
  /\ f \in Launched /\ ~resolved(f)
  /\ \E v \in Answer : future' = [future EXCEPT ![f] = v]
  /\ unsignalled' = unsignalled \cup {f}
  /\ UNCHANGED <<walkerVars, wake, ctxDone>>

\* A bug: the channel has no room, and only a walk that waits is woken.
SignalUnbuffered(f) ==
  /\ f \in unsignalled
  /\ unsignalled' = unsignalled \ {f}
  /\ wake' = (wake \/ pc = "wait")
  /\ UNCHANGED <<walkerVars, future, ctxDone>>

\* ... and then wakes the walk, unless a wake-up is in the channel already.
Signal(f) ==
  /\ f \in unsignalled
  /\ unsignalled' = unsignalled \ {f}
  /\ wake' = TRUE
  /\ UNCHANGED <<walkerVars, future, ctxDone>>

CallerGone ==
  /\ ~ctxDone /\ ctxDone' = TRUE
  /\ UNCHANGED <<walkerVars, wake, future, unsignalled>>

Callback(f) == Arrive(f) \/ Signal(f)

Next == Walk \/ CallerGone \/ \E f \in Index : Callback(f)

Spec == Init /\ [][Next]_vars

Positions == UNION {DOMAIN l : l \in RuleLists}

\* A goroutine that can run does, and a query that was sent is answered or
\* times out.
FairSpec == Spec /\ WF_vars(Walk) /\ \A f \in Positions : WF_vars(f \in Index /\ Callback(f))

-----------------------------------------------------------------------------
TypeOK ==
  /\ rules \in RuleLists
  /\ ruleIndex \in 1 .. Len(rules) + 1 /\ effectiveOptions \subseteq Index
  /\ anonymousFuture \in 0 .. Len(rules) /\ terminalFuture \in 0 .. Len(rules)
  /\ armedRules \subseteq Index
  /\ armed \in [Index -> [futures : SUBSET Index, anonymous : 0 .. Len(rules),
                          options : SUBSET Index]]
  /\ settled \subseteq Launched /\ canceled \subseteq Launched
  /\ unsignalled \subseteq Launched
  /\ wake \in BOOLEAN /\ ctxDone \in BOOLEAN
  /\ future \in [Index -> {"none", "pending"} \cup Answer]
  /\ pc \in {"walk", "settle", "bind", "match", "sweep", "resume", "wait", "finish", "done"}
  /\ pos \in 0 .. Len(rules) /\ ret \in {"walk", "resume"}
  /\ missed \subseteq Index

\* The rule whose action is taken; one past the last is the default server.
Chosen == IF pc = "finish" THEN {suspension.rule}
          ELSE IF pc = "done" THEN {result.rule} \ {0} ELSE {}
Race(i) == i \in Index /\ rules[i].race

\* A rule without race takes effect, and sends its query unless it is
\* speculative, only when every race rule listed before it has the responses
\* it was armed for.
HeldForRaces ==
  \A i \in {f \in Launched : ~rules[f].speculative} \cup {c \in Chosen : ~Race(c)} :
    \A j \in Index : j < i /\ Race(j) => \A f \in armed[j].futures : resolved(f)

\* What rule i makes of the responses themselves, and the future without a
\* tag that is in force at rule i.
Hits(i, a) ==
  LET r == rules[i]
      responses == {view(t) : t \in r.tags} \cup (IF r.anon THEN {view(a)} ELSE {})
  IN r.invert # (IF r.any THEN "good" \in responses ELSE responses \subseteq {"good"})

InForce[i \in Nat] ==
  IF i <= 1 THEN 0
  ELSE LET r == rules[i - 1] IN
       IF r.action = "evaluate" /\ ~r.named /\ Hits(i - 1, InForce[i - 1])
         THEN IF r.loaded THEN i - 1 ELSE 0
         ELSE InForce[i - 1]

Takes(i) == Hits(i, InForce[i])
            /\ rules[i].action \notin {"options", "evaluate"}
            /\ (rules[i].action = "route" => rules[i].loaded)

\* The walk as the list reads: the chosen rule takes effect on its responses,
\* no earlier rule without race does, and no earlier race rule does either if
\* the chosen one is without race; the response is the one the rule is bound
\* to, and the options are those of the list up to the rule.
AsListed ==
  \A i \in Chosen :
    /\ i \in Index => Takes(i)
    /\ \A j \in Index : j < i /\ Takes(j) => Race(i) /\ Race(j)
    /\ result.kind = "response" =>
         result.value \in {view(f) : f \in IF rules[i].tags # {} THEN rules[i].tags
                                                                 ELSE {InForce[i]}}
    /\ result.kind = "exchange" =>
         result.options = {j \in 1 .. i - 1 : rules[j].action = "options" /\ Hits(j, InForce[j])}

\* It is as listed when no rule was judged in the moment between the arrival
\* of a response and its entry into namedResponses.
AsListedIfSettled == missed = {} => AsListed

\* Every query ends.
Ends == <>(pc = "done")
=============================================================================
