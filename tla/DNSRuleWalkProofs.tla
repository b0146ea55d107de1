-------------------------- MODULE DNSRuleWalkProofs --------------------------
(***************************************************************************)
(* For all lists of rules: no rule without race overtakes a race rule that *)
(* is listed before it, a walk ends as the list reads, if every rule was   *)
(* judged on the responses that had come, and a walk that waits is woken   *)
(* by the response that it waits for.                                      *)
(***************************************************************************)
EXTENDS DNSRuleWalk, WellFoundedInduction, TLAPS

Resolved(S) == \A f \in S : resolved(f)

\* The walk is past rule f, or held at f with its speculative query on the way.
Behind(f) == f < ruleIndex \/ (f = ruleIndex /\ f = terminalFuture /\ rules[f].action = "route")

\* What makes HeldForRaces inductive: a rule that is not armed (any more) has
\* what it was armed for, and the walk is not behind a query that was sent, so
\* that no race rule is armed before a rule that has taken effect.
IInv ==
  /\ rules \in RuleLists
  /\ ruleIndex \in Nat
  /\ armedRules \subseteq Index
  /\ future \in [Index -> {"none", "pending"} \cup Answer]
  /\ DOMAIN armed = Index
  /\ \A i \in armedRules : rules[i].race
  /\ \A i \in Index \ armedRules : Resolved(armed[i].futures)
  /\ \A f \in Launched : Behind(f)
  /\ HeldForRaces

\* Where walkDNSRules works on a rule, there is one.
OnRule ==
  pc \in {"bind", "match"} \/ (pc = "settle" /\ ret = "walk") => ruleIndex \in Index

\* Whenever the walk judges a rule, ruleIndex names one.
LEMMA NextOnRule == OnRule /\ [Next]_vars => OnRule'
<1> SUFFICES ASSUME OnRule, [Next]_vars PROVE OnRule'
  OBVIOUS
<1> USE DEF OnRule, Index, envVars, stateVars, Goto, Loop, NextRule, Suspend
<1>1. CASE settleDNSFutures
  BY <1>1, Zenon DEF settleDNSFutures
<1>2. CASE WalkRule
  BY <1>2 DEF WalkRule
<1>3. CASE WalkEnd
  BY <1>3 DEF WalkEnd, Pend
<1>4. CASE BindRace
  BY <1>4 DEF BindRace
<1>5. CASE BindOrdered
  BY <1>5 DEF BindOrdered
<1>6. CASE NoMatch \/ RuleActionDNSRouteOptions
  BY <1>6 DEF NoMatch, RuleActionDNSRouteOptions
<1>7. CASE RuleActionEvaluate
  BY <1>7 DEF RuleActionEvaluate
<1>8. CASE RuleActionRespond
  BY <1>8 DEF RuleActionRespond, Respond, Return
<1>9. CASE RuleActionDNSRoute
  BY <1>9 DEF RuleActionDNSRoute, Pend
<1>10. CASE RuleActionFixed
  BY <1>10 DEF RuleActionFixed, Return
<1>11. CASE SweepEnd \/ SweepPast
  BY <1>11 DEF SweepEnd, SweepPast
<1>12. CASE SweepJudge
  <2>1. pc' \in {"sweep", "done", "finish"}
    BY <1>12 DEF SweepJudge, Respond, Return, Pend
  <2> QED
    BY <2>1
<1>13. CASE Resume \/ Wake \/ GiveUp \/ FinishFuture \/ FinishExchange
  BY <1>13 DEF Resume, Wake, GiveUp, FinishFuture, FinishExchange, Return
<1>14. CASE CallerGone \/ \E f \in Index : Callback(f)
  BY <1>14 DEF CallerGone, Callback, Arrive, Signal, walkerVars
<1>15. CASE UNCHANGED vars
  BY <1>15 DEF vars
<1> QED
  BY <1>1, <1>2, <1>3, <1>4, <1>5, <1>6, <1>7, <1>8, <1>9, <1>10, <1>11, <1>12, <1>13,
     <1>14, <1>15 DEF Next, Walk

\* A walk begins with nothing sent, armed or held.
LEMMA InitIInv == Init => IInv
<1> SUFFICES ASSUME Init PROVE IInv
  OBVIOUS
<1>1. Launched = {} /\ Chosen = {}
  BY DEF Init, Launched, Chosen, Index
<1>2. \A i \in Index : armed[i].futures = {}
  BY DEF Init, NoArms
<1> QED
  BY <1>1, <1>2 DEF Init, IInv, Index, HeldForRaces, Resolved, NoArms

\* A step that sends and arms nothing, and goes back nowhere, preserves the
\* invariant if what it chooses is a race rule, or no race is on.
LEMMA Quiet ==
  ASSUME IInv, UNCHANGED <<rules, armed, armedRules, future, terminalFuture>>,
         ruleIndex' \in Nat, ruleIndex' >= ruleIndex,
         \A c \in Chosen' : c \in Chosen \/ Race(c) \/ armedRules = {}
  PROVE  IInv'
<1>1. Index' = Index /\ Launched' = Launched
  BY DEF Index, Launched
<1>2. \A i \in Index' \ armedRules' : Resolved(armed[i].futures)'
  <2> SUFFICES ASSUME NEW i \in Index \ armedRules, NEW f \in armed[i].futures
               PROVE  resolved(f)'
    BY <1>1 DEF Resolved
  <2> QED
    BY DEF IInv, Resolved, resolved
<1>3. \A c : Race(c)' = Race(c)
  BY <1>1 DEF Race
<1>4. HeldForRaces'
  <2> SUFFICES ASSUME NEW i \in {f \in Launched' : ~(rules[f].speculative)'}
                                  \cup {c \in Chosen' : ~Race(c)'},
                      NEW j \in Index', j < i, Race(j)',
                      NEW f \in armed'[j].futures
               PROVE  resolved(f)'
    BY DEF HeldForRaces
  <2>1. resolved(f)' = resolved(f)
    BY DEF resolved
  <2>2. CASE i \in {g \in Launched : ~rules[g].speculative} \cup {c \in Chosen : ~Race(c)}
    BY <1>1, <1>3, <2>1, <2>2 DEF IInv, HeldForRaces
  <2>3. CASE armedRules = {}
    BY <1>1, <2>1, <2>3 DEF IInv, Resolved
  <2> QED
    BY <1>1, <1>3, <2>2, <2>3
<1>5. /\ (rules \in RuleLists)' /\ (armedRules \subseteq Index)'
      /\ (future \in [Index -> {"none", "pending"} \cup Answer])' /\ (DOMAIN armed = Index)'
  BY <1>1 DEF IInv, Answer, Response
<1>6. (\A i \in armedRules : rules[i].race)'
  BY DEF IInv
<1>7. (\A f \in Launched : Behind(f))'
  BY <1>1 DEF IInv, Launched, Index, Behind
<1> QED
  BY <1>2, <1>4, <1>5, <1>6, <1>7 DEF IInv

\* A step that touches neither the walk's rules nor where it is.
LEMMA Stay ==
  ASSUME IInv, UNCHANGED <<rules, armed, armedRules, future, terminalFuture, ruleIndex,
                           pc, suspension, result>>
  PROVE  IInv'
<1>1. Chosen' = Chosen
  BY DEF Chosen
<1>2. ruleIndex' \in Nat /\ ruleIndex' >= ruleIndex
  BY DEF IInv
<1> QED
  BY <1>1, <1>2, Quiet

\* A query of the rule in hand is sent, with no race on or speculatively: the
\* walk goes on, or is held.
LEMMA Sent ==
  ASSUME IInv, UNCHANGED <<rules, armed, armedRules>>, ruleIndex \in Index,
         future' = [future EXCEPT ![ruleIndex] = "pending"],
         ruleIndex \notin Launched, ruleIndex' \in Nat,
         \/ ruleIndex' > ruleIndex /\ terminalFuture' = terminalFuture
         \/ ruleIndex' = ruleIndex /\ terminalFuture' = ruleIndex
            /\ rules[ruleIndex].action = "route",
         rules[ruleIndex].speculative \/ armedRules = {},
         Chosen' = {}
  PROVE  IInv'
<1>1. Index' = Index /\ Launched' = Launched \cup {ruleIndex}
  BY DEF Index, Launched, IInv
<1>2. \A f : resolved(f) => resolved(f)'
  BY DEF resolved, IInv, Answer, Response, Launched
<1>3. \A c : Race(c)' = Race(c)
  BY <1>1 DEF Race
<1>4. \A i \in Index' \ armedRules' : Resolved(armed[i].futures)'
  BY <1>1, <1>2 DEF IInv, Resolved
<1>5. HeldForRaces'
  <2> SUFFICES ASSUME NEW i \in {f \in Launched' : ~(rules[f].speculative)'},
                      NEW j \in Index', j < i, Race(j)',
                      NEW f \in armed'[j].futures
               PROVE  resolved(f)'
    BY DEF HeldForRaces
  <2>1. CASE i \in Launched /\ ~rules[i].speculative
    BY <1>1, <1>2, <1>3, <2>1 DEF IInv, HeldForRaces
  <2>2. CASE i = ruleIndex
    <3>1. armedRules = {}
      BY <2>2
    <3> QED
      BY <1>1, <1>2, <3>1, Zenon DEF IInv, Resolved
  <2> QED
    BY <1>1, <2>1, <2>2
<1>6. /\ (rules \in RuleLists)' /\ (armedRules \subseteq Index)'
      /\ (future \in [Index -> {"none", "pending"} \cup Answer])' /\ (DOMAIN armed = Index)'
  BY <1>1 DEF IInv, Answer, Response
<1>7. (\A i \in armedRules : rules[i].race)'
  BY DEF IInv
<1>8. (\A f \in Launched : Behind(f))'
  BY <1>1 DEF IInv, Launched, Index, Behind
<1> QED
  BY <1>4, <1>5, <1>6, <1>7, <1>8 DEF IInv

\* Every step of the walk, and every callback, preserves the invariant.
LEMMA NextIInv == IInv /\ OnRule /\ [Next]_vars => IInv'
<1> SUFFICES ASSUME IInv, OnRule, [Next]_vars PROVE IInv'
  OBVIOUS
<1> USE DEF envVars, stateVars, Goto, Loop, NextRule, Suspend, Chosen
<1>1. CASE settleDNSFutures
  <2>1. UNCHANGED <<rules, armed, armedRules, future, terminalFuture, ruleIndex>>
    BY <1>1 DEF settleDNSFutures
  <2>2. pc' \in {"settle", "bind", "sweep"}
    BY <1>1, Zenon DEF settleDNSFutures
  <2> QED
    BY <2>1, <2>2, Quiet DEF IInv
<1>2. CASE WalkRule
  <2>1. pc' \in {"settle", "match"}
    BY <1>2 DEF WalkRule
  <2> QED
    BY <1>2, <2>1, Quiet DEF IInv, WalkRule
<1>3. CASE WalkEnd
  <2>1. Chosen' = {} \/ armedRules = {}
    BY <1>3 DEF WalkEnd
  <2> QED
    BY <1>3, <2>1, Quiet DEF IInv, WalkEnd
<1>4. CASE BindOrdered
  <2>1. pc' \in {"settle", "match"}
    BY <1>4 DEF BindOrdered
  <2> QED
    BY <1>4, <2>1, Quiet DEF IInv, BindOrdered
<1>5. CASE NoMatch
  BY <1>5, Quiet DEF IInv, NoMatch
<1>6. CASE RuleActionDNSRouteOptions
  BY <1>6, Quiet DEF IInv, RuleActionDNSRouteOptions
<1>7. CASE RuleActionRespond
  <2>1. Chosen' = {} \/ armedRules = {}
    BY <1>7, Zenon DEF RuleActionRespond
  <2> QED
    BY <1>7, <2>1, Quiet DEF IInv, RuleActionRespond
<1>8. CASE RuleActionFixed
  <2>1. Chosen' = {} \/ armedRules = {}
    BY <1>8 DEF RuleActionFixed
  <2> QED
    BY <1>8, <2>1, Quiet DEF IInv, RuleActionFixed
<1>9. CASE SweepEnd
  <2>1. pc' \in {"walk", "resume"}
    BY <1>9 DEF SweepEnd
  <2>2. ruleIndex' \in {ruleIndex, ruleIndex + 1}
    BY <1>9 DEF SweepEnd
  <2> QED
    BY <1>9, <2>1, <2>2, Quiet DEF IInv, SweepEnd
<1>10. CASE SweepPast
  BY <1>10, Quiet DEF IInv, SweepPast
<1>11. CASE Resume \/ Wake
  <2>1. pc' \in {"wait", "walk", "settle"}
    BY <1>11, Zenon DEF Resume, Wake
  <2> QED
    BY <1>11, <2>1, Quiet DEF IInv, Resume, Wake
<1>12. CASE GiveUp
  <2>1. Chosen' = {}
    BY <1>12 DEF GiveUp, Return
  <2> QED
    BY <1>12, <2>1, Quiet DEF IInv, GiveUp
<1>13. CASE FinishFuture \/ FinishExchange
  <2>1. pc = "finish" /\ pc' = "done" /\ result'.rule = suspension.rule
    BY <1>13 DEF FinishFuture, FinishExchange, Return
  <2> QED
    BY <1>13, <2>1, Quiet DEF IInv, FinishFuture, FinishExchange
<1>14. CASE CallerGone \/ \E f \in Index : Signal(f)
  <2>1. UNCHANGED <<rules, armed, armedRules, future, terminalFuture, ruleIndex,
                    pc, suspension, result>>
    BY <1>14 DEF CallerGone, Signal, walkerVars, stateVars
  <2> QED
    BY <2>1, Stay
<1>15. CASE UNCHANGED vars
  <2>1. UNCHANGED <<rules, armed, armedRules, future, terminalFuture, ruleIndex,
                    pc, suspension, result>>
    BY <1>15 DEF vars
  <2> QED
    BY <2>1, Stay
<1>16. CASE RuleActionEvaluate
  <2>1. ruleIndex \in Index /\ rules[ruleIndex].action = "evaluate"
    BY <1>16 DEF RuleActionEvaluate, Matched, current, OnRule
  <2>2. CASE current.loaded /\ (current.speculative \/ armedRules = {})
    <3>1. ruleIndex \notin Launched
      BY <2>1 DEF IInv, Behind, Index
    <3>2. /\ future' = [future EXCEPT ![ruleIndex] = "pending"]
          /\ ruleIndex' = ruleIndex + 1 /\ pc' = "walk"
          /\ UNCHANGED <<rules, armed, armedRules, terminalFuture>>
      BY <1>16, <2>2 DEF RuleActionEvaluate, launchDNSEvaluate
    <3>3. rules[ruleIndex].speculative \/ armedRules = {}
      BY <2>2 DEF current
    <3> QED
      BY <2>1, <3>1, <3>2, <3>3, Sent DEF IInv
  <2>3. CASE ~(current.loaded /\ (current.speculative \/ armedRules = {}))
    <3>1. UNCHANGED <<rules, armed, armedRules, future, terminalFuture>>
      BY <1>16, <2>3 DEF RuleActionEvaluate
    <3>2. ruleIndex' \in {ruleIndex, ruleIndex + 1} /\ pc' \in {"settle", "walk"}
      BY <1>16 DEF RuleActionEvaluate
    <3> QED
      BY <3>1, <3>2, Quiet DEF IInv
  <2> QED
    BY <2>2, <2>3
<1>17. CASE RuleActionDNSRoute
  <2>1. ruleIndex \in Index /\ rules[ruleIndex].action = "route"
    BY <1>17, Zenon DEF RuleActionDNSRoute, Matched, current, OnRule
  <2>2. CASE current.loaded /\ armedRules # {} /\ current.speculative /\ terminalFuture = 0
    <3>1. ruleIndex \notin Launched
      BY <2>1, <2>2 DEF IInv, Behind, Index
    <3> QED
      BY <1>17, <2>1, <2>2, <3>1, Sent
         DEF IInv, RuleActionDNSRoute, launchDNSEvaluate, current
  <2>3. CASE ~(current.loaded /\ armedRules # {} /\ current.speculative /\ terminalFuture = 0)
    <3>1. UNCHANGED <<rules, armed, armedRules, future, terminalFuture>>
      BY <1>17, <2>3 DEF RuleActionDNSRoute
    <3>2. ruleIndex' \in {ruleIndex, ruleIndex + 1}
      BY <1>17 DEF RuleActionDNSRoute
    <3>3. Chosen' = {} \/ armedRules = {}
      BY <1>17 DEF RuleActionDNSRoute
    <3>4. ruleIndex' \in Nat /\ ruleIndex' >= ruleIndex
      BY <3>2 DEF IInv
    <3>5. \A c \in Chosen' : armedRules = {}
      BY <3>3
    <3> HIDE DEF Chosen
    <3> QED
      BY <3>1, <3>4, <3>5, Quiet
  <2> QED
    BY <2>2, <2>3, Zenon
<1>18. CASE BindRace
  <2>1. ruleIndex \in Index /\ rules[ruleIndex].race
    BY <1>18 DEF BindRace, OnRule, current
  <2>2. /\ UNCHANGED <<rules, future, terminalFuture>>
        /\ armedRules' = armedRules \cup {ruleIndex}
        /\ DOMAIN armed' = DOMAIN armed
        /\ \A i \in Index : i # ruleIndex => armed'[i] = armed[i]
        /\ ruleIndex' \in {ruleIndex, ruleIndex + 1} /\ pc' \in {"sweep", "walk"}
    BY <1>18 DEF BindRace, IInv
  <2>3. Index' = Index /\ Launched' = Launched /\ \A c : Race(c)' = Race(c)
    BY <2>2 DEF Index, Launched, Race
  <2>4. \A f : resolved(f)' = resolved(f)
    BY <2>2, Zenon DEF resolved
  <2>5. HeldForRaces'
    <3> SUFFICES ASSUME NEW i \in {f \in Launched' : ~(rules[f].speculative)'},
                        NEW j \in Index', j < i, Race(j)',
                        NEW f \in armed'[j].futures
                 PROVE  resolved(f)'
      BY <2>2 DEF HeldForRaces
    <3>1. j # ruleIndex
      BY <2>3 DEF IInv, Behind, Index, Launched
    <3> QED
      BY <2>2, <2>3, <2>4, <3>1, Zenon DEF IInv, HeldForRaces
  <2>6. \A i \in Index' \ armedRules' : Resolved(armed[i].futures)'
    BY <2>2, <2>3, <2>4 DEF IInv, Resolved
  <2>7. (\A f \in Launched : Behind(f))'
    BY <2>2, <2>3 DEF IInv, Launched, Index, Behind
  <2> QED
    BY <2>1, <2>2, <2>3, <2>5, <2>6, <2>7 DEF IInv
<1>19. CASE SweepJudge
  <2>1. PICK i \in armedRules :
          /\ Ready(i) /\ armedRules' = armedRules \ {i}
          /\ \/ pc' = "sweep"
             \/ pc' = "finish" /\ suspension'.rule = i
             \/ pc' = "done" /\ result'.rule = i
    <3>1. PICK i \in First(Unswept) :
            /\ Ready(i) /\ armedRules' = armedRules \ {i}
            /\ \/ pc' = pc
               \/ \E v : Respond(i, v)
               \/ Pend(i, 0, armed[i].options)
               \/ Return(rules[i].action, i, None, {})
      BY <1>19, Zenon DEF SweepJudge
    <3>2. i \in armedRules
      BY Zenon DEF First, Unswept
    <3>3. pc = "sweep"
      BY <1>19, Zenon DEF SweepJudge
    <3>4. CASE \E v : Respond(i, v)
      <4>1. pc' = "done" /\ result'.rule = i
        BY <3>4 DEF Respond, Return
      <4> QED
        BY <3>1, <3>2, <4>1
    <3>5. CASE Pend(i, 0, armed[i].options)
      <4>1. pc' = "finish" /\ suspension'.rule = i
        BY <3>5 DEF Pend
      <4> QED
        BY <3>1, <3>2, <4>1
    <3>6. CASE Return(rules[i].action, i, None, {})
      <4>1. pc' = "done" /\ result'.rule = i
        BY <3>6, Zenon DEF Return
      <4> QED
        BY <3>1, <3>2, <4>1
    <3> QED
      BY <3>1, <3>2, <3>3, <3>4, <3>5, <3>6, Zenon
  <2>2. UNCHANGED <<rules, armed, future, terminalFuture, ruleIndex>>
    BY <1>19 DEF SweepJudge
  <2>3. Index' = Index /\ Launched' = Launched /\ \A c : Race(c)' = Race(c)
    BY <2>2 DEF Index, Launched, Race
  <2>4. \A f : resolved(f)' = resolved(f)
    BY <2>2 DEF resolved
  <2>5. \A c \in Chosen' : Race(c)
    <3>1. Race(i)
      BY <2>1 DEF IInv, Race
    <3>2. Chosen' \subseteq {i}
      BY <2>1, Zenon
    <3> QED
      BY <3>1, <3>2
  <2>6. HeldForRaces'
    BY <2>2, <2>3, <2>4, <2>5 DEF IInv, HeldForRaces
  <2>7. \A k \in Index' \ armedRules' : Resolved(armed[k].futures)'
    BY <2>1, <2>2, <2>3, <2>4 DEF IInv, Resolved, Ready
  <2>8. (\A f \in Launched : Behind(f))'
    BY <2>2, <2>3, Zenon DEF IInv, Behind
  <2> QED
    BY <2>1, <2>2, <2>3, <2>6, <2>7, <2>8 DEF IInv
<1>20. CASE \E f \in Index : Arrive(f)
  <2>1. PICK f \in Launched, v \in Answer :
          future' = [future EXCEPT ![f] = v] /\ UNCHANGED walkerVars
    BY <1>20, Zenon DEF Arrive
  <2>2. /\ UNCHANGED <<rules, armed, armedRules, terminalFuture, ruleIndex>>
        /\ Index' = Index /\ Chosen' = Chosen /\ \A c : Race(c)' = Race(c)
    BY <2>1 DEF walkerVars, Index, Race
  <2>3. Launched' = Launched
    BY <2>1, <2>2 DEF Launched, IInv, Answer, Response
  <2>4. \A g : resolved(g) => resolved(g)'
    BY <2>1 DEF resolved, IInv, Launched
  <2>5. HeldForRaces'
    BY <2>2, <2>3, <2>4, Zenon DEF IInv, HeldForRaces
  <2>6. \A k \in Index' \ armedRules' : Resolved(armed[k].futures)'
    BY <2>2, <2>4, Zenon DEF IInv, Resolved
  <2>7. (\A g \in Launched : Behind(g))'
    BY <2>2, <2>3 DEF IInv, Behind
  <2>8. (future \in [Index -> {"none", "pending"} \cup Answer])'
    BY <2>1, <2>2, Zenon DEF IInv, Answer, Response
  <2> QED
    BY <2>2, <2>5, <2>6, <2>7, <2>8 DEF IInv
<1> QED
  BY <1>1, <1>2, <1>3, <1>4, <1>5, <1>6, <1>7, <1>8, <1>9, <1>10, <1>11, <1>12, <1>13,
     <1>14, <1>15, <1>16, <1>17, <1>18, <1>19, <1>20
     DEF Next, Walk, Callback

\* For all lists of rules, a rule without race that follows a race rule neither
\* takes effect nor sends its query, unless it is speculative, before the race
\* rule has the responses it was armed for.
THEOREM RacesAreHeldFor == Spec => []HeldForRaces
<1>1. Init => OnRule
  BY DEF Init, OnRule
<1> QED
  BY InitIInv, NextIInv, NextOnRule, <1>1, PTL DEF Spec, IInv

-----------------------------------------------------------------------------
(* The list read without time: InForce is defined by recursion over the rules, *)
(* and to use its definition one has to know that there is such a function.    *)

\* Induction over the rules: what fails for some rule fails for a first one.
LEMMA Least ==
  ASSUME NEW S, S \subseteq Nat, S # {}
  PROVE  \E n \in S : \A m \in S : n <= m
<1>1. PICK n \in S : \A m \in S : <<m, n>> \notin OpToRel(<, Nat)
  BY WFMin, NatLessThanWellFounded, Zenon
<1>2. \A m \in S : ~(m < n)
  BY <1>1, Zenon DEF OpToRel
<1> QED
  BY <1>2

\* The future in force after rule i, if a is before.
Latest(i, a) ==
  IF rules[i].action = "evaluate" /\ ~rules[i].named /\ Hits(i, a)
    THEN IF rules[i].loaded THEN i ELSE 0
    ELSE a

\* g is the future in force up to rule n.
InForceTo(g, n) ==
  /\ g \in [0 .. n -> Nat]
  /\ \A i \in 0 .. n : g[i] = IF i <= 1 THEN 0 ELSE Latest(i - 1, g[i - 1])

\* There is one for every n.
LEMMA InForceToExists == \A n \in Nat : \E g : InForceTo(g, n)
<1> DEFINE S == {n \in Nat : ~\E g : InForceTo(g, n)}
<1> SUFFICES ASSUME S # {} PROVE FALSE
  OBVIOUS
<1>1. PICK n \in S : \A m \in S : n <= m
  BY Least, Zenon
<1>2. CASE n = 0
  <2>1. InForceTo([i \in 0 .. 0 |-> 0], 0)
    BY DEF InForceTo
  <2> QED
    BY <1>2, <2>1
<1>3. CASE n > 0
  <2>1. n - 1 \in Nat /\ n - 1 \notin S
    BY <1>1, <1>3
  <2>2. PICK g : InForceTo(g, n - 1)
    BY <2>1
  <2> DEFINE v == IF n <= 1 THEN 0 ELSE Latest(n - 1, g[n - 1])
             h == [i \in 0 .. n |-> IF i = n THEN v ELSE g[i]]
  <2>3. v \in Nat
    <3>1. n > 1 => g[n - 1] \in Nat
      BY <2>1, <2>2 DEF InForceTo
    <3> QED
      BY <1>3, <3>1 DEF Latest
  <2>4. h \in [0 .. n -> Nat]
    BY <2>2, <2>3 DEF InForceTo
  <2>5. ASSUME NEW i \in 0 .. n
        PROVE  h[i] = IF i <= 1 THEN 0 ELSE Latest(i - 1, h[i - 1])
    <3>1. CASE i = n
      <4>1. n > 1 => h[n - 1] = g[n - 1]
        BY <1>3
      <4> QED
        BY <3>1, <4>1
    <3>2. CASE i # n
      <4>1. i \in 0 .. n - 1 /\ h[i] = g[i] /\ (i > 1 => h[i - 1] = g[i - 1])
        BY <3>2
      <4> QED
        BY <2>2, <4>1 DEF InForceTo
    <3> QED
      BY <3>1, <3>2
  <2>6. InForceTo(h, n)
    BY <2>4, <2>5 DEF InForceTo
  <2> QED
    BY <2>6
<1> QED
  BY <1>2, <1>3

\* It does not depend on n.
LEMMA InForceToUnique ==
  ASSUME NEW n \in Nat, NEW m \in Nat, NEW g, NEW h, InForceTo(g, n), InForceTo(h, m),
         n <= m
  PROVE  \A i \in 0 .. n : g[i] = h[i]
<1> DEFINE S == {i \in 0 .. n : g[i] # h[i]}
<1> SUFFICES ASSUME S # {} PROVE FALSE
  OBVIOUS
<1>0. S \subseteq Nat
  OBVIOUS
<1>1. PICK i \in S : \A j \in S : i <= j
  <2> HIDE DEF S
  <2> QED
    BY <1>0, Least, Zenon
<1>2. i \in 0 .. n /\ i \in 0 .. m /\ i \in Nat /\ g[i] # h[i]
  OBVIOUS
<1>3. CASE i <= 1
  BY <1>2, <1>3 DEF InForceTo
<1>4. CASE i > 1
  <2>1. i - 1 \in 0 .. n /\ i - 1 \notin S
    BY <1>1, <1>2, <1>4
  <2>2. g[i - 1] = h[i - 1]
    BY <2>1
  <2> QED
    BY <1>2, <1>4, <2>2 DEF InForceTo
<1> QED
  BY <1>2, <1>3, <1>4

\* So there is one for all rules.
LEMMA InForceExists ==
  \E f : f = [i \in Nat |-> IF i <= 1 THEN 0 ELSE Latest(i - 1, f[i - 1])]
<1> DEFINE G(n) == CHOOSE g : InForceTo(g, n)
           f == [n \in Nat |-> G(n)[n]]
<1>1. \A n \in Nat : InForceTo(G(n), n)
  BY InForceToExists
<1>2. ASSUME NEW i \in Nat
      PROVE  f[i] = IF i <= 1 THEN 0 ELSE Latest(i - 1, f[i - 1])
  <2> HIDE DEF G
  <2>1. f[i] = IF i <= 1 THEN 0 ELSE Latest(i - 1, G(i)[i - 1])
    BY <1>1 DEF InForceTo
  <2>2. CASE i > 1
    <3>1. i - 1 \in Nat /\ InForceTo(G(i - 1), i - 1) /\ InForceTo(G(i), i)
      BY <1>1, <2>2
    <3>2. G(i - 1)[i - 1] = G(i)[i - 1]
      BY <3>1, InForceToUnique
    <3> QED
      BY <2>1, <2>2, <3>1, <3>2
  <2> QED
    BY <2>1, <2>2
<1>3. f = [i \in Nat |-> f[i]]
  OBVIOUS
<1>4. f = [i \in Nat |-> IF i <= 1 THEN 0 ELSE Latest(i - 1, f[i - 1])]
  <2> HIDE DEF f
  <2> QED
    BY <1>2, <1>3, Zenon
<1> QED
  BY <1>4, Zenon

\* InForce is what its definition says.
LEMMA InForceIs ==
  \A i \in Nat : InForce[i] = IF i <= 1 THEN 0 ELSE Latest(i - 1, InForce[i - 1])
<1> DEFINE P(f) == f = [i \in Nat |-> IF i <= 1 THEN 0 ELSE Latest(i - 1, f[i - 1])]
<1>1. \E f : P(f)
  BY InForceExists
<1>2. P(CHOOSE f : P(f))
  BY <1>1
<1>3. InForce = CHOOSE f : P(f)
  BY DEF InForce, Latest
<1>4. P(InForce)
  BY <1>2, <1>3
<1> QED
  BY <1>4

\* The same after a step.
LEMMA InForceIsNext ==
  (\A i \in Nat : InForce[i] = IF i <= 1 THEN 0 ELSE Latest(i - 1, InForce[i - 1]))'
BY InForceIs, PTL

\* The future in force at a rule was launched before it.
LEMMA InForceLow == \A i \in Nat : i > 0 => InForce[i] \in 0 .. i - 1
<1> DEFINE S == {i \in Nat : i > 0 /\ InForce[i] \notin 0 .. i - 1}
<1> SUFFICES ASSUME S # {} PROVE FALSE
  OBVIOUS
<1>1. PICK i \in S : \A j \in S : i <= j
  BY Least, Zenon
<1>2. CASE i = 1
  BY <1>2, InForceIs
<1>3. CASE i > 1
  <2>1. i - 1 \in Nat /\ i - 1 > 0 /\ i - 1 \notin S
    BY <1>1, <1>3
  <2>2. InForce[i - 1] \in 0 .. (i - 1) - 1
    BY <2>1
  <2>3. InForce[i] = Latest(i - 1, InForce[i - 1])
    BY <1>3, InForceIs
  <2>4. InForce[i] \in {i - 1, 0, InForce[i - 1]}
    BY <2>3 DEF Latest
  <2> QED
    BY <1>3, <2>1, <2>2, <2>4
<1> QED
  BY <1>2, <1>3

\* The rules of a router are a sequence, of a length that is a number.
LEMMA ListLength == \A l \in RuleLists : Len(l) \in Nat
<1> TAKE l \in RuleLists
<1>1. l \in Seq(RuleType)
  BY RulesAssumption, Zenon
<1>2. \A s \in Seq(RuleType) : Len(s) \in Nat
  OBVIOUS
<1> QED
  BY <1>1, <1>2, Zenon

\* What the validation of the rules says of rule i.
LEMMA RuleIs ==
  ASSUME rules \in RuleLists, NEW i \in Index
  PROVE  /\ i \in Nat /\ 0 < i /\ i <= Len(rules) /\ Len(rules) \in Nat
         /\ rules[i] \in RuleType
         /\ \A t \in rules[i].tags : t \in Index /\ t < i
         /\ rules[i].race => /\ rules[i].action \notin {"options", "evaluate"}
                             /\ rules[i].tags # {} \/ rules[i].anon
BY RulesAssumption DEF Index

-----------------------------------------------------------------------------
(* What makes AsListedIfSettled inductive. *)

\* The options of the list up to rule i.
OptionsAt(i) == {j \in 1 .. i - 1 : rules[j].action = "options" /\ Hits(j, InForce[j])}

\* Rule i waits for nothing if a is in force; and if what is in force at i is.
Firm(i, a) == /\ \A t \in rules[i].tags : future[t] # "pending"
              /\ rules[i].anon /\ a # 0 => future[a] # "pending"
Fixed(i) == Firm(i, InForce[i])

\* The walk has left rule i, or is about to: a race rule with nothing to wait for.
Passed(i) == i < ruleIndex \/ (i = ruleIndex /\ pc = "sweep" /\ ret = "walk")

\* An armed rule holds what the list gives it, and all that it waits for.
ArmedRight(i) ==
  /\ rules[i].anon => armed[i].anonymous = InForce[i]
  /\ armed[i].options = OptionsAt(i)
  /\ \A t \in rules[i].tags : future[t] = "pending" => t \in armed[i].futures
  /\ rules[i].anon /\ InForce[i] # 0 /\ future[InForce[i]] = "pending"
       => InForce[i] \in armed[i].futures
  /\ armed[i].futures \subseteq rules[i].tags \cup ({InForce[i]} \ {0})

\* Responses arrive, and the rule in hand may send a query.
FutureStep ==
  /\ rules' = rules
  /\ \A f \in Index :
       \/ future'[f] = future[f]
       \/ f = ruleIndex /\ future[f] = "none" /\ future'[f] = "pending"
       \/ future[f] = "pending" /\ future'[f] \in Answer

\* A response of a rule that waits for nothing does not change what it makes of it.
LEMMA FirmKept ==
  ASSUME rules \in RuleLists, FutureStep, NEW k \in Index, ruleIndex \in Nat, k <= ruleIndex,
         NEW a \in 0 .. k - 1, Firm(k, a)
  PROVE  Firm(k, a)' /\ (Hits(k, a)' <=> Hits(k, a))
<1>1. \A f \in Index : f < k /\ future[f] # "pending" => future'[f] = future[f]
  BY RuleIs DEF FutureStep, Index
<1>2. \A t \in rules[k].tags : t # 0 /\ future'[t] = future[t] /\ future[t] # "pending"
  BY <1>1, RuleIs DEF Firm, Index
<1>3. rules[k].anon /\ a # 0 => future'[a] = future[a] /\ future[a] # "pending"
  <2>1. a # 0 => a \in Index /\ a < k
    BY RuleIs DEF Index
  <2> QED
    BY <1>1, <2>1 DEF Firm
<1>4. rules' = rules
  BY DEF FutureStep
<1>5. Firm(k, a)'
  BY <1>2, <1>3, <1>4 DEF Firm
<1>6. ({view(t) : t \in rules[k].tags})' = {view(t) : t \in rules[k].tags}
  BY <1>2, <1>4 DEF view
<1>7. rules[k].anon => view(a)' = view(a)
  BY <1>3 DEF view
<1> QED
  BY <1>4, <1>5, <1>6, <1>7, Zenon DEF Hits

\* The rules before n without race wait for nothing.
FirmTo(n) ==
  /\ rules \in RuleLists /\ ruleIndex \in Nat
  /\ n \in 1 .. Len(rules) + 1 /\ n <= ruleIndex + 1
  /\ \A k \in 1 .. n - 1 : ~rules[k].race => Fixed(k)

\* Then nothing that arrives changes what is in force up to n.
LEMMA InForceKept ==
  ASSUME FutureStep, NEW n, FirmTo(n)
  PROVE  \A i \in 1 .. n : InForce'[i] = InForce[i]
<1> DEFINE S == {i \in 1 .. n : InForce'[i] # InForce[i]}
<1> SUFFICES ASSUME S # {} PROVE FALSE
  OBVIOUS
<1>0. S \subseteq Nat
  BY DEF FirmTo
<1>1. PICK i \in S : \A j \in S : i <= j
  <2> HIDE DEF S
  <2> QED
    BY <1>0, Least, Zenon
<1>2. i \in 1 .. n /\ i \in Nat /\ n \in Nat /\ InForce'[i] # InForce[i]
  BY DEF FirmTo
<1>3. CASE i = 1
  BY <1>2, <1>3, InForceIs, InForceIsNext
<1>4. CASE i > 1
  <2>1. PICK k \in 1 .. n - 1 : k = i - 1
    BY <1>2, <1>4
  <2>2. k \notin S /\ k \in Index /\ k <= ruleIndex /\ k \in Nat /\ k > 0
    BY <1>1, <1>2, <2>1 DEF FirmTo, Index
  <2>3. InForce'[k] = InForce[k]
    BY <1>2, <2>1, <2>2
  <2>4. PICK a \in 0 .. k - 1 : a = InForce[k]
    BY <2>2, InForceLow, Zenon
  <2>5. rules[k].action = "evaluate" => (Hits(k, a)' <=> Hits(k, a))
    BY <2>2, <2>4, FirmKept, RuleIs, Zenon DEF FirmTo, Fixed
  <2>6. InForce[i] = Latest(k, a)
    BY <1>2, <1>4, <2>1, <2>4, InForceIs
  <2>7. InForce'[i] = Latest(k, a)'
    BY <1>2, <1>4, <2>1, <2>3, <2>4, InForceIsNext
  <2>8. Latest(k, a)' = Latest(k, a)
    BY <2>5, Zenon DEF Latest, FutureStep
  <2> QED
    BY <1>2, <2>6, <2>7, <2>8
<1> QED
  BY <1>2, <1>3, <1>4

\* Nor what a rule up to n that waits for nothing makes of its responses.
LEMMA FixedKept ==
  ASSUME FutureStep, NEW n, FirmTo(n), NEW i \in Index, i <= n, i <= ruleIndex, Fixed(i)
  PROVE  /\ Fixed(i)'
         /\ Hits(i, InForce[i])' <=> Hits(i, InForce[i])
         /\ Takes(i)' <=> Takes(i)
<1>1. i \in Nat /\ i > 0 /\ i \in 1 .. n /\ rules \in RuleLists
  BY RuleIs DEF FirmTo
<1>2. PICK a \in 0 .. i - 1 : a = InForce[i]
  BY <1>1, InForceLow
<1>3. InForce'[i] = a
  BY <1>1, <1>2, InForceKept
<1>4. Firm(i, a)' /\ (Hits(i, a)' <=> Hits(i, a))
  BY <1>1, <1>2, FirmKept DEF FirmTo, Fixed
<1>5. Fixed(i)'
  BY <1>3, <1>4 DEF Fixed
<1>6. Hits(i, InForce[i])' <=> Hits(i, InForce[i])
  BY <1>2, <1>3, <1>4, Zenon
<1> QED
  BY <1>5, <1>6 DEF Takes, FutureStep

\* Nor the options up to n.
LEMMA OptionsKept ==
  ASSUME FutureStep, NEW n, FirmTo(n), NEW i \in 1 .. n
  PROVE  OptionsAt(i)' = OptionsAt(i)
<1>1. i \in Nat /\ n \in Nat /\ rules' = rules
  BY DEF FirmTo, FutureStep
<1>2. ASSUME NEW j \in 1 .. i - 1, rules[j].action = "options"
      PROVE  Hits(j, InForce[j])' <=> Hits(j, InForce[j])
  <2>1. j \in Index /\ j <= n /\ j <= ruleIndex /\ j \in 1 .. n - 1
    BY <1>1 DEF FirmTo, Index
  <2>2. Fixed(j)
    BY <1>2, <2>1, RuleIs, Zenon DEF FirmTo
  <2> QED
    BY <2>1, <2>2, FixedKept
<1> QED
  BY <1>1, <1>2 DEF OptionsAt

\* Nor that an armed rule holds the right things.
LEMMA ArmedKept ==
  ASSUME FutureStep, NEW n, FirmTo(n), NEW i \in Index, i <= n, i <= ruleIndex,
         ArmedRight(i), armed'[i] = armed[i]
  PROVE  ArmedRight(i)'
<1>1. i \in Nat /\ i > 0 /\ i \in 1 .. n /\ rules \in RuleLists /\ rules' = rules
  BY RuleIs DEF FirmTo, FutureStep
<1>2. PICK a \in 0 .. i - 1 : a = InForce[i]
  BY <1>1, InForceLow, Zenon
<1>3. InForce'[i] = a /\ OptionsAt(i)' = OptionsAt(i)
  BY <1>1, <1>2, InForceKept, OptionsKept, Zenon
<1>4. \A f \in Index : f < i /\ future'[f] = "pending" => future[f] = "pending"
  <2>1. ruleIndex \in Nat /\ \A f \in Index : f \in Nat
    BY DEF FirmTo, Index
  <2>2. \A f \in Index : f < i => f # ruleIndex
    BY <1>1, <2>1
  <2> QED
    BY <2>2, Zenon DEF FutureStep, Answer, Response
<1>5. \A t \in rules[i].tags : future'[t] = "pending" => future[t] = "pending"
  BY <1>1, <1>4, RuleIs, Zenon
<1>6. a # 0 /\ future'[a] = "pending" => future[a] = "pending"
  BY <1>1, <1>4 DEF Index
<1> QED
  BY <1>1, <1>2, <1>3, <1>5, <1>6, Zenon DEF ArmedRight

Over == pc \in {"finish", "done"}

\* Where the walk is.  A rule that has nothing to wait for is judged before the
\* walk goes on.
Place ==
  /\ ruleIndex \in 1 .. Len(rules) + 1
  /\ pc = "sweep" /\ ret = "walk" => Race(ruleIndex)
  /\ ~Over => \A i \in armedRules :
                /\ Passed(i)
                /\ armed[i].futures = {} =>
                     i = ruleIndex /\ pc = "sweep" /\ ret = "walk" /\ pos < i
  /\ pc # "done" => result.kind = "running"

\* The walk has read the list so far as it is to be read.
Walking ==
  /\ anonymousFuture = InForce[ruleIndex]
  /\ effectiveOptions = OptionsAt(ruleIndex)
  /\ pc = "match" => Firm(ruleIndex, anonymousFuture)
  /\ \A i \in Index : Passed(i) =>
       IF i \in armedRules THEN ArmedRight(i) ELSE Fixed(i) /\ ~Takes(i)

\* Rule i is the one that the list says.
Right(i) ==
  /\ i \in 1 .. Len(rules) + 1 /\ i <= ruleIndex
  /\ i \in Index => Fixed(i) /\ Takes(i)
  /\ \A j \in Index : j < i => (Race(i) /\ Race(j)) \/ (Fixed(j) /\ ~Takes(j))

\* And so are the response and the options.
Outcome(i) ==
  /\ Right(i)
  /\ pc = "finish" => suspension.options = OptionsAt(i)
  /\ pc = "done" /\ result.kind = "response" =>
       /\ i \in Index /\ result.value # None
       /\ \E f \in IF rules[i].tags # {} THEN rules[i].tags ELSE {InForce[i]} :
            result.value = view(f)
  /\ pc = "done" /\ result.kind = "exchange" => result.options = OptionsAt(i)

ListInv ==
  missed = {} => IF Over THEN \A i \in Chosen : Outcome(i) ELSE Walking

\* A rule is armed once it is bound, and leaves the walk only then.
LEMMA NextPlace == IInv /\ OnRule /\ Place /\ [Next]_vars => Place'
<1> SUFFICES ASSUME IInv, OnRule, Place, [Next]_vars PROVE Place'
  BY Zenon
<1> USE DEF envVars, stateVars, Goto, Loop, Suspend, Over
<1>0. /\ rules \in RuleLists /\ Len(rules) \in Nat /\ ruleIndex \in Nat
      /\ \A i \in armedRules : i \in Nat /\ i > 0
  BY ListLength DEF IInv, Place, Index
\* A step that keeps the rule in hand.
<1>a. ASSUME UNCHANGED <<rules, armed, ruleIndex>>, armedRules' \subseteq armedRules,
             Over => Over',
             pc' = "sweep" /\ ret' = "walk" => pc = "sweep" /\ ret = "walk",
             pc = "sweep" /\ ret = "walk" /\ ~Over' =>
               /\ pc' = "sweep" /\ ret' = "walk"
               /\ \A i \in armedRules' : armed[i].futures = {} => pos' < i,
             pc' # "done" => result'.kind = "running"
      PROVE  Place'
  <2>1. ASSUME ~Over', NEW i \in armedRules'
        PROVE  /\ Passed(i)'
               /\ armed[i].futures = {} => i = ruleIndex /\ pc' = "sweep" /\ ret' = "walk"
                                           /\ pos' < i
    <3>1. Passed(i) /\ (armed[i].futures = {} => i = ruleIndex /\ pc = "sweep" /\ ret = "walk")
      BY <1>a, <2>1 DEF Place
    <3> QED
      BY <1>a, <2>1, <3>1, Zenon DEF Passed
  <2>2. (pc = "sweep" /\ ret = "walk" => Race(ruleIndex))'
    BY <1>a, Zenon DEF Place, Race, Index
  <2> QED
    BY <1>a, <2>1, <2>2, Zenon DEF Place
\* A step to the next rule.
<1>b. ASSUME UNCHANGED <<rules, armed, armedRules, result>>, ~Over, ruleIndex \in Index,
             ruleIndex' = ruleIndex + 1, pc' = "walk",
             \A i \in armedRules : armed[i].futures # {}
      PROVE  Place'
  <2>1. \A i \in armedRules : i <= ruleIndex
    BY <1>b, <1>0 DEF Place, Passed
  <2>2. (\A i \in armedRules : Passed(i))'
    BY <1>b, <1>0, <2>1 DEF Passed
  <2>3. ruleIndex' \in 1 .. Len(rules') + 1
    BY <1>b, <1>0 DEF Index
  <2> QED
    BY <1>b, <2>2, <2>3, Zenon DEF Place
<1>c. pc \in {"bind", "match"} => \A i \in armedRules : armed[i].futures # {} /\ i < ruleIndex
  BY DEF Place, Passed
<1>1. CASE settleDNSFutures
  BY <1>1, <1>a, Zenon DEF settleDNSFutures, Place
<1>2. CASE WalkRule
  BY <1>2, <1>a, Zenon DEF WalkRule, Place
<1>3. CASE WalkEnd
  BY <1>3, <1>a, Zenon DEF WalkEnd, Pend, Place
<1>4. CASE BindOrdered
  BY <1>4, <1>a DEF BindOrdered, Place
<1>5. CASE NoMatch \/ RuleActionDNSRouteOptions
  <2>1. /\ UNCHANGED <<rules, armed, armedRules, result>> /\ pc = "match"
        /\ ruleIndex' = ruleIndex + 1 /\ pc' = "walk"
    BY <1>5, Zenon DEF NoMatch, RuleActionDNSRouteOptions, Matched, NextRule
  <2> QED
    BY <2>1, <1>b, <1>c, Zenon DEF OnRule
<1>6. CASE RuleActionEvaluate
  <2>1. pc = "match" /\ UNCHANGED <<rules, armed, armedRules, result>>
    BY <1>6, Zenon DEF RuleActionEvaluate, Matched, NextRule
  <2>2. CASE ruleIndex' = ruleIndex + 1 /\ pc' = "walk"
    BY <2>1, <2>2, <1>b, <1>c DEF OnRule
  <2>3. CASE UNCHANGED ruleIndex /\ pc' = "settle"
    BY <2>1, <2>3, <1>a, Zenon DEF Place
  <2> QED
    BY <1>6, <2>2, <2>3, Zenon DEF RuleActionEvaluate, NextRule
<1>7. CASE RuleActionRespond
  BY <1>7, <1>a, Zenon DEF RuleActionRespond, Matched, Respond, Return, Place
<1>8. CASE RuleActionDNSRoute
  <2>1. pc = "match" /\ UNCHANGED <<rules, armed, armedRules, result>>
    BY <1>8, Zenon DEF RuleActionDNSRoute, Matched, NextRule, Pend
  <2>2. CASE ruleIndex' = ruleIndex + 1 /\ pc' = "walk"
    BY <2>1, <2>2, <1>b, <1>c DEF OnRule
  <2>3. CASE UNCHANGED ruleIndex /\ pc' \in {"settle", "finish"}
    BY <2>1, <2>3, <1>a, Zenon DEF Place
  <2> QED
    BY <1>8, <2>2, <2>3, Zenon DEF RuleActionDNSRoute, NextRule, Pend
<1>9. CASE RuleActionFixed
  BY <1>9, <1>a, Zenon DEF RuleActionFixed, Matched, Return, Place
<1>10. CASE SweepEnd
  <2>1. CASE ret = "walk"
    <3>1. /\ UNCHANGED <<rules, armed, armedRules, result>> /\ pc = "sweep"
          /\ ruleIndex' = ruleIndex + 1 /\ pc' = "walk" /\ Unswept = {}
      BY <1>10, <2>1 DEF SweepEnd, NextRule
    <3>2. ruleIndex \in Index
      BY <2>1, <3>1 DEF Place, Race
    <3>3. \A i \in armedRules : armed[i].futures # {}
      BY <3>1, Zenon DEF Place, Unswept
    <3> QED
      BY <3>1, <3>2, <3>3, <1>b
  <2>2. CASE ret # "walk"
    BY <1>10, <2>2, <1>a, Zenon DEF SweepEnd, Place
  <2> QED
    BY <2>1, <2>2
<1>11. CASE SweepPast
  <2>1. PICK i \in First(Unswept) : ~Ready(i) /\ pos' = i
    BY <1>11 DEF SweepPast
  <2>2. pc = "sweep" /\ UNCHANGED <<rules, armed, armedRules, ruleIndex, pc, ret, result>>
    BY <1>11 DEF SweepPast
  <2>3. ASSUME NEW j \in armedRules, armed[j].futures = {} PROVE pos' < j
    <3>1. j \in Unswept /\ j # i
      BY <2>1, <2>2, <2>3, Zenon DEF Place, Unswept, Ready
    <3> QED
      BY <2>1, <3>1, <1>0 DEF First, Unswept
  <2> QED
    BY <2>2, <2>3, <1>a DEF Place
<1>12. CASE SweepJudge
  <2>1. PICK i \in First(Unswept) :
          /\ armedRules' = armedRules \ {i}
          /\ \/ pos' = i /\ UNCHANGED <<pc, ret, result>>
             \/ pc' = "done"
             \/ pc' = "finish" /\ result' = result
    <3>1. PICK i \in First(Unswept) :
            /\ armedRules' = armedRules \ {i}
            /\ \/ pos' = i /\ UNCHANGED <<pc, ret, result>>
               \/ \E v : Respond(i, v)
               \/ Pend(i, 0, armed[i].options)
               \/ Return(rules[i].action, i, None, {})
      BY <1>12, Zenon DEF SweepJudge
    <3>2. (\E v : Respond(i, v)) \/ Return(rules[i].action, i, None, {}) => pc' = "done"
      BY DEF Respond, Return
    <3>3. Pend(i, 0, armed[i].options) => pc' = "finish" /\ result' = result
      BY Zenon DEF Pend
    <3> QED
      BY <3>1, <3>2, <3>3, Zenon
  <2>2. pc = "sweep" /\ UNCHANGED <<rules, armed, ruleIndex>>
    BY <1>12, Zenon DEF SweepJudge
  <2>3. ASSUME NEW j \in armedRules', armed[j].futures = {}, pos' = i, ret = "walk"
        PROVE  pos' < j
    <3>1. j \in Unswept /\ j # i
      BY <2>1, <2>2, <2>3 DEF Place, Unswept
    <3> QED
      BY <2>3, <3>1, <1>0 DEF First, Unswept
  <2>4. armedRules' \subseteq armedRules
    BY <2>1
  <2>5. CASE pos' = i /\ UNCHANGED <<pc, ret, result>>
    BY <2>2, <2>3, <2>4, <2>5, <1>a, Zenon DEF Place
  <2>6. CASE pc' = "done" \/ (pc' = "finish" /\ result' = result)
    BY <2>2, <2>4, <2>6, <1>a, Zenon DEF Place
  <2> QED
    BY <2>1, <2>5, <2>6
<1>13. CASE Resume \/ Wake
  BY <1>13, <1>a, Zenon DEF Resume, Wake, Place
<1>14. CASE GiveUp \/ FinishFuture \/ FinishExchange
  BY <1>14, <1>a, Zenon DEF GiveUp, FinishFuture, FinishExchange, Return
<1>15. CASE CallerGone \/ \E f \in Index : Callback(f)
  <2>1. UNCHANGED <<rules, armed, armedRules, ruleIndex, pc, ret, pos, result>>
    BY <1>15 DEF CallerGone, Callback, Arrive, Signal, walkerVars
  <2> QED
    BY <2>1, <1>a DEF Place
<1>16. CASE UNCHANGED vars
  <2>1. UNCHANGED <<rules, armed, armedRules, ruleIndex, pc, ret, pos, result>>
    BY <1>16 DEF vars
  <2> QED
    BY <2>1, <1>a DEF Place
<1>17. CASE BindRace
  <2>1. ruleIndex \in Index /\ rules[ruleIndex].race /\ pc = "bind"
    BY <1>17, Zenon DEF BindRace, OnRule, current
  <2>2. /\ UNCHANGED <<rules, result>> /\ armedRules' = armedRules \cup {ruleIndex}
        /\ \A i \in Index : i # ruleIndex => armed'[i] = armed[i]
        /\ armed'[ruleIndex].futures = pendingFutures
    BY <1>17, <2>1 DEF BindRace, IInv, NextRule
  <2>3. \A i \in armedRules : armed'[i].futures # {} /\ i < ruleIndex
    <3>1. \A i \in armedRules : i \in Index /\ i < ruleIndex /\ i # ruleIndex
      BY <2>1, <1>0, <1>c DEF IInv
    <3> QED
      BY <2>1, <2>2, <3>1, <1>c, Zenon
  <2>4. CASE pendingFutures = {}
    <3>1. UNCHANGED ruleIndex /\ pc' = "sweep" /\ pos' = 0 /\ ret' = "walk"
      BY <1>17, <2>4 DEF BindRace
    <3>2. Race(ruleIndex)'
      BY <2>1, <2>2, <3>1, Zenon DEF Race, Index
    <3>3. (\A i \in armedRules : Passed(i))'
      BY <2>2, <2>3, <3>1, Zenon DEF Passed
    <3> QED
      BY <1>0, <2>1, <2>2, <2>3, <3>1, <3>2, <3>3 DEF Place
  <2>5. CASE pendingFutures # {}
    <3>1. ruleIndex' = ruleIndex + 1 /\ pc' = "walk"
      BY <1>17, <2>5 DEF BindRace, NextRule
    <3>2. (\A i \in armedRules : Passed(i))'
      BY <2>2, <2>3, <3>1, <1>0 DEF Passed
    <3>3. ruleIndex' \in 1 .. Len(rules') + 1
      BY <2>1, <2>2, <3>1, <1>0 DEF Index
    <3> QED
      BY <2>1, <2>2, <2>3, <2>5, <3>1, <3>2, <3>3, Zenon DEF Place
  <2> QED
    BY <2>4, <2>5
<1> QED
  BY <1>1, <1>2, <1>3, <1>4, <1>5, <1>6, <1>7, <1>8, <1>9, <1>10, <1>11, <1>12, <1>13,
     <1>14, <1>15, <1>16, <1>17, Zenon DEF Next, Walk

\* Only the rule in hand sends a query, and only what was sent is answered.
LEMMA NextFuture == IInv /\ OnRule /\ [Next]_vars => FutureStep
<1> SUFFICES ASSUME IInv, OnRule, [Next]_vars PROVE FutureStep
  OBVIOUS
<1> USE DEF envVars
<1>1. CASE UNCHANGED <<rules, future>>
  BY <1>1 DEF FutureStep
<1>a. ASSUME ruleIndex \in Index, ruleIndex \notin Launched, UNCHANGED rules,
             future' = [future EXCEPT ![ruleIndex] = "pending"]
      PROVE  FutureStep
  BY <1>a DEF FutureStep, IInv, Launched
<1>2. CASE RuleActionEvaluate
  <2>1. ruleIndex \in Index /\ rules[ruleIndex].action = "evaluate" /\ UNCHANGED rules
    BY <1>2 DEF RuleActionEvaluate, Matched, current, OnRule
  <2>2. ruleIndex \notin Launched
    BY <2>1 DEF IInv, Behind, Index
  <2> QED
    BY <1>1, <1>2, <1>a, <2>1, <2>2, Zenon DEF RuleActionEvaluate, launchDNSEvaluate
<1>3. CASE RuleActionDNSRoute
  <2>1. ruleIndex \in Index /\ UNCHANGED rules
    BY <1>3 DEF RuleActionDNSRoute, Matched, OnRule
  <2>2. terminalFuture = 0 => ruleIndex \notin Launched
    BY <2>1 DEF IInv, Behind, Index
  <2> QED
    BY <1>1, <1>3, <1>a, <2>1, <2>2 DEF RuleActionDNSRoute, launchDNSEvaluate
<1>4. CASE \E f \in Index : Arrive(f)
  <2>1. PICK f \in Launched, v \in Answer :
          ~resolved(f) /\ future' = [future EXCEPT ![f] = v] /\ UNCHANGED walkerVars
    BY <1>4, Zenon DEF Arrive
  <2>2. future[f] = "pending"
    BY <2>1 DEF Launched, resolved, IInv
  <2> QED
    BY <2>1, <2>2 DEF FutureStep, walkerVars, IInv, Launched
<1> QED
  BY <1>1, <1>2, <1>3, <1>4, Zenon
     DEF Next, Walk, settleDNSFutures, WalkRule, WalkEnd, BindRace, BindOrdered, NoMatch,
         RuleActionDNSRouteOptions, RuleActionRespond, RuleActionFixed, SweepEnd, SweepPast,
         SweepJudge, Resume, Wake, GiveUp, FinishFuture, FinishExchange, CallerGone,
         Callback, Signal, walkerVars, vars

\* A rule that was judged without a response stays so.
LEMMA MissedStays == [Next]_vars => missed \subseteq missed'
<1> SUFFICES ASSUME [Next]_vars PROVE missed \subseteq missed'
  OBVIOUS
<1>1. CASE UNCHANGED missed
  BY <1>1
<1>2. CASE \E i : Judge(i)
  BY <1>2 DEF Judge
<1> QED
  BY <1>1, <1>2, Zenon
     DEF Next, Walk, settleDNSFutures, WalkRule, WalkEnd, BindRace, BindOrdered, NoMatch,
         RuleActionDNSRouteOptions, RuleActionEvaluate, RuleActionRespond,
         RuleActionDNSRoute, RuleActionFixed, Matched, SweepEnd, SweepPast,
         SweepJudge, Resume, Wake, GiveUp, FinishFuture, FinishExchange, CallerGone,
         Callback, Arrive, Signal, walkerVars, vars

\* A rule is judged on its responses if namedResponses has those that arrived.
LEMMA MatchIs ==
  ASSUME NEW i, NEW r, \A t \in rules[i].tags : resolved(t) => t \in settled,
         rules[i].anon => r = view(InForce[i])
  PROVE  Match(i, r) <=> Hits(i, InForce[i])
<1>1. \A t \in rules[i].tags : namedResponse(t) = view(t)
  BY DEF namedResponse, view, resolved, Answer
<1>2. {namedResponse(t) : t \in rules[i].tags} = {view(t) : t \in rules[i].tags}
  BY <1>1
<1> QED
  BY <1>2, Zenon DEF Match, Hits

\* Where the walk stands on the list.
LEMMA PlaceIs ==
  ASSUME IInv, Place
  PROVE  /\ rules \in RuleLists /\ Len(rules) \in Nat
         /\ ruleIndex \in Nat /\ 0 < ruleIndex /\ ruleIndex <= Len(rules) + 1
         /\ \A i \in Index : i \in Nat /\ 0 < i /\ i <= Len(rules)
         /\ armedRules \subseteq Index /\ \A i \in armedRules : rules[i].race
         /\ ~Over => \A i \in armedRules : Passed(i)
<1>1. rules \in RuleLists /\ Len(rules) \in Nat /\ ruleIndex \in Nat
  BY ListLength DEF IInv
<1>2. 0 < ruleIndex /\ ruleIndex <= Len(rules) + 1
  BY <1>1 DEF Place
<1>3. \A i \in Index : i \in Nat /\ 0 < i /\ i <= Len(rules)
  BY <1>1 DEF Index
<1>4. armedRules \subseteq Index /\ \A i \in armedRules : rules[i].race
  BY DEF IInv
<1>5. ~Over => \A i \in armedRules : Passed(i)
  BY DEF Place
<1> QED
  BY <1>1, <1>2, <1>3, <1>4, <1>5, Zenon

\* The rules stay, and with them their indices.
LEMMA SameList == ASSUME FutureStep PROVE rules' = rules /\ Index' = Index
BY DEF FutureStep, Index

\* What is in force behind rule m, from what is in force at it.
LEMMA InForceNext == \A m \in Nat : 0 < m => InForce[m + 1] = Latest(m, InForce[m])
<1> SUFFICES ASSUME NEW m \in Nat, 0 < m PROVE InForce[m + 1] = Latest(m, InForce[m])
  OBVIOUS
<1>1. m + 1 \in Nat /\ ~(m + 1 <= 1) /\ (m + 1) - 1 = m
  OBVIOUS
<1>2. InForce[m + 1] = Latest((m + 1) - 1, InForce[(m + 1) - 1])
  BY <1>1, InForceIs
<1> QED
  BY <1>1, <1>2

\* Nothing is in force at the first rule.
LEMMA InForceFirst == InForce[1] = 0
<1>1. 1 \in Nat /\ 1 <= 1
  OBVIOUS
<1> QED
  BY <1>1, InForceIs, Zenon

\* A future other than 0 that is in force at a rule is that of an earlier rule.
LEMMA LowIsRule ==
  ASSUME rules \in RuleLists, NEW i \in Index, NEW a \in 0 .. i - 1, a # 0
  PROVE  a \in Index
<1>1. i \in Nat /\ i <= Len(rules) /\ Len(rules) \in Nat
  BY RuleIs
<1> QED
  BY <1>1 DEF Index

\* The index after m.
LEMMA After ==
  ASSUME NEW m \in Nat, 0 < m
  PROVE  \E n \in Nat : /\ n = m + 1 /\ n > 1 /\ n \in 1 .. n /\ n - 1 = m
                       /\ \A i \in Nat : i <= m => i <= n
OBVIOUS

\* The indices before m + 1 are those before m, and m.
LEMMA UpTo == \A m \in Nat : 0 < m => 1 .. (m + 1) - 1 = (1 .. m - 1) \cup {m}
OBVIOUS

\* Behind the walk, the rules without race wait for nothing.
LEMMA WalkedFirm ==
  ASSUME IInv, Place, Walking
  PROVE  /\ FirmTo(ruleIndex)
         /\ ruleIndex \in Index /\ (rules[ruleIndex].race \/ Fixed(ruleIndex))
              => FirmTo(ruleIndex + 1)
<1>1. rules \in RuleLists /\ ruleIndex \in Nat /\ Len(rules) \in Nat
  BY ListLength DEF IInv
<1>2. ASSUME NEW k \in 1 .. ruleIndex - 1, ~rules[k].race PROVE Fixed(k)
  <2>1. k \in Index /\ Passed(k) /\ k \notin armedRules
    BY <1>1, <1>2 DEF IInv, Place, Index, Passed
  <2> QED
    BY <2>1, Zenon DEF Walking
<1>3. FirmTo(ruleIndex)
  BY <1>1, <1>2 DEF FirmTo, Place
<1>4. ASSUME ruleIndex \in Index, rules[ruleIndex].race \/ Fixed(ruleIndex)
      PROVE  FirmTo(ruleIndex + 1)
  <2>1. \A k \in 1 .. (ruleIndex + 1) - 1 : k = ruleIndex \/ k \in 1 .. ruleIndex - 1
    BY <1>1
  <2>2. \A k \in 1 .. (ruleIndex + 1) - 1 : ~rules[k].race => Fixed(k)
    BY <1>2, <1>4, <2>1, Zenon
  <2> QED
    BY <1>1, <1>4, <2>2 DEF FirmTo, Index
<1> QED
  BY <1>3, <1>4, Zenon

\* A step that keeps the rule in hand, and after which what is armed was armed.
LEMMA WalkOn ==
  ASSUME IInv, Place, Walking, FutureStep, ~Over,
         UNCHANGED <<ruleIndex, armed, anonymousFuture, effectiveOptions>>,
         armedRules' \subseteq armedRules,
         \A i \in armedRules \ armedRules' : Fixed(i) /\ ~Takes(i),
         pc' = "sweep" /\ ret' = "walk" => pc = "sweep" /\ ret = "walk",
         pc' = "match" => ruleIndex \in Index /\ Firm(ruleIndex, anonymousFuture)
  PROVE  Walking'
<1>0. /\ rules \in RuleLists /\ rules' = rules /\ Index' = Index /\ ruleIndex \in Nat
      /\ ruleIndex > 0
  BY PlaceIs, SameList
<1>1. FirmTo(ruleIndex)
  BY WalkedFirm
<1>2. InForce'[ruleIndex] = InForce[ruleIndex] /\ OptionsAt(ruleIndex)' = OptionsAt(ruleIndex)
  <2>1. PICK n \in Nat : n = ruleIndex
    BY <1>0
  <2>2. n \in 1 .. n /\ FirmTo(n)
    BY <1>0, <1>1, <2>1
  <2>3. InForce'[n] = InForce[n] /\ OptionsAt(n)' = OptionsAt(n)
    BY <2>2, InForceKept, OptionsKept
  <2> QED
    BY <2>1, <2>3
<1>3. pc' = "match" => Firm(ruleIndex, anonymousFuture)'
  <2>1. PICK a \in 0 .. ruleIndex - 1 : a = anonymousFuture
    BY <1>0, InForceLow DEF Walking
  <2>2. pc' = "match" => Firm(ruleIndex, a)'
    BY <1>0, <2>1, FirmKept
  <2>3. Firm(ruleIndex, a)' => Firm(ruleIndex, anonymousFuture)'
    BY <2>1 DEF Firm
  <2> QED
    BY <2>2, <2>3
<1>4. ASSUME NEW i \in Index, Passed(i)'
      PROVE  IF i \in armedRules' THEN ArmedRight(i)' ELSE Fixed(i)' /\ ~Takes(i)'
  <2>1. Passed(i) /\ i <= ruleIndex
    BY <1>0, <1>4 DEF Passed, Index
  <2>2. CASE i \in armedRules'
    BY <1>1, <2>1, <2>2, ArmedKept DEF Walking
  <2>3. CASE i \notin armedRules'
    <3>1. Fixed(i) /\ ~Takes(i)
      BY <2>1, <2>3 DEF Walking
    <3> QED
      BY <1>1, <2>1, <2>3, <3>1, FixedKept, Zenon
  <2> QED
    BY <2>2, <2>3
<1>5. anonymousFuture' = InForce'[ruleIndex'] /\ effectiveOptions' = OptionsAt(ruleIndex)'
  BY <1>2, Zenon DEF Walking
<1> QED
  BY <1>0, <1>3, <1>4, <1>5 DEF Walking

\* A step to the next rule.
LEMMA WalkNext ==
  ASSUME IInv, Place, Walking, FutureStep, NEW r \in Index, r = ruleIndex,
         ruleIndex' = ruleIndex + 1, pc' = "walk",
         \A i \in Index : i # ruleIndex =>
           armed'[i] = armed[i] /\ (i \in armedRules' <=> i \in armedRules),
         anonymousFuture' = Latest(ruleIndex, anonymousFuture),
         effectiveOptions' = effectiveOptions \cup
           {j \in {ruleIndex} : rules[j].action = "options" /\ Hits(j, InForce[j])},
         IF r \in armedRules' THEN rules[r].race /\ ArmedRight(r)' ELSE Fixed(r) /\ ~Takes(r)
  PROVE  Walking'
<1>0. /\ rules \in RuleLists /\ rules' = rules /\ Index' = Index /\ ruleIndex \in Nat
      /\ ruleIndex > 0
  BY PlaceIs, SameList, Zenon
<1>1. FirmTo(ruleIndex + 1)
  BY WalkedFirm, Zenon
<1>2. PICK n \in Nat : /\ n = ruleIndex + 1 /\ n > 1 /\ n \in 1 .. n /\ n - 1 = ruleIndex
                       /\ \A i \in Nat : i <= ruleIndex => i <= n
  BY PlaceIs, After, Zenon
<1>3. FirmTo(n) /\ \A i \in Index : i <= ruleIndex => i <= n
  BY <1>1, <1>2, PlaceIs, Zenon
<1>4. InForce'[n] = InForce[n] /\ OptionsAt(n)' = OptionsAt(n)
  BY <1>2, <1>3, InForceKept, OptionsKept, Zenon
<1>5. InForce[n] = Latest(ruleIndex, anonymousFuture)
  <2>1. InForce[ruleIndex + 1] = Latest(ruleIndex, InForce[ruleIndex])
    BY <1>0, InForceNext, Zenon
  <2> QED
    BY <1>2, <2>1, Zenon DEF Walking
<1>6. OptionsAt(n) = effectiveOptions'
  <2>1. 1 .. n - 1 = (1 .. ruleIndex - 1) \cup {ruleIndex}
    BY <1>0, <1>2, UpTo, Zenon
  <2> QED
    BY <2>1, Zenon DEF OptionsAt, Walking
<1>7. ASSUME NEW i \in Index, Passed(i)'
      PROVE  IF i \in armedRules' THEN ArmedRight(i)' ELSE Fixed(i)' /\ ~Takes(i)'
  <2>1. i <= ruleIndex /\ (i # ruleIndex => Passed(i))
    BY <1>0, <1>7 DEF Passed, Index
  <2>2. CASE i = ruleIndex
    BY <1>3, <2>1, <2>2, FixedKept, Zenon
  <2>3. CASE i # ruleIndex /\ i \in armedRules
    BY <1>3, <2>1, <2>3, ArmedKept, Zenon DEF Walking
  <2>4. CASE i # ruleIndex /\ i \notin armedRules
    BY <1>3, <2>1, <2>4, FixedKept, Zenon DEF Walking
  <2> QED
    BY <2>2, <2>3, <2>4
<1>8. anonymousFuture' = InForce'[ruleIndex'] /\ effectiveOptions' = OptionsAt(ruleIndex)'
  BY <1>2, <1>4, <1>5, <1>6, Zenon
<1> QED
  BY <1>0, <1>7, <1>8, Zenon DEF Walking

\* Nothing that arrives makes another rule the right one.
LEMMA RightKept ==
  ASSUME IInv, FutureStep, UNCHANGED ruleIndex, NEW i, Right(i)
  PROVE  Right(i)' /\ InForce'[i] = InForce[i] /\ OptionsAt(i)' = OptionsAt(i)
<1>0. /\ rules \in RuleLists /\ rules' = rules /\ Index' = Index /\ ruleIndex \in Nat
      /\ i \in Nat /\ Len(rules) \in Nat /\ \A c : Race(c)' <=> Race(c)
  <2>1. rules \in RuleLists /\ Len(rules) \in Nat /\ ruleIndex \in Nat
    BY ListLength DEF IInv
  <2>2. i \in Nat
    BY <2>1 DEF Right
  <2> QED
    BY <2>1, <2>2, SameList, Zenon DEF Race
<1>1. FirmTo(i)
  <2>1. ASSUME NEW k \in 1 .. i - 1, ~rules[k].race PROVE Fixed(k)
    BY <1>0, <2>1 DEF Right, Index, Race
  <2> QED
    BY <1>0, <2>1 DEF FirmTo, Right
<1>2. i \in 1 .. i /\ i <= ruleIndex
  BY <1>0 DEF Right
<1>3. i \in Index => Fixed(i)' /\ Takes(i)'
  BY <1>1, <1>2, <1>0, FixedKept DEF Right
<1>4. ASSUME NEW j \in Index, j < i, Fixed(j), ~Takes(j) PROVE Fixed(j)' /\ ~Takes(j)'
  <2>1. j <= i /\ j <= ruleIndex
    BY <1>0, <1>2, <1>4 DEF Index
  <2> QED
    BY <1>1, <1>4, <2>1, FixedKept
<1>5. Right(i)'
  BY <1>0, <1>3, <1>4 DEF Right
<1> QED
  BY <1>1, <1>2, <1>5, InForceKept, OptionsKept

\* The rule in hand is the right one if no race is on and it takes effect.
LEMMA RightHere ==
  ASSUME IInv, Place, Walking, armedRules = {},
         ruleIndex \in Index => Fixed(ruleIndex) /\ Takes(ruleIndex)
  PROVE  Right(ruleIndex)
<1>1. /\ ruleIndex \in Nat /\ ruleIndex \in 1 .. Len(rules) + 1 /\ ruleIndex <= ruleIndex
  BY PlaceIs DEF Place
<1>2. \A j \in Index : j < ruleIndex => Fixed(j) /\ ~Takes(j)
  BY DEF Walking, Passed
<1> QED
  BY <1>1, <1>2, Zenon DEF Right

\* An armed rule is a right one if it takes effect.
LEMMA RightArmed ==
  ASSUME IInv, Place, Walking, ~Over, NEW i \in armedRules, Fixed(i), Takes(i)
  PROVE  Right(i)
<1>1. i \in Index /\ Race(i) /\ i <= ruleIndex /\ i \in Nat /\ ruleIndex \in Nat
  <2>1. i \in Index /\ rules[i].race /\ Passed(i) /\ i \in Nat /\ ruleIndex \in Nat
    BY PlaceIs
  <2> QED
    BY <2>1 DEF Passed, Race
<1>2. ASSUME NEW j \in Index, j < i, ~Race(j) PROVE Fixed(j) /\ ~Takes(j)
  <2>1. Passed(j) /\ j \notin armedRules
    BY <1>1, <1>2 DEF Passed, IInv, Race, Index
  <2> QED
    BY <2>1 DEF Walking
<1>3. i \in 1 .. Len(rules) + 1
  BY <1>1, RuleIs DEF IInv
<1> QED
  BY <1>1, <1>2, <1>3 DEF Right

\* The rule in hand is judged on its responses, and waits for none of them.
LEMMA Judged ==
  ASSUME IInv, OnRule, Place, Walking, pc = "match", Judge(ruleIndex), missed' = {}
  PROVE  /\ ruleIndex \in Index /\ ruleIndex \notin armedRules
         /\ anonymousFuture = InForce[ruleIndex] /\ Fixed(ruleIndex)
         /\ \A t \in rules[ruleIndex].tags : namedResponse(t) = view(t)
         /\ Match(ruleIndex, view(anonymousFuture)) <=> Hits(ruleIndex, InForce[ruleIndex])
<1>1. anonymousFuture = InForce[ruleIndex] /\ Fixed(ruleIndex)
  BY DEF Walking, Fixed
<1>2. \A t \in rules[ruleIndex].tags : resolved(t) => t \in settled
  BY Zenon DEF Judge
<1>3. \A t \in rules[ruleIndex].tags : namedResponse(t) = view(t)
  BY <1>2 DEF namedResponse, view, resolved, Answer
<1>4. ruleIndex \in Index /\ ruleIndex \notin armedRules
  <2>1. ruleIndex \in Nat /\ ~Over /\ ruleIndex \in Index
    BY PlaceIs DEF OnRule, Over
  <2>2. ~Passed(ruleIndex)
    BY <2>1 DEF Passed
  <2> QED
    BY <2>1, <2>2, PlaceIs
<1> QED
  BY <1>1, <1>2, <1>3, <1>4, MatchIs

\* A step from a state on the list, at which no response is missed.
OnList ==
  /\ IInv /\ OnRule /\ Place /\ FutureStep /\ missed' = {}
  /\ IF Over THEN \A i \in Chosen : Outcome(i) ELSE Walking

\* A step that keeps the rule in hand.
LEMMA KeepRule ==
  ASSUME OnList, ~Over, ~Over',
         UNCHANGED <<ruleIndex, armed, armedRules, anonymousFuture, effectiveOptions>>,
         pc' = "sweep" /\ ret' = "walk" => pc = "sweep" /\ ret = "walk",
         pc' = "match" => ruleIndex \in Index /\ Firm(ruleIndex, anonymousFuture)
  PROVE  ListInv'
BY WalkOn, Zenon DEF OnList, ListInv

\* The walk goes on from a rule that was judged.
LEMMA GoOn ==
  ASSUME OnList, pc = "match", Judge(ruleIndex), ~Takes(ruleIndex),
         ruleIndex' = ruleIndex + 1, pc' = "walk", UNCHANGED <<armed, armedRules>>,
         anonymousFuture' = Latest(ruleIndex, anonymousFuture),
         effectiveOptions' = effectiveOptions \cup
           {j \in {ruleIndex} : rules[j].action = "options" /\ Hits(j, InForce[j])}
  PROVE  ListInv'
<1> USE DEF OnList
<1>r. PICK r : r = ruleIndex
  BY Zenon
<1>1. Walking
  BY Zenon DEF Over
<1>2. r \in Index /\ r \notin armedRules' /\ Fixed(r) /\ ~Takes(r)
  BY <1>r, <1>1, Judged, Zenon
<1>3. Walking'
  BY <1>r, <1>1, <1>2, WalkNext, Zenon
<1> QED
  BY <1>3, Zenon DEF ListInv, Over

\* A rule is chosen.
LEMMA Choose ==
  ASSUME OnList, NEW i, Right(i), UNCHANGED <<rules, future, ruleIndex>>, Over',
         Chosen' \subseteq {i},
         pc' = "finish" => suspension'.options = OptionsAt(i),
         pc' = "done" /\ result'.kind = "exchange" => result'.options = OptionsAt(i),
         pc' = "done" /\ result'.kind = "response" =>
           /\ i \in Index /\ result'.value # None
           /\ \E f \in IF rules[i].tags # {} THEN rules[i].tags ELSE {InForce[i]} :
                result'.value = view(f)
  PROVE  ListInv'
<1> USE DEF OnList
<1>1. Right(i)' /\ InForce'[i] = InForce[i] /\ OptionsAt(i)' = OptionsAt(i)
  BY RightKept, Zenon
<1>2. (\A f : view(f)' = view(f)) /\ Index' = Index
  BY Zenon DEF view, Index
<1>3. Outcome(i)'
  BY <1>1, <1>2, Zenon DEF Outcome
<1> QED
  BY <1>3, Zenon DEF ListInv

\* At the end of the list the default server is chosen, or the walk waits for
\* the races.
LEMMA EndList ==
  ASSUME OnList, WalkEnd
  PROVE  ListInv'
<1> USE DEF OnList, envVars, stateVars, Goto, Loop, Suspend
<1>r. PICK r : r = ruleIndex
  BY Zenon
<1>1. CASE armedRules # {}
  BY <1>1, KeepRule, Zenon DEF WalkEnd, Over
<1>2. CASE armedRules = {}
  <2>1. pc = "walk" /\ ruleIndex \notin Index /\ UNCHANGED <<rules, future, ruleIndex>>
    BY Zenon DEF WalkEnd
  <2>2. pc' = "finish" /\ suspension'.rule = ruleIndex /\ suspension'.options = effectiveOptions
    BY <1>2 DEF WalkEnd, Pend
  <2>3. Walking /\ Right(r) /\ effectiveOptions = OptionsAt(r)
    BY <1>r, <1>2, <2>1, RightHere, Zenon DEF Over, Walking
  <2> QED
    BY <1>r, <2>1, <2>2, <2>3, Choose, Zenon DEF Over, Chosen
<1> QED
  BY <1>1, <1>2

\* A rule without race is judged when it waits for nothing.
LEMMA OrderedList ==
  ASSUME OnList, BindOrdered
  PROVE  ListInv'
<1> USE DEF OnList, envVars, stateVars, Goto, Loop, Suspend
<1>1. pc = "bind" /\ ruleIndex \in Index
  BY Zenon DEF BindOrdered, OnRule
<1>2. pendingFutures = {} => Firm(ruleIndex, anonymousFuture)
  <2>1. anonymousFuture = InForce[ruleIndex] /\ rules \in RuleLists
    BY <1>1, Zenon DEF Walking, Over, IInv
  <2>2. anonymousFuture \in 0 .. ruleIndex - 1 /\ ruleIndex \in Nat /\ ruleIndex > 0
    BY <1>1, <2>1, InForceLow, RuleIs, Zenon
  <2>3. anonymousFuture # 0 => anonymousFuture \in Index
    BY <1>1, <2>1, <2>2, LowIsRule, Zenon
  <2>4. \A f \in Index : future[f] = "pending" => f \in Launched /\ ~resolved(f)
    BY Zenon DEF Launched, resolved, Answer, Response
  <2> QED
    BY <1>1, <2>1, <2>3, <2>4, RuleIs, Zenon DEF pendingFutures, current, Firm
<1> QED
  BY <1>1, <1>2, KeepRule, Zenon DEF BindOrdered, Over

\* A rule that does not match is passed.
LEMMA NoMatchList ==
  ASSUME OnList, NoMatch
  PROVE  ListInv'
<1> USE DEF OnList, envVars, stateVars, Goto, Loop, Suspend
<1>1. /\ pc = "match" /\ Judge(ruleIndex) /\ ruleIndex' = ruleIndex + 1 /\ pc' = "walk"
      /\ UNCHANGED <<armed, armedRules, anonymousFuture, effectiveOptions>>
      /\ ~Match(ruleIndex, view(anonymousFuture))
  BY DEF NoMatch, NextRule
<1>2. ~Hits(ruleIndex, InForce[ruleIndex]) /\ anonymousFuture = InForce[ruleIndex]
  BY <1>1, Judged, Zenon DEF Over
<1> QED
  BY <1>1, <1>2, GoOn, Zenon DEF Takes, Latest

\* The options of a rule that matches join those in force.
LEMMA OptionsList ==
  ASSUME OnList, RuleActionDNSRouteOptions
  PROVE  ListInv'
<1> USE DEF OnList, envVars, stateVars, Goto, Loop, Suspend
<1>1. /\ pc = "match" /\ Judge(ruleIndex) /\ ruleIndex' = ruleIndex + 1 /\ pc' = "walk"
      /\ UNCHANGED <<armed, armedRules, anonymousFuture>>
      /\ effectiveOptions' = effectiveOptions \cup {ruleIndex}
      /\ Match(ruleIndex, view(anonymousFuture)) /\ rules[ruleIndex].action = "options"
  BY Zenon DEF RuleActionDNSRouteOptions, Matched, NextRule, current
<1>2. Hits(ruleIndex, InForce[ruleIndex])
  BY <1>1, Judged, Zenon DEF Over
<1> QED
  BY <1>1, <1>2, GoOn, Zenon DEF Takes, Latest

\* A query of an evaluate rule comes into force.
LEMMA EvaluateList ==
  ASSUME OnList, RuleActionEvaluate
  PROVE  ListInv'
<1> USE DEF OnList, envVars, stateVars, Goto, Loop, Suspend
<1>1. /\ pc = "match" /\ Judge(ruleIndex) /\ UNCHANGED <<armed, armedRules, effectiveOptions>>
      /\ Match(ruleIndex, view(anonymousFuture)) /\ rules[ruleIndex].action = "evaluate"
  BY Zenon DEF RuleActionEvaluate, Matched, current
<1>2. Hits(ruleIndex, InForce[ruleIndex]) /\ anonymousFuture = InForce[ruleIndex]
  BY <1>1, Judged, Zenon DEF Over
<1>3. CASE pc' = "settle" /\ UNCHANGED <<ruleIndex, anonymousFuture>>
  BY <1>1, <1>3, KeepRule, Zenon DEF Over
<1>4. CASE /\ ruleIndex' = ruleIndex + 1 /\ pc' = "walk"
           /\ anonymousFuture' = IF rules[ruleIndex].named THEN anonymousFuture
                                 ELSE IF rules[ruleIndex].loaded THEN ruleIndex ELSE 0
  BY <1>1, <1>2, <1>4, GoOn, Zenon DEF Takes, Latest
<1> QED
  BY <1>3, <1>4, Zenon DEF RuleActionEvaluate, NextRule, current

\* A respond rule is chosen with a response that it is bound to, or the one in
\* force.
LEMMA RespondList ==
  ASSUME OnList, RuleActionRespond
  PROVE  ListInv'
<1> USE DEF OnList, envVars, stateVars, Goto, Loop, Suspend
<1>r. PICK r : r = ruleIndex
  OBVIOUS
<1>1. /\ pc = "match" /\ Judge(ruleIndex) /\ UNCHANGED <<envVars, stateVars>>
      /\ Match(ruleIndex, view(anonymousFuture)) /\ rules[ruleIndex].action = "respond"
  BY Zenon DEF RuleActionRespond, Matched, current
<1>2. /\ ruleIndex \in Index /\ Hits(ruleIndex, InForce[ruleIndex]) /\ Fixed(ruleIndex)
      /\ anonymousFuture = InForce[ruleIndex] /\ Walking
      /\ \A t \in rules[ruleIndex].tags : namedResponse(t) = view(t)
  BY <1>1, Judged, Zenon DEF Over
<1>3. CASE pc' = "settle"
  BY <1>1, <1>3, KeepRule, Zenon DEF Over
<1>4. CASE armedRules = {} /\ \E f \in IF rules[r].tags # {} THEN rules[r].tags
                                                             ELSE {InForce[r]} :
                                Respond(r, view(f))
  <2>1. Right(r)
    BY <1>r, <1>1, <1>2, <1>4, RightHere, Zenon DEF Takes
  <2>2. PICK f \in IF rules[r].tags # {} THEN rules[r].tags ELSE {InForce[r]} :
          Respond(r, view(f))
    BY <1>4, Zenon
  <2>3. /\ pc' = "done" /\ result'.rule = r /\ result'.value = view(f)
        /\ result'.kind = IF view(f) = None THEN "error" ELSE "response"
    BY <2>2, Zenon DEF Respond, Return
  <2> QED
    BY <1>r, <1>1, <1>2, <2>1, <2>2, <2>3, Choose, Zenon DEF Over, Chosen
<1> QED
  BY <1>r, <1>2, <1>3, <1>4, Zenon DEF RuleActionRespond, current

\* A route rule is chosen with the options in force, if its server exists.
LEMMA RouteList ==
  ASSUME OnList, RuleActionDNSRoute
  PROVE  ListInv'
<1> USE DEF OnList, envVars, stateVars, Goto, Loop, Suspend
<1>r. PICK r : r = ruleIndex
  OBVIOUS
<1>1. /\ pc = "match" /\ Judge(ruleIndex)
      /\ UNCHANGED <<rules, effectiveOptions, anonymousFuture, armedRules, armed>>
      /\ Match(ruleIndex, view(anonymousFuture)) /\ rules[ruleIndex].action = "route"
  BY Zenon DEF RuleActionDNSRoute, Matched, current
<1>2. /\ ruleIndex \in Index /\ Hits(ruleIndex, InForce[ruleIndex]) /\ Fixed(ruleIndex)
      /\ anonymousFuture = InForce[ruleIndex] /\ Walking
  BY <1>1, Judged, Zenon DEF Over
<1>3. CASE pc' = "settle" /\ UNCHANGED ruleIndex
  BY <1>1, <1>3, KeepRule, Zenon DEF Over
<1>4. CASE ~rules[ruleIndex].loaded
  <2>1. ruleIndex' = ruleIndex + 1 /\ pc' = "walk"
    BY <1>4, Zenon DEF RuleActionDNSRoute, NextRule, current
  <2> QED
    BY <1>1, <1>4, <2>1, GoOn, Zenon DEF Takes, Latest
<1>5. CASE /\ rules[ruleIndex].loaded /\ armedRules = {} /\ UNCHANGED <<future, ruleIndex>>
           /\ \E f : Pend(ruleIndex, f, effectiveOptions)
  <2>1. Right(r) /\ effectiveOptions = OptionsAt(r)
    BY <1>r, <1>1, <1>2, <1>5, RightHere, Zenon DEF Takes, Walking
  <2>2. pc' = "finish" /\ suspension'.rule = r /\ suspension'.options = effectiveOptions
    BY <1>r, <1>5 DEF Pend
  <2> QED
    BY <1>1, <1>5, <2>1, <2>2, Choose, Zenon DEF Over, Chosen
<1> QED
  BY <1>3, <1>4, <1>5, Zenon DEF RuleActionDNSRoute, current

\* A reject or predefined rule is chosen.
LEMMA FixedList ==
  ASSUME OnList, RuleActionFixed
  PROVE  ListInv'
<1> USE DEF OnList, envVars, stateVars, Goto, Loop, Suspend
<1>r. PICK r : r = ruleIndex
  OBVIOUS
<1>1. /\ pc = "match" /\ Judge(ruleIndex) /\ UNCHANGED <<envVars, stateVars>>
      /\ Match(ruleIndex, view(anonymousFuture))
      /\ rules[ruleIndex].action \in {"reject", "predefined"}
  BY Zenon DEF RuleActionFixed, Matched, current
<1>2. /\ ruleIndex \in Index /\ Hits(ruleIndex, InForce[ruleIndex]) /\ Fixed(ruleIndex)
      /\ Walking
  BY <1>1, Judged, Zenon DEF Over
<1>3. CASE armedRules # {}
  BY <1>1, <1>3, KeepRule, Zenon DEF RuleActionFixed, Over
<1>4. CASE armedRules = {}
  <2>1. Right(r)
    BY <1>r, <1>1, <1>2, <1>4, RightHere, Zenon DEF Takes
  <2>2. pc' = "done" /\ result'.rule = r /\ result'.kind = rules[ruleIndex].action
    <3>1. Return(rules[ruleIndex].action, ruleIndex, None, {})
      BY <1>4, Zenon DEF RuleActionFixed, current
    <3> QED
      BY <1>r, <3>1, Zenon DEF Return
  <2> QED
    BY <1>1, <2>1, <2>2, Choose, Zenon DEF Over, Chosen
<1> QED
  BY <1>3, <1>4

\* The exchange of the chosen rule has the options that were in force there.
LEMMA FinishList ==
  ASSUME OnList, FinishFuture \/ FinishExchange
  PROVE  ListInv'
<1> USE DEF OnList, envVars, stateVars, Goto, Loop, Suspend
<1>1. /\ pc = "finish" /\ UNCHANGED <<rules, future, ruleIndex>>
      /\ pc' = "done" /\ result'.rule = suspension.rule /\ result'.kind = "exchange"
      /\ result'.options = suspension.options
  <2>1. /\ pc = "finish" /\ UNCHANGED <<rules, future, ruleIndex>>
        /\ \E v : Return("exchange", suspension.rule, v, suspension.options)
    BY DEF FinishFuture, FinishExchange
  <2> QED
    BY <2>1 DEF Return
<1>2. PICK i : i = suspension.rule
  BY Zenon
<1>3. Outcome(i)
  BY <1>1, <1>2, Zenon DEF Over, Chosen
<1>4. Right(i) /\ suspension.options = OptionsAt(i)
  BY <1>1, <1>3, Zenon DEF Outcome
<1> QED
  BY <1>1, <1>2, <1>4, Choose, Zenon DEF Over, Chosen

\* A race rule is armed with what is in force where it stands.
LEMMA RaceList ==
  ASSUME OnList, BindRace
  PROVE  ListInv'
<1> USE DEF OnList, envVars, stateVars, Goto, Loop, Suspend
<1>r. PICK r : r = ruleIndex
  OBVIOUS
<1>1. /\ pc = "bind" /\ rules' = rules /\ future' = future
      /\ UNCHANGED <<anonymousFuture, effectiveOptions>>
      /\ armedRules' = armedRules \cup {r} /\ rules[r].race
      /\ armed' = [armed EXCEPT ![r] =
           [futures |-> pendingFutures,
            anonymous |-> IF rules[r].anon THEN anonymousFuture ELSE 0,
            options |-> effectiveOptions]]
  BY <1>r DEF BindRace, current
<1>2. r \in Index /\ Walking /\ rules \in RuleLists /\ DOMAIN armed = Index
  BY <1>r, <1>1, Zenon DEF OnRule, Over, IInv
<1>3. r \in Nat /\ r > 0 /\ FirmTo(r)
  BY <1>r, <1>2, RuleIs, WalkedFirm, Zenon
<1>4. PICK a \in 0 .. r - 1 : a = InForce[r]
  BY <1>3, InForceLow, Zenon
<1>5. /\ InForce'[r] = a /\ OptionsAt(r)' = OptionsAt(r)
      /\ anonymousFuture = a /\ effectiveOptions = OptionsAt(r)
  BY <1>r, <1>2, <1>3, <1>4, InForceKept, OptionsKept DEF Walking
<1>6. \A f \in Index : future[f] = "pending" => f \in Launched /\ ~resolved(f)
  BY Zenon DEF Launched, resolved, Answer, Response
<1>7. /\ \A t \in rules[r].tags : future[t] = "pending" => t \in pendingFutures
      /\ rules[r].anon /\ a # 0 /\ future[a] = "pending" => a \in pendingFutures
      /\ pendingFutures \subseteq rules[r].tags \cup ({a} \ {0})
  <2>1. a # 0 => a \in Index
    BY <1>2, <1>4, LowIsRule, Zenon
  <2> QED
    BY <1>r, <1>2, <1>5, <1>6, <2>1, RuleIs, Zenon DEF pendingFutures, current
<1>8. /\ armed'[r].futures = pendingFutures /\ armed'[r].options = effectiveOptions
      /\ rules[r].anon => armed'[r].anonymous = anonymousFuture
      /\ \A i \in Index : i # r =>
           armed'[i] = armed[i] /\ (i \in armedRules' <=> i \in armedRules)
  BY <1>1, <1>2, Zenon
<1>9. ArmedRight(r)'
  BY <1>1, <1>5, <1>7, <1>8, Zenon DEF ArmedRight
<1>10. CASE pendingFutures = {}
  <2>1. pc' = "sweep" /\ ret' = "walk" /\ ruleIndex' = r
    BY <1>r, <1>10, Zenon DEF BindRace
  <2>2. ASSUME NEW i \in Index, i < r
        PROVE  IF i \in armedRules' THEN ArmedRight(i)' ELSE Fixed(i)' /\ ~Takes(i)'
    <3>1. IF i \in armedRules THEN ArmedRight(i) ELSE Fixed(i) /\ ~Takes(i)
      BY <1>r, <1>2, <2>2, Zenon DEF Walking, Passed
    <3>2. i \in Nat
      BY <1>2, RuleIs, Zenon
    <3>3. i <= r /\ i # r
      BY <1>3, <2>2, <3>2
    <3> QED
      BY <1>r, <1>3, <1>8, <3>1, <3>3, ArmedKept, FixedKept, Zenon
  <2>3. Index' = Index
    BY <1>1, Zenon DEF Index
  <2>4. Walking'
    BY <1>1, <1>5, <1>9, <2>1, <2>2, <2>3, Zenon DEF Walking, Passed
  <2> QED
    BY <2>1, <2>4 DEF ListInv, Over
<1>11. CASE pendingFutures # {}
  <2>1. pc' = "walk" /\ ruleIndex' = ruleIndex + 1
    BY <1>11, Zenon DEF BindRace, NextRule
  <2>2. rules[ruleIndex].action \notin {"options", "evaluate"}
    BY <1>r, <1>1, <1>2, RuleIs, Zenon
  <2>3. /\ anonymousFuture' = Latest(ruleIndex, anonymousFuture)
        /\ effectiveOptions' = effectiveOptions \cup
             {j \in {ruleIndex} : rules[j].action = "options" /\ Hits(j, InForce[j])}
    BY <1>1, <2>2, Zenon DEF Latest
  <2>4. Walking'
    BY <1>r, <1>1, <1>2, <1>8, <1>9, <2>1, <2>3, WalkNext, Zenon
  <2> QED
    BY <2>1, <2>4 DEF ListInv, Over
<1> QED
  BY <1>10, <1>11, Zenon

\* After a sweep the walk goes on.
LEMMA SweptList ==
  ASSUME OnList, SweepEnd
  PROVE  ListInv'
<1> USE DEF OnList, envVars, stateVars, Goto, Loop, Suspend
<1>r. PICK r : r = ruleIndex
  OBVIOUS
<1>1. /\ pc = "sweep"
      /\ UNCHANGED <<rules, future, effectiveOptions, anonymousFuture, armedRules, armed>>
  BY Zenon DEF SweepEnd
<1>2. CASE ret # "walk"
  BY <1>1, <1>2, KeepRule DEF SweepEnd, Over
<1>3. CASE ret = "walk"
  <2>1. pc' = "walk" /\ ruleIndex' = ruleIndex + 1
    BY <1>3, Zenon DEF SweepEnd, NextRule
  <2>2. Walking /\ r \in Index /\ rules[r].race /\ rules \in RuleLists
    BY <1>r, <1>1, <1>3, Zenon DEF Place, Race, Over, IInv
  <2>3. IF r \in armedRules THEN ArmedRight(r) ELSE Fixed(r) /\ ~Takes(r)
    BY <1>r, <1>1, <1>3, <2>2 DEF Walking, Passed
  <2>4. r \in Nat /\ r <= ruleIndex /\ FirmTo(r) /\ rules[r].action \notin {"options",
  "evaluate"}
    <3>1. r \in Nat /\ rules[r].action \notin {"options", "evaluate"}
      BY <2>2, RuleIs
    <3>2. FirmTo(ruleIndex)
      BY <2>2, WalkedFirm, Zenon
    <3> QED
      BY <1>r, <3>1, <3>2
  <2>5. IF r \in armedRules' THEN rules[r].race /\ ArmedRight(r)' ELSE Fixed(r) /\ ~Takes(r)
    BY <1>1, <2>2, <2>3, <2>4, ArmedKept
  <2>6. /\ anonymousFuture' = Latest(ruleIndex, anonymousFuture)
        /\ effectiveOptions' = effectiveOptions \cup
             {j \in {ruleIndex} : rules[j].action = "options" /\ Hits(j, InForce[j])}
    BY <1>r, <1>1, <2>4, Zenon DEF Latest
  <2>7. Walking'
    BY <1>r, <1>1, <2>1, <2>2, <2>5, <2>6, WalkNext, Zenon
  <2> QED
    BY <2>1, <2>7 DEF ListInv, Over
<1> QED
  BY <1>2, <1>3, Zenon

\* An armed rule is judged on the responses it was armed for.
LEMMA SweepList ==
  ASSUME OnList, SweepJudge
  PROVE  ListInv'
<1> USE DEF OnList, envVars, stateVars, Goto, Loop, Suspend
<1>1. PICK i \in First(Unswept) :
        /\ Ready(i) /\ Judge(i) /\ armedRules' = armedRules \ {i}
        /\ IF ~Match(i, anonymousView(i)) \/ (rules[i].action = "route" /\ ~rules[i].loaded)
             THEN pos' = i /\ UNCHANGED <<pc, ret, suspension, result, canceled>>
           ELSE IF rules[i].action = "respond"
             THEN IF rules[i].tags # {}
                    THEN \E t \in rules[i].tags : Respond(i, namedResponse(t))
                    ELSE Respond(i, view(IF armed[i].anonymous # 0 THEN armed[i].anonymous
                                                                   ELSE anonymousFuture))
           ELSE IF rules[i].action = "route" THEN Pend(i, 0, armed[i].options)
           ELSE Return(rules[i].action, i, None, {})
  BY Zenon DEF SweepJudge
<1>2. /\ pc = "sweep" /\ ~Over
      /\ UNCHANGED <<rules, future, ruleIndex, effectiveOptions, anonymousFuture, armed>>
  BY Zenon DEF SweepJudge, Over
<1>3. /\ i \in armedRules /\ i \in Index /\ Walking /\ rules \in RuleLists /\ Passed(i)
      /\ armed[i].futures = {} => i = ruleIndex
  BY <1>1, <1>2, Zenon DEF First, Unswept, IInv, Place
<1>4. ArmedRight(i) /\ rules[i].race
  BY <1>3, Zenon DEF Walking, IInv
<1>5. Fixed(i)
  BY <1>1, <1>4, Zenon DEF ArmedRight, Ready, resolved, Answer, Response, Fixed, Firm
<1>6. \A t \in rules[i].tags : resolved(t) => t \in settled
  BY <1>1, Zenon DEF Judge
<1>7. Match(i, anonymousView(i)) <=> Hits(i, InForce[i])
  BY <1>4, <1>6, MatchIs, Zenon DEF ArmedRight, anonymousView
<1>8. \A t \in rules[i].tags : namedResponse(t) = view(t)
  BY <1>6, Zenon DEF namedResponse, view, resolved, Answer
<1>9. /\ rules[i].action \in Action \ {"options", "evaluate"}
      /\ rules[i].tags # {} \/ rules[i].anon
  BY <1>3, <1>4, RuleIs DEF RuleType
<1>10. CASE ~Match(i, anonymousView(i)) \/ (rules[i].action = "route" /\ ~rules[i].loaded)
  <2>1. ~Takes(i) /\ UNCHANGED <<pc, ret>>
    BY <1>1, <1>7, <1>10, Zenon DEF Takes
  <2>2. Walking'
    BY <1>1, <1>2, <1>3, <1>5, <2>1, WalkOn, Zenon
  <2> QED
    BY <1>2, <2>1, <2>2, Zenon DEF ListInv, Over
<1>11. CASE ~(~Match(i, anonymousView(i)) \/ (rules[i].action = "route" /\ ~rules[i].loaded))
  <2>1. Takes(i)
    BY <1>7, <1>9, <1>11, Zenon DEF Takes
  <2>2. Right(i)
    BY <1>2, <1>3, <1>5, <2>1, RightArmed, Zenon
  <2>3. CASE rules[i].action = "respond"
    <3>1. \E f \in IF rules[i].tags # {} THEN rules[i].tags ELSE {InForce[i]} :
            Respond(i, view(f))
      <4>1. CASE rules[i].tags # {}
        BY <1>1, <1>8, <1>11, <2>3, <4>1, Zenon
      <4>2. CASE rules[i].tags = {}
        <5>1. armed[i].anonymous = InForce[i]
          BY <1>4, <1>9, <4>2, Zenon DEF ArmedRight
        <5>2. InForce[i] = 0 => anonymousFuture = InForce[i]
          BY <1>3, <1>4, <4>2, Zenon DEF ArmedRight, Walking
        <5> QED
          BY <1>1, <1>11, <2>3, <4>2, <5>1, <5>2, Zenon
      <4> QED
        BY <4>1, <4>2, Zenon
    <3>2. PICK f \in IF rules[i].tags # {} THEN rules[i].tags ELSE {InForce[i]} :
            Respond(i, view(f))
      BY <3>1, Zenon
    <3>3. /\ pc' = "done" /\ result'.rule = i /\ result'.value = view(f)
          /\ result'.kind = IF view(f) = None THEN "error" ELSE "response"
      BY <3>2, Zenon DEF Respond, Return
    <3> QED
      BY <1>2, <1>3, <2>2, <3>2, <3>3, Choose, Zenon DEF Over, Chosen
  <2>4. CASE rules[i].action = "route"
    <3>1. Pend(i, 0, armed[i].options)
      BY <1>1, <1>11, <2>4, Zenon
    <3>2. pc' = "finish" /\ suspension'.rule = i /\ suspension'.options = armed[i].options
      BY <3>1, Zenon DEF Pend
    <3> QED
      BY <1>2, <1>4, <2>2, <3>2, Choose, Zenon DEF Over, Chosen, ArmedRight
  <2>5. CASE rules[i].action \in {"reject", "predefined"}
    <3>1. Return(rules[i].action, i, None, {})
      BY <1>1, <1>11, <2>5, Zenon
    <3>2. pc' = "done" /\ result'.rule = i /\ result'.kind = rules[i].action
      BY <3>1 DEF Return
    <3> QED
      BY <1>2, <2>2, <2>5, <3>2, Choose, Zenon DEF Over, Chosen
  <2> QED
    BY <1>9, <2>3, <2>4, <2>5, Zenon DEF Action
<1> QED
  BY <1>10, <1>11, Zenon

\* What arrives changes nothing that a rule was judged on.
LEMMA AroundList ==
  ASSUME OnList, CallerGone \/ (\E f \in Index : Callback(f)) \/ UNCHANGED vars
  PROVE  ListInv'
<1> USE DEF OnList, envVars, stateVars, Goto, Loop, Suspend
<1>1. UNCHANGED <<rules, ruleIndex, effectiveOptions, anonymousFuture, armedRules, armed,
                  pc, ret, suspension, result>>
  BY Zenon DEF CallerGone, Callback, Arrive, Signal, walkerVars, vars
<1>2. CASE ~Over
  BY <1>1, <1>2, KeepRule DEF Over, Walking, OnRule
<1>3. CASE Over
  <2>1. ASSUME NEW i \in Chosen
        PROVE  Outcome(i)'
    <3>1. Outcome(i) /\ rules \in RuleLists
      BY <1>3, <2>1, Zenon DEF IInv
    <3>2. Right(i)' /\ InForce'[i] = InForce[i] /\ OptionsAt(i)' = OptionsAt(i)
      BY <1>1, <3>1, RightKept, Zenon DEF Outcome
    <3>3. ASSUME pc = "done", result.kind = "response"
          PROVE  \E f \in IF rules[i].tags # {} THEN rules[i].tags ELSE {InForce[i]} :
                   result.value = view(f)'
      <4>1. i \in Index /\ result.value # None
        BY <3>1, <3>3, Zenon DEF Outcome
      <4>2. PICK f \in IF rules[i].tags # {} THEN rules[i].tags ELSE {InForce[i]} :
              result.value = view(f)
        BY <3>1, <3>3, Zenon DEF Outcome
      <4>3. f # 0 /\ future[f] \in Response
        BY <4>1, <4>2 DEF view
      <4>4. f \in Index
        <5>1. i \in Nat /\ 0 < i /\ i <= Len(rules) /\ InForce[i] \in 0 .. i - 1
          BY <3>1, <4>1, RuleIs, InForceLow, Zenon
        <5>2. CASE f \in rules[i].tags
          BY <3>1, <4>1, <5>2, RuleIs, Zenon
        <5>3. CASE f = InForce[i]
          BY <3>1, <4>1, <4>3, <5>1, <5>3, LowIsRule, Zenon
        <5> QED
          BY <4>2, <5>2, <5>3, Zenon
      <4>5. future'[f] = future[f]
        BY <4>3, <4>4 DEF FutureStep, Response
      <4> QED
        BY <4>2, <4>5, Zenon DEF view
    <3>4. Index' = Index
      BY <1>1 DEF Index
    <3> QED
      BY <1>1, <3>1, <3>2, <3>3, <3>4, Zenon DEF Outcome
  <2> QED
    BY <1>1, <1>3, <2>1, Zenon DEF ListInv, Over, Chosen
<1> QED
  BY <1>2, <1>3, Zenon

\* Every step keeps to the list.
LEMMA NextListInv == IInv /\ OnRule /\ Place /\ ListInv /\ [Next]_vars => ListInv'
<1> SUFFICES ASSUME IInv, OnRule, Place, ListInv, [Next]_vars, missed' = {}
             PROVE  ListInv'
  BY DEF ListInv
<1>l. OnList
  BY NextFuture, MissedStays DEF ListInv, OnList
<1>1. CASE settleDNSFutures
  BY <1>1, <1>l, KeepRule, Zenon DEF envVars, stateVars, Goto, Loop, Suspend,
     settleDNSFutures, Over
<1>2. CASE WalkRule
  <2>1. pc' = "match" => ruleIndex \in Index /\ Firm(ruleIndex, anonymousFuture)
    BY <1>2, Zenon DEF envVars, stateVars, Goto, Loop, Suspend, WalkRule, hasBindings,
       current, Firm
  <2> QED
    BY <1>2, <2>1, <1>l, KeepRule, Zenon DEF envVars, stateVars, Goto, Loop, Suspend,
       WalkRule, Over
<1>3. CASE SweepPast
  BY <1>3, <1>l, KeepRule, Zenon DEF envVars, stateVars, Goto, Loop, Suspend, SweepPast, Over
<1>4. CASE Resume \/ Wake
  BY <1>4, <1>l, KeepRule DEF envVars, stateVars, Goto, Loop, Suspend, Resume, Wake, Over
<1>5. CASE GiveUp
  <2>1. Over' /\ Chosen' = {}
    BY <1>5, Zenon DEF GiveUp, Return, Over, Chosen
  <2> QED
    BY <2>1, Zenon DEF ListInv
<1> QED
  BY <1>l, <1>1, <1>2, <1>3, <1>4, <1>5, EndList, OrderedList, NoMatchList, OptionsList,
     EvaluateList, RespondList, RouteList, FixedList, FinishList, RaceList, SweptList,
     SweepList, AroundList, Zenon DEF Next, Walk

\* A walk starts with no response in force and no options.
LEMMA InitListInv == Init => Place /\ ListInv
<1> SUFFICES ASSUME Init
             PROVE  Place /\ ListInv
  BY Zenon
<1>1. Len(rules) \in Nat
  BY ListLength DEF Init
<1>2. InForce[1] = 0
  BY InForceFirst, Zenon
<1>3. OptionsAt(1) = {}
  BY DEF OptionsAt
<1>4. Place
  <2>1. /\ ruleIndex = 1 /\ armedRules = {} /\ pc = "walk" /\ result.kind = "running"
    BY DEF Init, Running
  <2>2. ruleIndex \in 1 .. Len(rules) + 1
    BY <1>1, <2>1
  <2> QED
    BY <2>1, <2>2, Zenon DEF Place
<1>5. \A i \in Index : ~Passed(i)
  BY <1>1 DEF Init, Passed, Index
<1> QED
  BY <1>2, <1>3, <1>4, <1>5 DEF Init, ListInv, Walking, Over

\* If no rule was judged on a response that had come and was not yet seen, the
\* rule that ends a walk is the one that the list names: it takes the query
\* under the response in force where it stands; no earlier rule would, unless
\* the two raced; and the answer, or the options of the exchange, are those
\* that the list gives it.  It is AsListedIfSettled, for every list of rules.
THEOREM OutcomeIsListed == Spec => []AsListedIfSettled
<1>1. Place /\ ListInv => AsListedIfSettled
  <2> SUFFICES ASSUME Place, ListInv, missed = {}, NEW i \in Chosen
               PROVE  /\ i \in Index => Takes(i)
                      /\ \A j \in Index : j < i /\ Takes(j) => Race(i) /\ Race(j)
                      /\ result.kind = "response" =>
                           \E f \in IF rules[i].tags # {} THEN rules[i].tags ELSE {InForce[i]} :
                             result.value = view(f)
                      /\ result.kind = "exchange" => result.options = OptionsAt(i)
    BY DEF AsListedIfSettled, AsListed, OptionsAt
  <2>1. Outcome(i) /\ pc \in {"finish", "done"}
    BY DEF ListInv, Chosen, Over
  <2>2. pc = "finish" => result.kind = "running"
    BY DEF Place
  <2> QED
    BY <2>1, <2>2, Zenon DEF Outcome, Right
<1>2. Init => OnRule
  BY DEF Init, OnRule
<1> QED
  BY <1>1, <1>2, InitIInv, NextIInv, NextOnRule, InitListInv, NextPlace, NextListInv,
     PTL DEF Spec

-----------------------------------------------------------------------------
(* A walk that waits is woken. *)

\* resumeExchangeWithRules is at work, or waits.
Resuming == pc \in {"resume", "wait"} \/ (pc \in {"settle", "sweep"} /\ ret = "resume")

\* The loops have a position, and a caller to go back to.
Cursor == pos \in Nat /\ ret \in {"walk", "resume"}

\* The futures that the walk holds were launched, and it resumes what it has
\* suspended.
Links ==
  /\ {anonymousFuture, terminalFuture, suspension.future} \subseteq Launched \cup {0}
  /\ \A i \in Index : armed[i].futures \subseteq Launched
  /\ suspension.kind = "await" => suspension.future # 0
  /\ Resuming => suspension.kind \in {"await", "drain"}

\* The walk is going to be woken.
Signalled == wake \/ unsignalled # {}

\* What a sweep has passed over is not ready, unless a response came since,
\* and that one wakes the walk.
Awake ==
  ~Signalled =>
    /\ pc = "sweep" /\ ret = "resume" => \A i \in armedRules : i <= pos => ~Ready(i)
    /\ pc \in {"resume", "wait"} => \A i \in armedRules : ~Ready(i)
    /\ pc = "wait" => Suspended

\* A walk that waits is going to be woken, or what it waits for has been sent
\* and not answered: the future of an await, and one of every armed rule of a
\* drain; and finishPendingExchange waits for nothing that was not sent.
WaitsForAnswers ==
  /\ pc = "wait" =>
       \/ Signalled
       \/ suspension.kind = "await" /\ future[suspension.future] = "pending"
       \/ /\ suspension.kind = "drain" /\ armedRules # {}
          /\ \A i \in armedRules : \E f \in armed[i].futures : future[f] = "pending"
  /\ pc = "finish" /\ suspension.future # 0 => suspension.future \in Launched

\* A launched future stays one, and a resolved one stays resolved.
LEMMA LaunchedStays ==
  ASSUME IInv, FutureStep
  PROVE  /\ Index' = Index /\ Launched \subseteq Launched'
         /\ \A f \in Index : resolved(f) => resolved(f)'
<1>1. Index' = Index
  BY SameList
<1>2. \A f \in Index : future[f] # "none" => future'[f] # "none"
  BY DEF FutureStep, Answer, Response
<1>3. \A f \in Index : future[f] \in Answer => future'[f] \in Answer
  BY DEF FutureStep, Answer, Response
<1> QED
  BY <1>1, <1>2, <1>3, Zenon DEF Launched, resolved

\* A loop goes from one future, or one armed rule, to a later one.
LEMMA NextCursor == IInv /\ Cursor /\ [Next]_vars => Cursor'
<1> SUFFICES ASSUME IInv, Cursor, [Next]_vars PROVE Cursor'
  BY Zenon
<1> USE DEF envVars, stateVars
<1>1. ASSUME pos' \in {pos, 0} \cup Index PROVE pos' \in Nat
  BY <1>1 DEF Cursor, Index
<1>2. CASE settleDNSFutures
  <2>1. pos' \in {pos, 0} \cup Index /\ ret' = ret
    BY <1>2, Zenon DEF settleDNSFutures, Loop, First, Launched
  <2> QED
    BY <1>1, <2>1, Zenon DEF Cursor
<1>3. CASE SweepPast \/ SweepJudge
  <2>1. pos' \in {pos, 0} \cup Index /\ ret' = ret
    BY <1>3, Zenon DEF SweepPast, SweepJudge, Respond, Return, Pend, First, Unswept, IInv
  <2> QED
    BY <1>1, <2>1, Zenon DEF Cursor
<1>4. CASE \/ WalkRule \/ WalkEnd \/ BindRace \/ BindOrdered \/ NoMatch
           \/ RuleActionDNSRouteOptions \/ RuleActionEvaluate \/ RuleActionRespond
           \/ RuleActionDNSRoute \/ RuleActionFixed \/ SweepEnd \/ Resume \/ Wake
           \/ GiveUp \/ FinishFuture \/ FinishExchange
  <2>1. \/ UNCHANGED <<pos, ret>>
        \/ pos' = 0 /\ ret' \in {"walk", "resume"}
    BY <1>4, Zenon DEF WalkRule, WalkEnd, BindRace, BindOrdered, NoMatch,
       RuleActionDNSRouteOptions, RuleActionEvaluate, RuleActionRespond, Respond,
       RuleActionDNSRoute, RuleActionFixed, SweepEnd, Resume, Wake, GiveUp, FinishFuture,
       FinishExchange, NextRule, Goto, Loop, Suspend, Pend, Return
  <2> QED
    BY <2>1 DEF Cursor
<1>5. CASE UNCHANGED vars \/ CallerGone \/ \E f \in Index : Callback(f)
  BY <1>5, Zenon DEF vars, CallerGone, Callback, Arrive, Signal, walkerVars, Cursor
<1> QED
  BY <1>2, <1>3, <1>4, <1>5, Zenon DEF Next, Walk

\* Every step keeps the futures that it holds launched.
LEMMA NextLinks == IInv /\ OnRule /\ Cursor /\ Links /\ [Next]_vars => Links'
<1> SUFFICES ASSUME IInv, OnRule, Cursor, Links, [Next]_vars PROVE Links'
  BY Zenon
<1>0. Index' = Index /\ Launched \subseteq Launched'
  BY NextFuture, LaunchedStays, Zenon
\* A step that holds no new future ...
<1>a. ASSUME UNCHANGED <<armed, suspension>>,
             {anonymousFuture', terminalFuture'} \subseteq
               {anonymousFuture, terminalFuture, 0} \cup Launched',
             Resuming' => Resuming
      PROVE  Links'
  BY <1>0, <1>a, Zenon DEF Links
\* ... and one that suspends the walk or chooses a pending exchange.
<1>b. ASSUME UNCHANGED armed,
             {anonymousFuture', terminalFuture', suspension'.future} \subseteq
               {anonymousFuture, terminalFuture, 0} \cup Launched',
             suspension'.kind = "await" => suspension'.future # 0,
             Resuming' => suspension'.kind \in {"await", "drain"}
      PROVE  Links'
  BY <1>0, <1>b, Zenon DEF Links
<1>s. ASSUME NEW k \in {"await", "drain"}, NEW f, Suspend(k, f), UNCHANGED armed,
             {anonymousFuture', terminalFuture', f} \subseteq
               {anonymousFuture, terminalFuture, 0} \cup Launched',
             k = "await" => f # 0
      PROVE  Links'
  <2>1. suspension'.kind = k /\ suspension'.future = f
    BY <1>s, Zenon DEF Suspend
  <2> QED
    BY <1>s, <1>b, <2>1, Zenon
<1>p. ASSUME NEW i, NEW f, NEW o, Pend(i, f, o),
             UNCHANGED <<armed, anonymousFuture, terminalFuture>>, f \in {terminalFuture, 0}
      PROVE  Links'
  <2>1. suspension'.kind = "pending" /\ suspension'.future = f /\ ~Resuming'
    BY <1>p DEF Pend, Resuming
  <2> QED
    BY <1>p, <1>b, <2>1
<1>r. ASSUME NEW k, NEW i, NEW v, NEW o, Return(k, i, v, o),
             UNCHANGED <<armed, anonymousFuture, terminalFuture>>
      PROVE  Links'
  <2>1. UNCHANGED suspension /\ ~Resuming'
    BY <1>r DEF Return, Resuming
  <2> QED
    BY <1>r, <1>a, <2>1, Zenon
<1> USE DEF envVars, stateVars
<1>1. CASE settleDNSFutures
  <2>1. UNCHANGED <<armed, suspension, anonymousFuture, terminalFuture>>
    BY <1>1, Zenon DEF settleDNSFutures, Loop
  <2>2. Resuming' => Resuming
    BY <1>1, Zenon DEF settleDNSFutures, Loop, Resuming
  <2> QED
    BY <1>a, <2>1, <2>2, Zenon
<1>2. CASE WalkRule \/ NoMatch \/ RuleActionDNSRouteOptions
  <2>1. UNCHANGED <<armed, suspension, anonymousFuture, terminalFuture>> /\ ~Resuming'
    BY <1>2 DEF WalkRule, NoMatch, RuleActionDNSRouteOptions, Goto, Loop, NextRule, Resuming
  <2> QED
    BY <1>a, <2>1, Zenon
<1>3. CASE WalkEnd
  <2>1. UNCHANGED <<armed, anonymousFuture, terminalFuture>>
    BY <1>3, Zenon DEF WalkEnd
  <2>2. Suspend("drain", 0) \/ Pend(ruleIndex, 0, effectiveOptions)
    BY <1>3, Zenon DEF WalkEnd
  <2> QED
    BY <1>s, <1>p, <2>1, <2>2, Zenon
<1>4. CASE BindRace
  <2>1. /\ ruleIndex \in Index /\ UNCHANGED <<suspension, anonymousFuture, terminalFuture>>
        /\ ~Resuming'
    BY <1>4 DEF BindRace, OnRule, Goto, Loop, NextRule, Resuming
  <2>2. \A i \in Index : armed'[i].futures \subseteq armed[i].futures \cup pendingFutures
    <3>1. ASSUME NEW i \in Index, i = ruleIndex PROVE armed'[i].futures = pendingFutures
      BY <1>4, <2>1, <3>1 DEF BindRace, IInv
    <3>2. ASSUME NEW i \in Index, i # ruleIndex PROVE armed'[i] = armed[i]
      BY <1>4, <3>2 DEF BindRace, IInv
    <3> QED
      BY <3>1, <3>2, Zenon
  <2>3. pendingFutures \subseteq Launched
    BY DEF pendingFutures
  <2>4. \A i \in Index : armed'[i].futures \subseteq Launched'
    BY <1>0, <2>2, <2>3, Zenon DEF Links
  <2> QED
    BY <1>0, <2>1, <2>4, Zenon DEF Links
<1>5. CASE BindOrdered
  <2>1. UNCHANGED <<armed, anonymousFuture, terminalFuture>>
    BY <1>5, Zenon DEF BindOrdered
  <2>2. ASSUME NEW f \in pendingFutures, Suspend("await", f) PROVE Links'
    <3>1. f \in Launched' /\ f # 0
      BY <1>0 DEF pendingFutures, Launched, Index
    <3> QED
      BY <1>s, <2>1, <2>2, <3>1, Zenon
  <2>3. CASE Goto("match")
    <3>1. UNCHANGED suspension /\ ~Resuming'
      BY <2>3 DEF Goto, Resuming
    <3> QED
      BY <1>a, <2>1, <3>1, Zenon
  <2> QED
    BY <1>5, <2>2, <2>3, Zenon DEF BindOrdered
<1>6. CASE RuleActionEvaluate
  <2>1. ruleIndex \in Index /\ UNCHANGED <<armed, terminalFuture>>
    BY <1>6, Zenon DEF RuleActionEvaluate, Matched, OnRule
  <2>2. CASE Suspend("drain", 0) /\ UNCHANGED anonymousFuture
    BY <1>s, <2>1, <2>2, Zenon
  <2>3. CASE NextRule
    <3>1. UNCHANGED suspension /\ ~Resuming'
      BY <2>3 DEF NextRule, Goto, Resuming
    <3>2. launchDNSEvaluate => ruleIndex \in Launched'
      BY <1>0, <2>1 DEF launchDNSEvaluate, Launched, IInv
    <3>3. anonymousFuture' \in {anonymousFuture, 0} \cup Launched'
      <4>1. CASE current.loaded /\ ~current.speculative /\ armedRules # {}
        BY <1>6, <4>1, Zenon DEF RuleActionEvaluate
      <4>2. CASE ~(current.loaded /\ ~current.speculative /\ armedRules # {})
        BY <1>6, <3>2, <4>2, Zenon DEF RuleActionEvaluate
      <4> QED
        BY <4>1, <4>2, Zenon
    <3> QED
      BY <1>a, <2>1, <3>1, <3>3, Zenon
  <2> QED
    BY <1>6, <2>2, <2>3, Zenon DEF RuleActionEvaluate
<1>7. CASE RuleActionRespond
  <2>1. UNCHANGED <<armed, anonymousFuture, terminalFuture>>
    BY <1>7, Zenon DEF RuleActionRespond
  <2>2. \/ Suspend("drain", 0)
        \/ anonymousFuture # 0 /\ Suspend("await", anonymousFuture)
        \/ \E k, v : Return(k, ruleIndex, v, {})
    BY <1>7, Zenon DEF RuleActionRespond, Respond
  <2> QED
    BY <1>s, <1>r, <2>1, <2>2, Zenon
<1>8. CASE RuleActionDNSRoute
  <2>1. ruleIndex \in Index /\ UNCHANGED <<armed, anonymousFuture>>
    BY <1>8, Zenon DEF RuleActionDNSRoute, Matched, OnRule
  <2>2. launchDNSEvaluate => ruleIndex \in Launched'
    BY <1>0, <2>1 DEF launchDNSEvaluate, Launched, IInv
  <2>3. \/ NextRule /\ UNCHANGED terminalFuture
        \/ Suspend("drain", 0) /\ UNCHANGED terminalFuture
        \/ Suspend("drain", 0) /\ launchDNSEvaluate /\ terminalFuture' = ruleIndex
        \/ /\ Pend(ruleIndex, IF terminalFuture = ruleIndex THEN ruleIndex ELSE 0,
                   effectiveOptions)
           /\ UNCHANGED terminalFuture
    BY <1>8, Zenon DEF RuleActionDNSRoute
  <2>4. CASE NextRule /\ UNCHANGED terminalFuture
    <3>1. UNCHANGED suspension /\ ~Resuming'
      BY <2>4 DEF NextRule, Goto, Resuming
    <3> QED
      BY <1>a, <2>1, <2>4, <3>1, Zenon
  <2>5. CASE Suspend("drain", 0) /\ terminalFuture' \in {terminalFuture} \cup Launched'
    BY <1>s, <2>1, <2>5, Zenon
  <2>6. CASE /\ Pend(ruleIndex, IF terminalFuture = ruleIndex THEN ruleIndex ELSE 0,
                     effectiveOptions)
             /\ UNCHANGED terminalFuture
    BY <1>p, <2>1, <2>6, Zenon
  <2> QED
    BY <2>2, <2>3, <2>4, <2>5, <2>6, Zenon
<1>9. CASE RuleActionFixed
  <2>1. UNCHANGED <<armed, anonymousFuture, terminalFuture>>
    BY <1>9, Zenon DEF RuleActionFixed
  <2>2. Suspend("drain", 0) \/ Return(current.action, ruleIndex, None, {})
    BY <1>9, Zenon DEF RuleActionFixed
  <2> QED
    BY <1>s, <1>r, <2>1, <2>2, Zenon
<1>10. CASE SweepEnd \/ SweepPast \/ Resume \/ Wake
  <2>1. UNCHANGED <<armed, suspension, anonymousFuture, terminalFuture>>
    BY <1>10, Zenon DEF SweepEnd, SweepPast, Resume, Wake, NextRule, Goto, Loop
  <2>2. Resuming' => Resuming
    <3>1. CASE SweepEnd
      BY <3>1 DEF SweepEnd, NextRule, Goto, Resuming, Cursor
    <3>2. CASE SweepPast
      BY <3>2, Zenon DEF SweepPast, Resuming
    <3>3. CASE Resume \/ Wake
      BY <3>3, Zenon DEF Resume, Wake, Resuming
    <3> QED
      BY <1>10, <3>1, <3>2, <3>3, Zenon
  <2> QED
    BY <1>a, <2>1, <2>2, Zenon
<1>11. CASE SweepJudge
  <2>1. UNCHANGED <<armed, anonymousFuture, terminalFuture>>
    BY <1>11, Zenon DEF SweepJudge
  <2>2. \/ UNCHANGED <<pc, ret, suspension>>
        \/ \E i : Pend(i, 0, armed[i].options)
        \/ \E k, i, v : Return(k, i, v, {})
    BY <1>11, Zenon DEF SweepJudge, Respond
  <2>3. CASE UNCHANGED <<pc, ret, suspension>>
    BY <1>a, <2>1, <2>3, Zenon DEF Resuming
  <2> QED
    BY <1>p, <1>r, <2>1, <2>2, <2>3, Zenon
<1>12. CASE GiveUp \/ FinishFuture \/ FinishExchange
  <2>1. UNCHANGED <<armed, anonymousFuture, terminalFuture>>
    BY <1>12, Zenon DEF GiveUp, FinishFuture, FinishExchange
  <2>2. \E k, i, v, o : Return(k, i, v, o)
    BY <1>12, Zenon DEF GiveUp, FinishFuture, FinishExchange
  <2> QED
    BY <1>r, <2>1, <2>2, Zenon
<1>13. CASE UNCHANGED vars \/ CallerGone \/ \E f \in Index : Callback(f)
  <2>1. UNCHANGED <<armed, suspension, anonymousFuture, terminalFuture, pc, ret>>
    BY <1>13, Zenon DEF vars, CallerGone, Callback, Arrive, Signal, walkerVars
  <2> QED
    BY <1>a, <2>1, Zenon DEF Resuming
<1> QED
  BY <1>1, <1>2, <1>3, <1>4, <1>5, <1>6, <1>7, <1>8, <1>9, <1>10, <1>11, <1>12, <1>13, Zenon
  DEF Next, Walk

\* No step of the walk or of a callback leaves a walk asleep whose response
\* has come.
LEMMA NextAwake == IInv /\ Cursor /\ Awake /\ [Next]_vars => Awake'
<1> SUFFICES ASSUME IInv, Cursor, Awake, [Next]_vars, ~Signalled'
             PROVE  /\ pc' = "sweep" /\ ret' = "resume" =>
                         \A i \in armedRules' : i <= pos' => ~Ready(i)'
                    /\ pc' \in {"resume", "wait"} => \A i \in armedRules' : ~Ready(i)'
                    /\ pc' = "wait" => Suspended'
  BY Zenon DEF Awake
<1> USE DEF envVars, stateVars
\* Nothing is ready that was not, and the walk was not to be woken.
<1>a. ASSUME UNCHANGED <<future, armed>> PROVE \A i : Ready(i)' = Ready(i)
  BY <1>a, Zenon DEF Ready, resolved
<1>b. ASSUME UNCHANGED <<wake, unsignalled>> PROVE ~Signalled
  BY <1>b, Zenon DEF Signalled
\* A step to where nobody resumes.
<1>c. ASSUME ~Resuming' \/ pc' = "settle"
      PROVE  /\ pc' = "sweep" /\ ret' = "resume" =>
                  \A i \in armedRules' : i <= pos' => ~Ready(i)'
             /\ pc' \in {"resume", "wait"} => \A i \in armedRules' : ~Ready(i)'
             /\ pc' = "wait" => Suspended'
  BY <1>c DEF Resuming
<1>1. CASE settleDNSFutures
  <2>1. UNCHANGED <<armedRules>> /\ (pc' \in {"settle", "bind"} \/ (pc' = "sweep" /\ pos' = 0))
    BY <1>1, Zenon DEF settleDNSFutures, Loop
  <2>2. \A i \in armedRules : ~(i <= 0)
    BY DEF IInv, Index
  <2> QED
    BY <1>c, <2>1, <2>2 DEF Resuming
<1>2. CASE \/ WalkRule \/ WalkEnd \/ BindRace \/ BindOrdered \/ NoMatch
           \/ RuleActionDNSRouteOptions \/ RuleActionEvaluate \/ RuleActionRespond
           \/ RuleActionDNSRoute \/ RuleActionFixed \/ Wake \/ GiveUp \/ FinishFuture
           \/ FinishExchange
  <2>1. \/ NextRule \/ Goto("match") \/ Loop("settle", "walk") \/ Loop("sweep", "walk")
        \/ Loop("settle", "resume") \/ (\E k, f : Suspend(k, f))
        \/ (\E i, f, o : Pend(i, f, o)) \/ (\E k, i, v, o : Return(k, i, v, o))
    BY <1>2, Zenon DEF WalkRule, WalkEnd, BindRace, BindOrdered, NoMatch,
       RuleActionDNSRouteOptions, RuleActionEvaluate, RuleActionRespond, Respond,
       RuleActionDNSRoute, RuleActionFixed, Wake, GiveUp, FinishFuture, FinishExchange
  <2>2. pc' = "settle" \/ ~Resuming'
    BY <2>1 DEF NextRule, Goto, Loop, Suspend, Pend, Return, Resuming
  <2> QED
    BY <1>c, <2>2, Zenon
<1>3. CASE SweepEnd
  <2>1. UNCHANGED <<future, armed, armedRules, wake, unsignalled>> /\ Unswept = {}
    BY <1>3, Zenon DEF SweepEnd
  <2>2. CASE ret = "walk"
    <3>1. pc' = "walk"
      BY <1>3, <2>2, Zenon DEF SweepEnd, NextRule, Goto
    <3> QED
      BY <1>c, <3>1 DEF Resuming
  <2>3. CASE ret # "walk"
    <3>1. pc = "sweep" /\ pc' = "resume"
      BY <1>3, <2>3, Zenon DEF SweepEnd, Goto
    <3>2. ret = "resume"
      BY <2>3, <3>1 DEF Cursor
    <3>3. \A i \in armedRules : i <= pos
      BY <2>1 DEF Unswept, IInv, Index, Cursor
    <3>4. \A i \in armedRules : ~Ready(i)
      BY <1>b, <2>1, <3>1, <3>2, <3>3, Zenon DEF Awake
    <3> QED
      BY <1>a, <2>1, <3>1, <3>4
  <2> QED
    BY <2>2, <2>3, Zenon
<1>4. CASE SweepPast
  <2>1. PICK i \in First(Unswept) : ~Ready(i) /\ pos' = i
    BY <1>4, Zenon DEF SweepPast
  <2>2. UNCHANGED <<future, armed, armedRules, wake, unsignalled, pc, ret>> /\ pc = "sweep"
    BY <1>4, Zenon DEF SweepPast
  <2>3. ASSUME ret = "resume", NEW j \in armedRules, j <= i PROVE ~Ready(j)
    <3>1. CASE j <= pos
      BY <1>b, <2>2, <2>3, <3>1, Zenon DEF Awake
    <3>2. CASE ~(j <= pos)
      <4>1. j \in Unswept
        BY <3>2 DEF Unswept, IInv, Index, Cursor
      <4>2. i <= j /\ i \in armedRules
        BY <4>1, Zenon DEF First, Unswept
      <4>3. i = j
        BY <2>3, <4>2 DEF IInv, Index
      <4> QED
        BY <2>1, <4>3, Zenon
    <3> QED
      BY <3>1, <3>2, Zenon
  <2> QED
    BY <1>a, <2>1, <2>2, <2>3
<1>5. CASE SweepJudge
  <2>1. UNCHANGED <<future, armed, wake, unsignalled>> /\ pc = "sweep"
    BY <1>5, Zenon DEF SweepJudge
  <2>2. \/ \E i \in First(Unswept) : /\ armedRules' = armedRules \ {i} /\ pos' = i
                                     /\ UNCHANGED <<pc, ret>>
        \/ \E i, f, o : Pend(i, f, o)
        \/ \E k, i, v, o : Return(k, i, v, o)
    BY <1>5, Zenon DEF SweepJudge, Respond
  <2>3. ASSUME (\E i, f, o : Pend(i, f, o)) \/ (\E k, i, v, o : Return(k, i, v, o))
        PROVE  ~Resuming'
    BY <2>3 DEF Pend, Return, Resuming
  <2>4. ASSUME NEW i \in First(Unswept), armedRules' = armedRules \ {i}, pos' = i,
               UNCHANGED <<pc, ret>>, ret = "resume", NEW j \in armedRules \ {i}, j <= i
        PROVE  ~Ready(j)
    <3>1. CASE j <= pos
      BY <1>b, <2>1, <2>4, <3>1, Zenon DEF Awake
    <3>2. CASE ~(j <= pos)
      <4>1. j \in Unswept
        BY <3>2 DEF Unswept, IInv, Index, Cursor
      <4>2. i <= j /\ i \in armedRules
        BY <4>1, Zenon DEF First, Unswept
      <4>3. i = j
        BY <2>4, <4>2 DEF IInv, Index
      <4> QED
        BY <4>3, Zenon
    <3> QED
      BY <3>1, <3>2, Zenon
  <2>5. ASSUME NEW i \in First(Unswept), armedRules' = armedRules \ {i}, pos' = i,
               UNCHANGED <<pc, ret>>
        PROVE  /\ pc' = "sweep" /\ ret' = "resume" =>
                    \A j \in armedRules' : j <= pos' => ~Ready(j)'
               /\ pc' \notin {"resume", "wait"}
    BY <1>a, <2>1, <2>4, <2>5
  <2> QED
    BY <1>c, <2>2, <2>3, <2>5
<1>6. CASE Resume
  <2>1. /\ UNCHANGED <<future, armed, armedRules, suspension, wake, unsignalled>>
        /\ pc = "resume" /\ pc' = IF Suspended THEN "wait" ELSE "walk"
    BY <1>6, Zenon DEF Resume, Goto
  <2>2. Suspended' = Suspended
    BY <2>1, Zenon DEF Suspended, resolved
  <2>3. \A i \in armedRules : ~Ready(i)
    BY <1>b, <2>1 DEF Awake
  <2> QED
    BY <1>a, <2>1, <2>2, <2>3
<1>7. CASE \E f \in Index : Callback(f)
  <2>1. PICK f \in Index : Arrive(f) \/ Signal(f)
    BY <1>7, Zenon DEF Callback
  <2>2. f \in unsignalled' \/ wake'
    BY <2>1, Zenon DEF Arrive, Signal
  <2> QED
    BY <2>2, Zenon DEF Signalled
<1>8. CASE UNCHANGED vars \/ CallerGone
  <2>1. UNCHANGED <<future, armed, armedRules, suspension, wake, unsignalled, pc, ret, pos>>
    BY <1>8, Zenon DEF vars, CallerGone, walkerVars
  <2>2. Suspended' = Suspended
    BY <2>1, Zenon DEF Suspended, resolved
  <2> QED
    BY <1>a, <1>b, <2>1, <2>2 DEF Awake
<1> QED
  BY <1>1, <1>2, <1>3, <1>4, <1>5, <1>6, <1>7, <1>8, Zenon DEF Next, Walk

\* No wake-up is lost, for all lists of rules and whenever the responses come:
\* the channel that has room for one wake-up, and is written after the
\* response is stored, never leaves a walk waiting for what it already has.
THEOREM NoWakeUpLost == Spec => []WaitsForAnswers
<1>1. Init => OnRule /\ Cursor /\ Links /\ Awake
  <2> SUFFICES ASSUME Init PROVE OnRule /\ Cursor /\ Links /\ Awake
    OBVIOUS
  <2>1. /\ pc = "walk" /\ pos = 0 /\ ret = "walk"
        /\ anonymousFuture = 0 /\ terminalFuture = 0 /\ suspension = Proceed
        /\ \A i \in Index : armed[i].futures = {}
    BY DEF Init, NoArms
  <2> QED
    BY <2>1 DEF OnRule, Cursor, Links, Awake, Resuming, Proceed
<1>2. IInv /\ Links /\ Awake => WaitsForAnswers
  <2> SUFFICES ASSUME IInv, Links, Awake PROVE WaitsForAnswers
    OBVIOUS
  <2>1. \A f \in Launched : ~resolved(f) => future[f] = "pending"
    BY DEF Launched, resolved, IInv
  <2>2. ASSUME pc = "wait", ~Signalled
        PROVE  \/ suspension.kind = "await" /\ future[suspension.future] = "pending"
               \/ /\ suspension.kind = "drain" /\ armedRules # {}
                  /\ \A i \in armedRules : \E f \in armed[i].futures : future[f] = "pending"
    <3>1. Suspended /\ \A i \in armedRules : ~Ready(i)
      BY <2>2 DEF Awake
    <3>2. CASE suspension.kind = "await" /\ ~resolved(suspension.future)
      BY <2>1, <3>2, Zenon DEF Links
    <3>3. CASE suspension.kind = "drain" /\ armedRules # {}
      <4>1. \A i \in armedRules : armed[i].futures \subseteq Launched
        BY Zenon DEF Links, IInv
      <4> QED
        BY <2>1, <3>1, <3>3, <4>1, Zenon DEF Ready
    <3> QED
      BY <3>1, <3>2, <3>3, Zenon DEF Suspended
  <2>3. suspension.future # 0 => suspension.future \in Launched
    BY Zenon DEF Links
  <2> QED
    BY <2>2, <2>3, Zenon DEF WaitsForAnswers
<1> QED
  BY <1>1, <1>2, InitIInv, NextIInv, NextOnRule, NextCursor, NextLinks, NextAwake,
     PTL DEF Spec

=============================================================================
