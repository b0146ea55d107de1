---------------------------- MODULE MCDNSRuleWalk ----------------------------
(***************************************************************************)
(* Short lists of rules: races against each other, against rules that are  *)
(* held and against speculative queries; responses with and without a tag; *)
(* servers that are missing.  And every pair of rules from a small stock,  *)
(* after one evaluate rule with a tag and one without.                     *)
(***************************************************************************)
EXTENDS DNSRuleWalk

Evaluate(named)  == [Rule("evaluate", {}, FALSE) EXCEPT !.named = named]
Speculative(r)   == [r EXCEPT !.speculative = TRUE]
Racing(r)        == [r EXCEPT !.race = TRUE]
Missing(r)       == [r EXCEPT !.loaded = FALSE]
RespondTo(t)     == Rule("respond", {t}, FALSE)
RespondLatest    == Rule("respond", {}, TRUE)
Route            == Rule("route", {}, FALSE)
RouteIf(t)       == Rule("route", {t}, FALSE)
Options          == Rule("options", {}, FALSE)

ChosenLists == {
  \* the fastest of two, or a route that is held
  <<Evaluate(TRUE), Evaluate(TRUE), Racing(RespondTo(1)), Racing(RespondTo(2)), Route>>,
  \* a race against a rule that is held, and options set in between
  <<Evaluate(TRUE), Options, Racing(RouteIf(1)), Options, Evaluate(TRUE), RespondTo(5)>>,
  \* speculative queries beside a race
  <<Evaluate(TRUE), Racing(Rule("reject", {1}, FALSE)), Speculative(Evaluate(TRUE)),
    RespondTo(3), Speculative(Route)>>,
  \* no race: in the order of the list
  <<Evaluate(TRUE), Evaluate(TRUE), RespondTo(1), RespondTo(2), Rule("predefined", {}, FALSE)>>,
  \* responses without a tag, one replacing the other
  <<Evaluate(FALSE), Racing(RespondLatest), Speculative(Evaluate(FALSE)), RespondLatest,
    Rule("respond", {}, FALSE)>>,
  \* missing servers
  <<Evaluate(FALSE), Racing(Missing(Rule("route", {}, TRUE))), Missing(Evaluate(FALSE)),
    RespondLatest, Missing(Route)>>,
  \* a rule bound to two responses, and an inverted one
  <<Evaluate(TRUE), Evaluate(TRUE), [Racing(Rule("route", {1, 2}, FALSE)) EXCEPT !.any = TRUE],
    [Racing(Rule("predefined", {2}, FALSE)) EXCEPT !.invert = TRUE], Rule("reject", {}, FALSE)>> }

Stock == {Racing(RespondTo(1)), RespondLatest, Racing(RespondLatest)}

MCRuleLists ==
  ChosenLists \cup {<<Evaluate(TRUE), Evaluate(FALSE), r, s>> : r, s \in Stock}
=============================================================================
