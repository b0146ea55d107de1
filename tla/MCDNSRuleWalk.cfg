SPECIFICATION FairSpec
CONSTANT RuleLists <- MCRuleLists
INVARIANTS
  HeldForRaces
  AsListedIfSettled
PROPERTY
  Ends
CHECK_DEADLOCK FALSE
