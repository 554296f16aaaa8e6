SPECIFICATION Spec
CONSTANTS
  Slugs = {1, 2, 3, 4}
  Types = {"pdf", "json"}
  Hubs = {"json"}
  Terms = {"t"}
  Matches <- MCMatches
  MaxDepth = 3
  MaxChains = 1
  Fleets <- MCFleets
  Goals <- MCGoals
  MaxCommits = 0
INVARIANT UnverifiedEffectsExcluded
CHECK_DEADLOCK FALSE
