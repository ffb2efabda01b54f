SPECIFICATION Spec
CONSTANTS
  Limit = 2
  MaxTime = 5
  LevelOf <- MCLevelOf
  Searches <- MCSearches
  MaxSearches = 2
  MaxPage = 4
INVARIANT ShownMatchesSearch
