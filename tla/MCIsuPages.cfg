SPECIFICATION PagesSpec
CONSTANTS
  Limit = 2
  MaxTime = 9
  LevelOf <- MCLevelOf
  Searches <- MCSearches
  MaxSearches = 1
  MaxPage = 4
  MaxDay = 3
  Today = 2
  MaxRequests = 3
  HoursPerDay = 3
INVARIANTS
  PagesAreWindows
  AddressShowsPage
  ClickOpensDay
  SettledGraph
