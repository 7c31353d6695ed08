\* Switch 2 mode: one slot, two clients of which one may die.
SPECIFICATION FairSpec
CONSTANTS
  Endpoints = {e1, e2}
  Browsers = {}
  NoOne = NoOne
  Mortal = {e1}
  Releasers = {r1}
  MaxClients = 1
  Capacity = 1
  Switch2 = TRUE
  MaxReleases = 1
  Outages = TRUE

PROPERTIES CrashedClientFreed
