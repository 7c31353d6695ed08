\* Three UDP endpoints compete for two slots; the dormant table has two entries.
SPECIFICATION Spec
CONSTANTS
  Endpoints = {e1, e2, e3}
  Browsers = {}
  NoOne = NoOne
  Mortal = {}
  Releasers = {r1}
  MaxClients = 2
  Capacity = 2
  Switch2 = FALSE
  MaxReleases = 2
  Outages = FALSE
SYMMETRY EndpointSymmetry
INVARIANTS TypeOK OneSessionPerEndpoint LookupStaysTrue InputFromOwner DormantOnlyByMacro
PROPERTIES DormantLeavesOnEdge DisconnectFrees
