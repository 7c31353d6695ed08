\* Switch 2 mode: one slot, two pages and a UDP client.
SPECIFICATION WebSpec
CONSTANTS
  Endpoints = {e1}
  Browsers = {b1, b2}
  NoOne = NoOne
  Mortal = {}
  Releasers = {r1}
  MaxClients = 1
  Capacity = 1
  Switch2 = TRUE
  MaxReleases = 1
  Outages = FALSE
INVARIANTS WebInv
PROPERTIES WebKeepsUdp
SYMMETRY BrowserSymmetry
