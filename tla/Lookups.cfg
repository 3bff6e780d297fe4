SPECIFICATION LookupsSpec
CHECK_DEADLOCK FALSE
CONSTANTS
  yahoo = yahoo
  twelve = twelve
  polygon = polygon
  demo = demo
  NoData = NoData
  Providers = {yahoo, twelve, polygon, demo}
  Keyed = {twelve, polygon}
  Gateway = {}
  Demo = demo
  Default = yahoo
  KeyInputs = {}
  Selections <- MCSelections
  Environments <- MCEnvironments
  Yahoo = yahoo
  Stubs = {polygon, demo}
  Streaming = {twelve}
  Lookups = {r1, r2}
  LookupSymbols = {s1}
  Retries = 1
  Ttl = 1
  Grace = 1
  MaxClock = 2
  MaxCalls = 3
INVARIANTS
  LookupsTypeOK
  LookupHonest
PROPERTIES
  LookupsEnd
