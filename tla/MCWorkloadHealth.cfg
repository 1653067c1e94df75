CONSTANTS
  web = web
  api = api
  Instance <- MCOne
  Probed <- MCProbed
  HealthEvery = 1
  MaxPid = 2
SPECIFICATION FairSpec
INVARIANTS TypeOK Withdrawn
PROPERTIES ProbeWaits Converges
