CONSTANTS
  Nobody = Nobody
  Instance <- MCInstance
  Character <- MCCharacter
  Plain <- MCPlain
  ServiceOf <- MCPart
  VolumeOf <- MCPart
  SecretOf <- MCSecret
  Needs <- MCNeeds
  MinPort = 40
  MaxPort = 42
  MaxUsed = 2
  MaxFailed = 2
SPECIFICATION NodeSpec
INVARIANTS KeptUnlessRelated HealthIsOwn PublishedDistinct
PROPERTIES ImplementsLeases
