CONSTANTS
  Nobody = Nobody
  Instance <- MCInstance
  Character <- MCCharacter
  Plain <- MCPlain
  ServiceOf <- MCPart
  VolumeOf <- MCVolume
  SecretOf <- MCNone
  Needs <- MCNeeds
  MinPort = 40
  MaxPort = 41
  Usage = {0, 100}
  MaxUsed = 2
  MaxFailed = 0
SPECIFICATION StorageFairSpec
INVARIANTS StorageTypeOK UsageIsOwn
PROPERTIES ExcessReported
