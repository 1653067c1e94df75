CONSTANTS
  Service = {"db", "web"}
  Own = {"db"}
  Shared = {"media"}
  Mounted <- MCMounted
  Path = {"f", "g"}
  Written <- MCWritten
  None = None
  All = All
  IdMap <- MCIdMap
  MaxSize = 1
  MaxWrites = 2
SPECIFICATION FairSpec
INVARIANTS TypeOK RestoredUnlessDisturbed
PROPERTIES StillCopy RestoreCompletes
