CONSTANTS
  Container = {"web"}
  Version = {1}
  None = None
  MaxRestarts = 1
SPECIFICATION FairSpec
INVARIANTS TypeOK SourcesKept SetupOnce
PROPERTIES CleanUnlessLate RemovalCompletes
