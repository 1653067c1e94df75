CONSTANTS
  Container = {"db", "web"}
  DataServices = {"db"}
  Version = {1, 2}
  None = None
  MaxRestarts = 1
SPECIFICATION FairSpec
INVARIANTS TypeOK UpToDate WriteAlone
PROPERTIES RestoredAndPaused UnfrozenUnlessMixed UpdateCompletes
