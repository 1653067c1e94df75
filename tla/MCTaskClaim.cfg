CONSTANTS
  Task = {t1}
  NoTask = NoTask
  Window = 2
  Ahead = 3
  LeaseTime = 2
  MaxCrashes = 2
  MaxJump = 2
  MaxSets = 2
SPECIFICATION FairSpec
INVARIANTS TypeOK
PROPERTIES OncePerSignature EveryTaskCloses
