CONSTANTS
  Backup = {"dump", "file", "upload", "archive"}
  Remote = {"upload", "archive"}
  Volume = {"file", "archive"}
  MaxData = 2
  MaxWaiting = 2
  MaxAsked = 1
SPECIFICATION FairSpec
\* The system stops when every backup has failed or was deleted.
CHECK_DEADLOCK FALSE
INVARIANTS TypeOK StoredAsReported DeletedIsGone
PROPERTIES RestoresReported DeletionCompletes
