SPECIFICATION FairSystemSpec
CONSTANTS
  MFS_INODE_TABLE_SIZE = 2
  MFS_DATA_REGION_SIZE = 3
  MFS_INODE_BLOCKS_SIZE = 1
  DirEntsPerBlock = 4
  EntSize = 1
  InodeSize = 1
  Names = {"a"}
  Texts = {"x", "y"}
  TextInum <- TextNumbers
  ScrapInodes <- ZeroScrap
  ScrapEnts <- UnusedScrap
  ScrapBytes = {2}
  Idle = Idle
  c1 = c1
  c2 = c2
  Clients <- OneClient
  Calls <- OwnCalls
  MaxCalls = 3
  MaxCopies = 2
INVARIANTS
  OneEffect
PROPERTIES
  AckedIsDone
  FailedIsUndone
  CallReturns
CHECK_DEADLOCK FALSE
