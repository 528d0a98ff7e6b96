SPECIFICATION PromptSpec
CONSTANTS
  MFS_INODE_TABLE_SIZE = 3
  MFS_DATA_REGION_SIZE = 3
  MFS_INODE_BLOCKS_SIZE = 2
  DirEntsPerBlock = 3
  EntSize = 1
  InodeSize = 1
  Names = {"a"}
  Texts = {"x", "y"}
  TextInum <- TextNumbers
  ScrapInodes <- ZeroScrap
  ScrapEnts <- UnusedScrap
  ScrapBytes = {2}
  Idle = Idle
  Clients <- OneClient
  Calls <- AllCalls
  MaxCalls = 7
  MaxCopies = 1
CONSTRAINT UntilHarm
PROPERTY ImplementsRemoteCall
CHECK_DEADLOCK FALSE
