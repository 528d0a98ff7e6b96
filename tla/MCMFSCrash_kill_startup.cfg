SPECIFICATION CrashSpec
CONSTANTS
  MFS_INODE_TABLE_SIZE = 3
  MFS_DATA_REGION_SIZE = 4
  MFS_INODE_BLOCKS_SIZE = 2
  DirEntsPerBlock = 3
  EntSize = 1
  InodeSize = 1
  Names = {"a", "b"}
  Texts = {"a", "x"}
  TextInum <- TextNumbers
  ScrapInodes <- ZeroScrap
  ScrapEnts <- UnusedScrap
  ScrapBytes = {2}
  Calls <- TreeCalls
  Idle = Idle
  MaxKills = 1
INVARIANT ServesWholeImage
CHECK_DEADLOCK FALSE
