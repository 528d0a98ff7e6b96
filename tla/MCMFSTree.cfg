SPECIFICATION AskedSpec
CONSTANTS
  MFS_INODE_TABLE_SIZE = 4
  MFS_DATA_REGION_SIZE = 5
  MFS_INODE_BLOCKS_SIZE = 3
  DirEntsPerBlock = 2
  EntSize = 1
  InodeSize = 1
  Names = {".", "a"}
  Texts = {"a", "."}
  TextInum <- TextNumbers
  ScrapInodes <- TwoScraps
  ScrapEnts <- UnusedScrap
  ScrapBytes = {2}
CONSTRAINT UntilHarm
VIEW ImageOnly
INVARIANTS
  LinksSound
  Reachable
PROPERTIES
  RetryIsNoop
  ImplementsTree
