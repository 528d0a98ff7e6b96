SPECIFICATION Spec
CONSTANTS
  MFS_INODE_TABLE_SIZE = 3
  MFS_DATA_REGION_SIZE = 4
  MFS_INODE_BLOCKS_SIZE = 2
  DirEntsPerBlock = 3
  EntSize = 1
  InodeSize = 1
  Names = {"", ".", "a"}
  Texts = {"a", "."}
  TextInum <- TextNumbers
  ScrapInodes <- TwoScraps
  ScrapEnts <- UnusedScrap
  ScrapBytes = {2}
CONSTRAINT UntilHarm
VIEW ImageOnly
INVARIANTS
  TypeOK
  NoSharedBlock
  BitmapExact
  Accounts
  DirectoryBehindTable
  NamesUnique
PROPERTY DurableBlocks
