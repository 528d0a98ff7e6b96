SPECIFICATION Spec
CONSTANTS
  MFS_INODE_TABLE_SIZE = 3
  MFS_DATA_REGION_SIZE = 3
  MFS_INODE_BLOCKS_SIZE = 2
  DirEntsPerBlock = 3
  EntSize = 1
  InodeSize = 1
  Names = {".", "a"}
  Texts = {"x"}
  TextInum <- TextNumbers
  ScrapInodes <- ZeroScrap
  ScrapEnts <- UnusedScrap
  ScrapBytes = {2}
VIEW ImageOnly
INVARIANT RootFindsItself
