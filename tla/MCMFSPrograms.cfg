SPECIFICATION ProgramsSpec
CONSTANTS
  MFS_INODE_TABLE_SIZE = 24
  MFS_DATA_REGION_SIZE = 20
  MFS_INODE_BLOCKS_SIZE = 10
  DirEntsPerBlock = 16
  EntSize = 32
  InodeSize = 7
  Names <- NamesInTests
  Texts = {"cc"}
  TextInum <- TextNumbers
  ScrapInodes <- ZeroScrap
  ScrapEnts <- UnusedScrap
  ScrapBytes = {2}
  Idle = Idle
  Clients <- OneClient
  Calls <- MessagesInTests
  MaxCalls = 40
  MaxCopies = 1
INVARIANTS
  NoProgramFails
  TestsMeetNoDefect
PROPERTY ProgramsEnd
CHECK_DEADLOCK FALSE
