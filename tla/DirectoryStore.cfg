SPECIFICATION DirectorySpec
CONSTANTS
  NUM_BLOCKS = 5
  FAT_WIDTH = 23
  Name = {"a", "sh", "log"}
  Length <- Lengths
  MaxLength = 4
  MaxBlocks = 1
VIEW DirectoryBlocks
INVARIANTS DirectoryTypeOK StoredIsHeld DirectoryApart
