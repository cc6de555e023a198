SPECIFICATION Spec
VIEW BytesOfFiles
CONSTANTS
  p1 = p1
  p2 = p2
  Proc <- Both
  Name = {"a", "ab"}
  Prefix <- LongerName
  NUM_BLOCKS = 4
  FAT_WIDTH = 2
  Modes = {"F_READ", "F_WRITE"}
  Calls = {"unlink", "boot"}
  Sharing = FALSE
  Lengths = {1, 2}
  Texts <- Entries
  MaxSize = 3
  MaxNumber = 2
SYMMETRY Symmetry
CHECK_DEADLOCK FALSE
INVARIANTS ChainsDisjoint FreeBlocksUnlinked BytesInPlace 
PROPERTIES SpilledWhenFull
