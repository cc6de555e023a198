SPECIFICATION Spec
CONSTANTS
  p1 = p1
  p2 = p2
  Proc <- One
  Name = {"a", "ab"}
  Prefix <- LongerName
  NUM_BLOCKS = 5
  FAT_WIDTH = 2
  Modes = {"F_WRITE", "F_APPEND"}
  Calls = {"unlink"}
  Sharing = FALSE
  Lengths = {1, 2}
  Texts <- Entries
  MaxSize = 4
  MaxNumber = 2
CHECK_DEADLOCK FALSE
INVARIANT ChainsDisjoint
