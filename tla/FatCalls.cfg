SPECIFICATION Spec
VIEW WithoutBytes
CONSTRAINT FewOpen
CONSTANTS
  p1 = p1
  p2 = p2
  Proc <- Both
  Name = {"a", "ab"}
  Prefix <- LongerName
  NUM_BLOCKS = 3
  FAT_WIDTH = 1
  Modes = {"F_WRITE"}
  Calls = {"readback", "seek", "dup", "unlink", "defragment", "boot"}
  Sharing = TRUE
  Lengths = {1}
  Texts <- Entries
  MaxSize = 2
  MaxNumber = 2
SYMMETRY Symmetry
CHECK_DEADLOCK FALSE
INVARIANTS TypeOK RootBlockPrivate NamesDistinct DescriptorsLive
