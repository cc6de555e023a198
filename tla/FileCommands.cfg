SPECIFICATION CommandsSpec
CONSTANTS
  sh = sh
  p1 = p1
  Proc <- Processes
  Shell = sh
  Name = {"a", "a1"}
  Prefix <- LongerName
  CopyName <- Copies1
  NUM_BLOCKS = 4
  FAT_WIDTH = 2
  Modes = {"F_READ", "F_WRITE"}
  Calls = {"unlink", "boot", "dup"}
  Commands = {"cat", "touch", "rm", "cp", "mv", "-w", "-r"}
  Redirect = {"cat"}
  Sharing = TRUE
  Lengths = {1}
  Texts <- Entries
  MaxSize = 6
  MaxNumber = 4
CONSTRAINT Watched
VIEW WithoutBytes
CHECK_DEADLOCK FALSE
INVARIANTS CommandsTypeOK CommandsSerial RestStored CommandsClose
PROPERTIES CommandsKeepFiles
