SPECIFICATION LineSpec
CONSTANTS
  Letter = {"cat", "rm", "ps", "zombify", "nice", "mv", "logout"}
  Names = {"cat", "rm", "ps", "zombify", "mv"}
  Free = {"cat", "nice", "logout", "<", ">", "&", " "}
  MaxLine = 4
CHECK_DEADLOCK FALSE
INVARIANTS TokensFaithful LineObeyed
