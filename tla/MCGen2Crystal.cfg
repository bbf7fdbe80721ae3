SPECIFICATION Spec
CONSTANTS
  NumBoxes = 3
  Box = {"empty", "full"}
  Money = {0, 1}
  Unreached = {"egg", "none"}
  EditedBoxes = {0}
  InitialDisk <- MCInitialDisk
  Short = Short
  NoSum = NoSum
PROPERTIES
  CrystalLoads
