SPECIFICATION Spec
CONSTANTS
  NumBoxes = 3
  Box = {"empty", "full"}
  Money = {0, 1}
  Friendship = {0, 90}
  EditedBoxes = {0}
  InitialDisk <- MCInitialDisk
  Short = Short
INVARIANTS
  LoadedIfNoError
