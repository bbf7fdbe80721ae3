SPECIFICATION Spec
CONSTANTS
  Bit <- MCBit
  LowBit <- MCLowBit
  Section <- MCSection
  NoSection = 255
  IndexMod = 8
  InitialDisk <- MCInitialDisk
  EditWord <- MCEditWord
  EditPokemon <- MCEditPokemon
  Editable = {"money", "party", "pc"}
  ClientRetries = TRUE
  MaxIndex = 4
INVARIANTS
  FileHoldsWhatWasSet
