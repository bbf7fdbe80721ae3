SPECIFICATION Spec
CONSTANTS
  Bit <- MCBit
  LowBit <- MCLowBit
  Section <- MCSection
  NoSection = 255
  IndexMod = 8
  InitialDisk <- MCDoubledDisk
  EditWord <- MCEditWord
  EditPokemon <- MCEditPokemon
  Editable = {"money", "party", "pc"}
  ClientRetries = FALSE
  MaxIndex = 4
INVARIANTS
  LoadedSaveIsWhole
