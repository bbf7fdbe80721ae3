SPECIFICATION Spec
CONSTANTS
  Numbers <- MCNumbers
  Values <- MCValues
  Loaded <- MCLoaded
INVARIANTS
  TypeOK
  IVsAreIntended
  GbIVsAreIntended
  PokerusIsIntended
  SeenListsAgree
  NationalFlagsAgree
  CaughtDataIsKept
