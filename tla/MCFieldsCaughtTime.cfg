SPECIFICATION Spec
CONSTANTS
  Numbers <- MCNumbers
  Values <- MCValues
  Loaded <- MCLoaded
INVARIANTS
  TimeOfDayIsDocumented
