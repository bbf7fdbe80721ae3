SPECIFICATION Spec
CONSTANTS
  Numbers <- MCNumbers
  NumberSizes = {1, 2, 3}
  Texts <- MCTexts
  TextSizes = {1, 3}
INVARIANTS
  TypeOK
  NumberIsIntended
  NameIsIntended
