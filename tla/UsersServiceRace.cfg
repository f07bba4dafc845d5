SPECIFICATION Spec
CONSTANTS
  null = null
  emptyString = emptyString
  name1 = name1
  name2 = name2
  text = text
  Clients = {c1, c2}
  Accounts = {alice, bob}
  Columns <- MCColumns
  Values <- MCValues
  Default <- MCDefault
  Falsy = {null, emptyString}
  Undef = Undef
  None = None
  Dtos <- MCDtos
  MaxRows = 3
SYMMETRY MCSymmetry
INVARIANT UsernamesUnique
