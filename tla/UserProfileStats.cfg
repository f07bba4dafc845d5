SPECIFICATION Spec
CONSTANTS
  alice = alice
  bob = bob
  empty = empty
  name1 = name1
  name2 = name2
  bio33 = bio33
  long257 = long257
  Accounts <- MCAccounts
  Bytes <- MCBytes
  ByteLen <- MCByteLen
  Empty = empty
  MaxUsernameLength = 32
  MaxBioLength = 256
  None = None
  Keep = Keep
  UsernameInputs = {empty, name1, name2, bio33}
  AvatarInputs <- MCKeepOnly
  BioInputs <- MCKeepOnly
  StatInputs <- MCStatInputs
  MaxBlock = 3
  MaxEvents = 2
CHECK_DEADLOCK FALSE
PROPERTY StatsAreIndependent
