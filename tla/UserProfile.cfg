SPECIFICATION Spec
CONSTANTS
  alice = alice
  bob = bob
  empty = empty
  name1 = name1
  name2 = name2
  bio33 = bio33
  long257 = long257
  Accounts <- MCAccounts
  Bytes <- MCBytes
  ByteLen <- MCByteLen
  Empty = empty
  MaxUsernameLength = 32
  MaxBioLength = 256
  None = None
  Keep = Keep
  UsernameInputs = {empty, name1, name2, bio33}
  AvatarInputs <- MCAvatars
  BioInputs <- MCBios
  StatInputs <- MCStatInputs
  MaxBlock = 5
  MaxEvents = 1
CHECK_DEADLOCK FALSE
INVARIANTS
  TypeOK
  LookupIsSound
  NamedProfilesAreIndexed
  ProfileHasStats
PROPERTIES
  ProfilesPersist
  StatsKeptWithProfile
  FollowersMissOnlyResets
  ImplementsNameRegistry
