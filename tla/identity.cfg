SPECIFICATION IdentitySpec
CONSTANTS
  Names = {stone, dirt, sand, water}
  BadName = BadName
  MaxEntries = 3
  NoRegistry = NoRegistry
  InvalidIndex = 3
  GenMod = 2
  Uuids = {u1, u2}
  MaxEpoch = 3
INVARIANTS BindingsAgree SavedBindingsPermanent ManifestFaithful StaleOnlyAfterWrap NeverStaleAnswer
