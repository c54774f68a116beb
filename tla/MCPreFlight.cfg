CONSTANTS
  Suite <- MCSuite
  Models <- MCModels
  ProviderCap <- MCProviderCap
  GlobalCap = 8
  OutputCap = 1
  Requests <- MCRequests
  KeySets <- MCKeySets
SPECIFICATION Spec
INVARIANTS TypeOK DropsExplained RefusalsForeseen
