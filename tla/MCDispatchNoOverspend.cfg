SPECIFICATION Spec
CONSTANTS
  openai = openai
  google = google
  Providers <- MCProviders
  PlanLength = 4
  ProviderOf <- MCProviderOf
  Est <- MCUnitEst
  MinEst = 1
  ActualCosts <- MCUnitCosts
  MaxCost = 1
  ProviderCap <- MCProviderCap
  GlobalCap = 4
  Reserve = 1
  MaxConcurrent = 2
  MaxAttempts = 2
INVARIANT NoOverspend
