SPECIFICATION Spec
CONSTANTS
  openai = openai
  google = google
  Providers <- MCProviders
  PlanLength = 4
  ProviderOf <- MCProviderOf
  Est <- MCEst
  MinEst = 1
  ActualCosts <- MCActualCosts
  MaxCost = 2
  ProviderCap <- MCProviderCap
  GlobalCap = 4
  Reserve = 1
  MaxConcurrent = 2
  MaxAttempts = 2
INVARIANT LimiterSeesEveryRequest
