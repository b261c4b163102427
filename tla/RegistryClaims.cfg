SPECIFICATION Spec
CONSTANTS
  Window = 3
  TripConsecutive = 2
  TripMinSamples = 2
  BaseCooldown = 1
  MaxCooldown = 3
  Providers = {azure, sarvam}
  Configured = {azure, sarvam}
  Position <- PaidPosition
  RawCost <- PaidCost
  Requests <- EveryRequest
  Callers = {c1, c2}
  Admins = {}
  NoProvider = NoProvider
  OnOffer <- EveryChoice
  MaxConsecutive = 4
  bhashini = bhashini
  azure = azure
  sarvam = sarvam
  c1 = c1
  c2 = c2
  a1 = a1
  a2 = a2
INVARIANTS FailureTriesEveryCandidate
PROPERTIES OpenIsSkipped DoublesOnlyAfterCooldown LastResortIsLeastRecentlyFailed
