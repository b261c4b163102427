SPECIFICATION Spec
CONSTANTS
  Window = 1
  TripConsecutive = 1
  TripMinSamples = 2
  BaseCooldown = 1
  MaxCooldown = 1
  Providers = {bhashini, azure}
  Configured = {bhashini, azure}
  Position <- FreeAndPaidPosition
  RawCost <- FreeAndPaidCost
  Requests <- EveryRequest
  Callers = {c1}
  Admins = {a1, a2}
  NoProvider = NoProvider
  OnOffer <- EveryChoice
  MaxConsecutive = 1
  bhashini = bhashini
  azure = azure
  sarvam = sarvam
  c1 = c1
  c2 = c2
  a1 = a1
  a2 = a2
INVARIANTS FailuresRaiseScore OverrideInEffect
