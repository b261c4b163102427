SPECIFICATION FairSpec
CONSTANTS
  Window = 1
  TripConsecutive = 1
  TripMinSamples = 2
  BaseCooldown = 1
  MaxCooldown = 1
  Providers = {bhashini, azure, sarvam}
  Configured = {azure, sarvam}
  Position <- ThreePositions
  RawCost <- ThreeCosts
  Requests <- MixedRequests
  Callers = {c1}
  Admins = {a1, a2}
  NoProvider = NoProvider
  OnOffer <- UnableOrAuto
  MaxConsecutive = 1
  bhashini = bhashini
  azure = azure
  sarvam = sarvam
  c1 = c1
  c2 = c2
  a1 = a1
  a2 = a2
PROPERTIES KeepsPromise SavesPutNothingOlder
