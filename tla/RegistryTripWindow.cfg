SPECIFICATION Spec
CONSTANTS
  Window = 20
  TripConsecutive = 3
  TripMinSamples = 10
  BaseCooldown = 1
  MaxCooldown = 1
  Providers = {sarvam}
  Configured = {sarvam}
  Position <- OnePosition
  RawCost <- OneCost
  Requests <- EveryRequest
  Callers = {c1}
  Admins = {}
  NoProvider = NoProvider
  OnOffer <- EveryChoice
  MaxConsecutive = 4
  bhashini = bhashini
  azure = azure
  sarvam = sarvam
  c1 = c1
  c2 = c2
  a1 = a1
  a2 = a2
PROPERTIES TripsOnLastTenCalls
