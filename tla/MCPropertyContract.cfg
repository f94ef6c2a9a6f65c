SPECIFICATION Spec
CONSTANTS
  MaxInt = 511
  Versions = {3, 4, 5}
  Properties <- MCProperties
  Payloads <- MCPayloads
  None = None
INVARIANTS AdvertisedIsEnforced MeaningSurvives
