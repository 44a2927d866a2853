SPECIFICATION Spec
CONSTANTS
  Ends <- FullEnds
  Payloads <- FullSizes
  Headers <- MCHeaders
  Updates <- MCUpdates
  RedNumbers <- MCRedNumbers
  Damages <- MCDamages
  DamagedBytes <- MCDamagedBytes
INVARIANT EverySizeIsSent
