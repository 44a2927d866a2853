SPECIFICATION Spec
CONSTANTS
  Ends <- MCEnds
  Payloads <- MCPayloads
  Headers <- MCHeaders
  Updates <- MCUpdates
  RedNumbers <- MCRedNumbers
  Damages <- MCDamages
  DamagedBytes <- MCDamagedBytes
INVARIANTS
  TypeOK
  AcceptedIsSent
  IntactIsAccepted
  FatalOnlyByLength
  CheckCodeIsRemainder
  SafetyCodeIsMd4
