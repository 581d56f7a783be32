SPECIFICATION FairSpec
CONSTANTS
  c1 = c1
  n1 = n1
  ca1 = ca1
  Calls = {c1}
  Names = {n1}
  CAs = {ca1}
  Unknown = Unknown
  NoCert = NoCert
  MaxEntries = 2
  MaxEdits = 1
  MaxCrashes = 1
INVARIANTS OnlyAdmittedCallsPass HandledWhileAvailable AuthBeforeStatus
PROPERTIES RepairedIsServed
\* A server whose certificates nobody's issuer is in, and that loads nothing, waits.
CHECK_DEADLOCK FALSE
