CONSTANTS
  LongBits = 6
  StringBodies <- MCStringBodies
  CharBodies <- MCCharBodies
  Integers_ <- MCIntegers
SPECIFICATION Spec
INVARIANTS StringExact DecodesToUtf8 CharAgreesWithString IntegerExact CharReadsBack ReportedOnce DumpReadsBack
