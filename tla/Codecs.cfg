\* Two recipients and an answer of three bytes are the limits; a byte has four
\* values and a number two bytes.
SPECIFICATION MCSpec
CONSTANTS
  Nil = Nil
  MAX_PRIVATE_RECIPIENTS = 2
  MAX_RESPONSE_PRIVATE_BODY_LEN = 3
  Radix = 4
  U32 = 1
  U64 = 2
  NATIVE_SUBNETWORK <- MCNative
  COINBASE_SUBNETWORK <- MCCoinbase
  MaxRows = 3
INVARIANTS
  SealedNeverShown
  WholeOrNone
  AddressesRoundTrip
  ScansAreExact
  ServedTxResubmits
CHECK_DEADLOCK FALSE
