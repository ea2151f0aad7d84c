SPECIFICATION Spec
CONSTANTS
  Byte = 2
  MAX_PAYLOAD_SIZE = 2
  MAX_WINDOW_SIZE = 1
  MaxFaults = 2
INVARIANT TypeOK
INVARIANT RoundTrip
INVARIANT CutIsRecognised
INVARIANT DamageIsDetected
INVARIANT EncodersAgree
