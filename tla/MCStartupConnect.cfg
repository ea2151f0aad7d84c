SPECIFICATION Spec
CONSTANTS
  RingSize = 4
  Sizes = {0, 1, 3, 5, 8}
  MAX_WINDOW_SIZE = 3
  MaxOptions = 2
  MaxAddresses = 2
  MAX_RETRIES = 3
INVARIANT ConnectsToSender
