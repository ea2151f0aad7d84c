SPECIFICATION FairSpec
CONSTANTS
  SeqSpace = 8
  Capacity = 4
  IdxSpace = 8
  MaxWindow = 3
  max_window = 2
  MaskBits = 4
  MaxDupAck = 3
  MaxRetransmission = 5
  MaxRetries = 5
  MaxLingerRetry = 5
  NChunks = 2
  Lag = 4
  RegularInput = TRUE
  OutNonBlocking = FALSE
  RTO = 4
  IdleTime = 10
  Linger = 3
  MaxLatency = 2
  MaxFaults = 1
INVARIANT TypeOK
PROPERTY ImplementsReliableTransfer
PROPERTY OutputCompletes
PROPERTY NobodyIsLeft
PROPERTY FastNetworkSucceeds
