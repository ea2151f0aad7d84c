SPECIFICATION FairSpec
CONSTANTS
  SeqSpace = 8
  Capacity = 4
  IdxSpace = 8
  MaxWindow = 3
  max_window = 3
  MaskBits = 4
  MaxRetries = 2
  MaxLingerRetry = 2
  NChunks = 9
  Lag = 4
  OutNonBlocking = FALSE
PROPERTY OutputDoesNotBlockReplies
