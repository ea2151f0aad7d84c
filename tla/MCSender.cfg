SPECIFICATION FairSpec
CONSTANTS
  SeqSpace = 8
  Capacity = 4
  IdxSpace = 8
  MaxWindow = 5
  MaxDupAck = 2
  MaxRetransmission = 2
  NChunks = 9
  RegularInput = FALSE
INVARIANT TypeOK
INVARIANT BufferIsWindow
INVARIANT ReadsWithRoom
INVARIANT NoStall
PROPERTY ImplementsSlidingWindow
PROPERTY SilentPeerEndsTransfer
