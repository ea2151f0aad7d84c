SPECIFICATION Spec
CONSTANTS
  SeqSpace = 8
  Capacity = 4
  IdxSpace = 8
  MaxWindow = 3
  MaxDupAck = 3
  MaxRetransmission = 2
  NChunks = 9
  RegularInput = TRUE
PROPERTY RetransmitsTheWindow
