SPECIFICATION Spec
CONSTANTS
  SeqSpace = 8
  Capacity = 4
  IdxSpace = 8
INVARIANT TypeOK
PROPERTY SlotHasItsSeq
PROPERTY ImplementsQueue
