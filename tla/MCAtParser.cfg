SPECIFICATION FairSpec
CONSTANTS
  Star = Star
  EndOfLine = EndOfLine
  ZERO = ZERO
  Bytes <- SomeBytes
  TxSize = 2
  RxSize = 2
  BufferMax = 2
  IndexSize = 2
  Messages <- ShortAndLong
INVARIANTS
  ReceiverNeverStuck
  LineIsWhatCame
PROPERTIES
  FifosAreQueues
  EveryByteMoves
