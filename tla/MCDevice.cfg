SPECIFICATION FairSpec
CONSTANTS
  Width = 3
  MessageSize = 5
  Size = 5
  Defaults <- MCDefaults
  PanIds <- OtherNetwork
  Channels <- OtherChannels
  AckBytes <- OtherIntervals
  Rands <- SomeRands
  Payloads <- AllMessages
  MaxFailures = 1
  MaxCommands = 2
INVARIANTS
  ConfigInForce
  TornInOrder
  SleepsAsSet
  FramesDecode
PROPERTIES
  DeviceKeepsSending
