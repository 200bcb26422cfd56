SPECIFICATION Spec
CONSTANTS
  a = a
  b = b
  Endpoint <- MCEndpoint
  ReceiveWindow <- BResizes
  SendWindow <- Twos
  IKCP_WND_RCV = 2
  MaxFragments = 3
  SeqMod = 16
  WndMod = 8
  Quota <- AOnlyThree
  MaxNet = 6
INVARIANTS
  TypeOK
  AcksAreHonest
  InFlightBounds
  NoHeadOfLineStall
  FullQueueIsReadable
PROPERTIES
  ImplementsChannel
