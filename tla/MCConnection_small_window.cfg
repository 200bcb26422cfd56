SPECIFICATION Spec
CONSTANTS
  a = a
  b = b
  Endpoint <- MCEndpoint
  ReceiveWindow <- Ones
  SendWindow <- Twos
  IKCP_WND_RCV = 2
  MaxFragments = 2
  SeqMod = 16
  WndMod = 8
  Quota <- AOnlyTwo
  MaxNet = 6
INVARIANTS
  FullQueueIsReadable
