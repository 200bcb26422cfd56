SPECIFICATION FairSpec
CONSTANTS
  a = a
  b = b
  Endpoint <- MCEndpoint
  ReceiveWindow <- OneEach
  SendWindow <- AWider
  IKCP_WND_RCV = 1
  MaxFragments = 1
  SeqMod = 16
  WndMod = 4
  Quota <- AOnlyThree
  MaxLate = 1
PROPERTIES
  EveryMessageArrives
  EverySegmentIsAcknowledged
