SPECIFICATION Spec
CONSTANTS
  a = a
  b = b
  Endpoint <- MCEndpoint
  ReceiveWindow <- Twos
  SendWindow <- AThree
  IKCP_WND_RCV = 2
  MaxFragments = 2
  SeqMod = 4
  WndMod = 4
  Quota <- FourAndOne
  MaxNet = 5
INVARIANTS
  NothingIsLost
  DeliveryInvariant
  FramingInvariant
  ReceiverIsBounded
PROPERTIES
  NeverWraps
