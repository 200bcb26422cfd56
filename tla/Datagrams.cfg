SPECIFICATION ExchangeSpec
CONSTANTS
  MTU = 6
  HEADER = 2
  RcvWnd = 2
  MaxFragments = 4
  MaxMessage = 10
  MaxBytes = 6
  MaxAcks = 2
INVARIANTS
  TypeOK
  DatagramsFit
  BytesAreConserved
  EstimateIsExact
  ParsesBack
  CountsAgree
