SPECIFICATION Spec
CONSTANTS
  Symbols = 3
  MaxCode = 5
  MaxRun = 3
  Width = 2
  MaxLen = 7
  MaxCodes = 5
  MaxPayload = 3
  Weights = {0, 1, 2, 4}
  ProbeSize = 3
  Stride = 2
  HighEntropy = 2
  SampleLimit = 8
  SampleChunks = 4
  MaxFile = 40
INVARIANTS
  RoundTrip
  BlockPassesReader
  LzwDecodesMeaning
  HuffmanIsCanonical
  HuffmanIsOptimal
  SampleSpreads
CHECK_DEADLOCK FALSE
