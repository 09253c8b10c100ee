SPECIFICATION Spec
CONSTANTS
  text = text
  photo = photo
  Damaged = Damaged
  Chunks <- MCChunks
  Compressible <- MCCompressible
  MaxBlocks = 5
  Workers = 2
INVARIANTS
  TypeOK
  PackedInOrder
  DestinationWhole
  RestoredIsOriginal
  LastBlockWithheld
  InfoAgreesWithDecoder
PROPERTIES
  EveryStreamEnds
