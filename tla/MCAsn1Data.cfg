CONSTANTS
  Tags <- MCTags
  MaxElems = 2
  MaxSets = 2
  RootWires <- MCRootWires
  RootNews <- MCRootNews
  ElemNews <- MCElemNews
  NewTags <- MCNewTags
  NewBits <- MCNewBits
  NewValues <- MCNewValues
SPECIFICATION Spec
INVARIANTS
  TagCacheFresh
  ParsedEncodingPreserved
  DecodedElementsComplete
  WrittenLengthCorrect
  SetWrittenInOrder
  UnusedBitsWritten
  WrittenInv
PROPERTY EncodingStable
