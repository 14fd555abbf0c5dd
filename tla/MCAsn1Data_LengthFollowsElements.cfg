CONSTANTS
  Tags <- MCTags
  MaxElems = 2
  MaxSets = 2
  RootWires <- MCRootWires
  RootNews <- MCRootNews
  ElemNews <- MCElemNews
  NewTags <- MCNewTags
  NewBits <- MCNewBits
  NewValues <- MCNewValues
SPECIFICATION Spec
INVARIANT LengthFollowsElements
