CONSTANTS
  Rec = Rec
  Pick = Pick
  List = List
  Outer = Outer
  Wrap = Wrap
  NULL = NULL
  Classes = {Rec, Pick, List, Outer, Wrap}
  Names = {"a", "b", "c"}
  Objects <- MCObjects
  Encodings <- MCEncodings
  Definitions <- MCDefinitions
  Documents <- MCDocuments
  MaxSets = 1
SPECIFICATION Spec
INVARIANTS
  LayoutRespected
  DefaultsApplied
  ChoiceOfFirst
  OnlyMisfitsFail
  SetIsKept
  ParseInv
PROPERTIES
  DecodedStays
  EveryGetReturns
CHECK_DEADLOCK FALSE
