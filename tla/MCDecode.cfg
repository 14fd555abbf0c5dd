\* A program has made all its calls.
CHECK_DEADLOCK FALSE
SPECIFICATION DecodeSpec
CONSTANTS
  Sources <- MCSources
  FillSize <- MCFillSize
  TextLength <- MCTextLength
  MaxCalls <- MCMaxCalls
INVARIANTS
  AnswersInOrder
  DecodeFallsBack
  StrayErrors
