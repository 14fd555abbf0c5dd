CONSTANTS
  Docs <- MCDocs
  BufferSize <- MCBufferSize
  LineSize <- MCLineSize
SPECIFICATION Spec
INVARIANTS
  IInv
PROPERTIES
  ElementsDecoded
  FooterReached
  DecodeTerminates
CHECK_DEADLOCK FALSE
