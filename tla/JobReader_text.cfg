SPECIFICATION Spec
CONSTANTS
  Inputs <- MCTextInputs
  BufferBytes = 2
  MaxRecord = 3
  None = None
INVARIANT RefusalIsReal
