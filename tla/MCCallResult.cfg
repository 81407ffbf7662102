SPECIFICATION Spec
CONSTANTS
  Signatures <- MCSignatures
  Returns = {"void", "word"}
  StackTop = 80
  MaxArgs = 1
  MCSizes = {2}
INVARIANTS ResultInA
