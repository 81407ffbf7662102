SPECIFICATION Spec
CONSTANTS
  Signatures <- MCSignatures
  Returns = {"void", "word"}
  StackTop = 80
  MaxArgs = 3
  MCSizes = {1, 2, 3, 4, 6, 8}
INVARIANTS CallTypeOK NeverMixed PushesStoreInPlace ArgumentsInPlace CallPreserves 
PROPERTIES CallEnds
