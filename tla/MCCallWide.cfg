SPECIFICATION Spec
CONSTANTS
  Signatures <- MCSignatures
  Returns = {"wide"}
  StackTop = 80
  MaxArgs = 1
  MCSizes = {2}
INVARIANTS EmitsEveryValue
