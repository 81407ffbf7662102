\* A conditional branch spans 16 bytes and a jump 64, as against 128 and 8192.
SPECIFICATION Spec
CONSTANTS
  None = None
  Return = Return
  NumBlocks = 4
  CondBits = 4
  JumpBits = 6
  CondField = 4
  JumpField = 5
  InitFunctions <- MCFunctions
  Profiles <- MCProfiles
INVARIANTS RelaxTypeOK RelaxKeepsControl VerifyHolds ExactUntilRelaxed BranchesReach OneNewBlockEach
PROPERTY RelaxEnds
