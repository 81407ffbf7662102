SPECIFICATION PlacementSpec
CONSTANTS
  B1 = B1
  B2 = B2
  B3 = B3
  Blocks = {B1, B2, B3}
  None = None
  Return = Return
  InitBlocks <- MCBlocks
  MaxTerminators = 3
  MCOpcodes = {"BREQk", "BRNEk", "BRGEk", "RJMPk", "RET", "DBG"}
INVARIANTS PlacementTypeOK PlacementKeepsControl UpdateAsserts NoJumpToNext StaysAnalyzable
PROPERTIES PlacementEnds
