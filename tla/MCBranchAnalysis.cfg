\* One condition pair for blocks of up to three terminators, all opcodes for
\* blocks of up to two.
SPECIFICATION Spec
CONSTANTS
  Blocks = {B1, B2}
  None = None
  Return = Return
  InitBlocks <- MCBlocks
  MaxLong = 3
  LongOpcodes = {"BREQk", "BRNEk", "RJMPk", "DBG"}
INVARIANTS TypeOK ControlPreserved OutputsDescribeBlock ModifiedBlockIsTidy OutputsCanBeInserted
PROPERTIES RestartsMakeProgress ImplementsPromise Terminates
