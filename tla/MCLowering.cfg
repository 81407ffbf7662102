\* ByteSize: a byte of two bits, a word of four.
SPECIFICATION Spec
CONSTANTS
  ByteSize = 4
  Functions <- MCFunctions
INVARIANTS LoweringTypeOK EdgesAreTheCFG PhisMatchPredecessors NeverStuck ReturnsSourceValue
PROPERTY Returns
