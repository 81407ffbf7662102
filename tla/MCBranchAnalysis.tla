------------------------- MODULE MCBranchAnalysis -------------------------
(***************************************************************************)
(* BranchAnalysis on every block of at most MaxLong terminators and debug  *)
(* values over LongOpcodes and every block of at most two over all of the  *)
(* opcodes, each also behind an instruction of the block's body.           *)
(***************************************************************************)
EXTENDS BranchAnalysis

CONSTANTS MaxLong, LongOpcodes

Tails(ops, max) ==
  LET instrs == {i \in Instructions : i.op \in ops}
  IN  UNION {[1..n -> instrs] : n \in 0..max}

MCBlocks ==
  LET tails == Tails(LongOpcodes, MaxLong) \cup Tails(Opcodes \ {"BODY"}, 2)
  IN  tails \cup {<<Instr("BODY", None)>> \o t : t \in tails}
============================================================================
