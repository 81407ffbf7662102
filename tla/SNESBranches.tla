--------------------------- MODULE SNESBranches ---------------------------
(***************************************************************************)
(* The branch vocabulary of the SNES backend (SNESInstrInfo.{h,cpp,td}):   *)
(* the condition codes, the branch opcode of each, a block as the sequence *)
(* of its machine instructions, where control leaves such a block, and the *)
(* editing operations insertBranch, removeBranch, reverseBranchCondition.  *)
(*                                                                         *)
(* An instruction is a record [op, target].  Besides the eight conditional *)
(* branches and RJMPk, the opcodes are representatives of a class:         *)
(*   "JMPk"  a branch getCondFromBranchOpc does not know (JMPk, IJMP, ...) *)
(*   "RET"   a terminator that is not a branch                             *)
(*   "DBG"   a DBG_VALUE                                                   *)
(*   "BODY"  any instruction that is not a terminator                      *)
(***************************************************************************)
EXTENDS Integers, Sequences, FiniteSets

CONSTANTS
  Blocks,   \* the machine basic blocks a branch may name
  None,     \* a null MachineBasicBlock pointer
  Return    \* where "RET" goes: out of the function

ASSUME BlocksAssumption == None \notin Blocks /\ Return \notin Blocks /\ None # Return

CondCodes == {"EQ", "NE", "GE", "LT", "SH", "LO", "MI", "PL"}

CondBranches ==
  {"BREQk", "BRNEk", "BRGEk", "BRLTk", "BRSHk", "BRLOk", "BRMIk", "BRPLk"}

Opcodes == CondBranches \cup {"RJMPk", "JMPk", "RET", "DBG", "BODY"}

\* getBrCond: the opcode that branches on a condition.
BrCond ==
  [c \in CondCodes |->
     CASE c = "EQ" -> "BREQk" [] c = "NE" -> "BRNEk"
       [] c = "GE" -> "BRGEk" [] c = "LT" -> "BRLTk"
       [] c = "SH" -> "BRSHk" [] c = "LO" -> "BRLOk"
       [] c = "MI" -> "BRMIk" [] OTHER -> "BRPLk"]

\* getCondFromBranchOpc, on the opcodes for which it is not COND_INVALID.
CondFromBranchOpc ==
  [op \in CondBranches |->
     CASE op = "BREQk" -> "EQ" [] op = "BRNEk" -> "NE"
       [] op = "BRSHk" -> "SH" [] op = "BRLOk" -> "LO"
       [] op = "BRMIk" -> "MI" [] op = "BRPLk" -> "PL"
       [] op = "BRGEk" -> "GE" [] OTHER -> "LT"]

\* getOppositeCondition.
OppositeCondition ==
  [c \in CondCodes |->
     CASE c = "EQ" -> "NE" [] c = "NE" -> "EQ"
       [] c = "SH" -> "LO" [] c = "LO" -> "SH"
       [] c = "GE" -> "LT" [] c = "LT" -> "GE"
       [] c = "MI" -> "PL" [] OTHER -> "MI"]

\* The condition on which each branch is taken: its selection pattern
\* (SNESbrcond bb:$target, SNES_COND_xx) in the instruction table.
TakenOn ==
  [op \in CondBranches |->
     CASE op = "BREQk" -> "EQ" [] op = "BRNEk" -> "NE"
       [] op = "BRSHk" -> "SH" [] op = "BRLOk" -> "LO"
       [] op = "BRMIk" -> "MI" [] op = "BRPLk" -> "PL"
       [] op = "BRGEk" -> "GE" [] OTHER -> "LT"]

Instr(op, target) == [op |-> op, target |-> target]

\* The well-formed instructions: a branch names a block, the rest does not.
Instructions ==
  [op : CondBranches \cup {"RJMPk", "JMPk"}, target : Blocks]
    \cup {Instr("RET", Return), Instr("DBG", None), Instr("BODY", None)}

IsTerminator(instr) == instr.op \notin {"DBG", "BODY"}
IsBranch(instr) == IsTerminator(instr) /\ instr.op # "RET"
----------------------------------------------------------------------------
(***************************************************************************)
(* What a block does.  A valuation is the set of conditions the status     *)
(* register satisfies when the terminators run: one of each opposite pair, *)
(* EQ and NE, GE and LT, SH and LO, MI and PL.                             *)
(***************************************************************************)
Opposites == {<<"EQ", "NE">>, <<"GE", "LT">>, <<"SH", "LO">>, <<"MI", "PL">>}

Valuations ==
  {v \in SUBSET CondCodes : \A p \in Opposites : (p[1] \in v) <=> (p[2] \notin v)}

\* With valuation v, instruction instr transfers control to its target.
Leaves(instr, v) ==
  \/ instr.op \in {"RJMPk", "JMPk", "RET"}
  \/ instr.op \in CondBranches /\ TakenOn[instr.op] \in v

\* From its i-th instruction on, block b followed in the layout by next
\* passes control to dest.
GoesFrom(b, i, v, next, dest) ==
  \/ \E k \in i..Len(b) :
        /\ Leaves(b[k], v)
        /\ b[k].target = dest
        /\ \A j \in i..(k-1) : ~Leaves(b[j], v)
  \/ /\ \A j \in i..Len(b) : ~Leaves(b[j], v)
     /\ dest = next

Goes(b, v, next, dest) == GoesFrom(b, 1, v, next, dest)

\* What the outputs of analyzeBranch say: TBB if the condition holds, else
\* FBB; a null block is the layout successor.
Described(tbb, fbb, cond, v, next, dest) ==
  LET Or(block) == IF block = None THEN next ELSE block
  IN  dest = IF cond = << >> \/ cond[1] \in v THEN Or(tbb) ELSE Or(fbb)
----------------------------------------------------------------------------
(***************************************************************************)
(* insertBranch, removeBranch and reverseBranchCondition.                  *)
(***************************************************************************)
\* The asserts at the head of insertBranch.
MayInsert(tbb, fbb, cond) == tbb # None /\ (cond = << >> => fbb = None)

InsertBranch(b, tbb, fbb, cond) ==
  IF cond = << >>
    THEN Append(b, Instr("RJMPk", tbb))
    ELSE Append(b, Instr(BrCond[cond[1]], tbb))
           \o (IF fbb = None THEN << >> ELSE <<Instr("RJMPk", fbb)>>)

\* The branches removeBranch recognises.
Removable(instr) == instr.op \in CondBranches \cup {"RJMPk"}

\* Mutant: only the last branch is erased.
RemoveLastBranch(b) ==
  IF b # << >> /\ Removable(b[Len(b)]) THEN SubSeq(b, 1, Len(b) - 1) ELSE b

\* removeBranch erases, from the end and skipping debug values, every branch
\* it recognises, up to the first other instruction.
RemoveBranch(b) ==
  LET stops == {k \in 1..Len(b) : b[k].op # "DBG" /\ ~Removable(b[k])}
      last == CHOOSE k \in stops \cup {0} : \A j \in stops : j <= k
      debugValues == Cardinality({k \in (last + 1)..Len(b) : b[k].op = "DBG"})
  IN  SubSeq(b, 1, last) \o [k \in 1..debugValues |-> Instr("DBG", None)]

ReverseBranchCondition(cond) == <<OppositeCondition[cond[1]]>>
============================================================================
