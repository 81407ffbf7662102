---------------------------- MODULE BranchRelax ----------------------------
(***************************************************************************)
(* The pass BranchRelaxation over the SNES branch hooks: a conditional     *)
(* branch whose destination is estimated to be out of range is turned      *)
(* round, so that an unconditional jump covers the distance.  One step per *)
(* branch looked at; a fixup is one step with the update of the estimates  *)
(* it ends in.                                                             *)
(*                                                                         *)
(* A block is its number, the bytes of its body and its terminators.  When *)
(* the pass starts the blocks are numbered in the order of the function    *)
(* (RenumberBlocks); a new block takes the next number, which is also the  *)
(* index of its entry in BlockInfo.                                        *)
(***************************************************************************)
EXTENDS Integers, Sequences, Functions

CONSTANTS
  None,          \* no block: MF->end()
  Return,        \* where "RET" goes
  NumBlocks,     \* the blocks of the function when the pass starts
  CondBits,      \* isBranchOffsetInRange: bits of a conditional branch, 7
  JumpBits,      \* isBranchOffsetInRange: bits of RJMPk, 13
  CondField,     \* bits of k in the encoding of a conditional branch, 7
  JumpField,     \* bits of k in the encoding of RJMPk, 12
  InitFunctions  \* the functions the pass may run on: [code, body]

INSTANCE SNESBranches WITH Blocks <- Nat

Original == 0..(NumBlocks - 1)

\* Terminators analyzeBranch understands, or a return.
Relaxable(b) ==
  \/ b = << >>
  \/ Len(b) = 1 /\ b[1].op \in CondBranches \cup {"RJMPk", "RET"}
  \/ Len(b) = 2 /\ b[1].op \in CondBranches /\ b[2].op = "RJMPk"

\* A branch names a block of the function, and the last block does not fall
\* off the function's end.
ASSUME RelaxAssumption ==
  /\ None \notin Nat /\ Return \notin Nat /\ None # Return
  /\ NumBlocks \in Nat \ {0}
  /\ \A f \in InitFunctions :
       /\ f.code \in [Original -> Seq(Instructions)] /\ f.body \in [Original -> Nat]
       /\ \A n \in Original :
            /\ Relaxable(f.code[n])
            /\ \A k \in 1..Len(f.code[n]) : f.code[n][k].target \in Original \cup {Return}
            /\ n = NumBlocks - 1 =>
                 f.code[n] # << >> /\ f.code[n][Len(f.code[n])].op \notin CondBranches

\* A conditional branch reaches over a jump; its field spans what is checked of
\* it, that of a jump ends where the check does.
ASSUME RangeAssumption ==
  /\ \A bits \in {CondBits, JumpBits, CondField, JumpField} : bits \in Nat \ {0} /\ 2^(bits - 1) \in Nat
  /\ 4 < 2^(CondBits - 1)
  /\ 2^(CondBits - 1) + 2 <= 2 * 2^(CondField - 1)
  /\ 2^(JumpBits - 1) = 2 * 2^(JumpField - 1)

VARIABLES
  code0,     \* history: the terminators each block started with
  numBlocks, \* MF->getNumBlockIDs()
  body,      \* the bytes of each block's body
  code,      \* the terminators of each block
  succ,      \* the block behind each block in the function, or None
  offset,    \* BlockInfo[n].Offset
  size,      \* BlockInfo[n].Size
  I,         \* the iterator of relaxBranchInstructions
  changed,   \* Changed
  pc         \* "jump", "cond": what is looked at in block I; then how it ended

function == <<numBlocks, body, code, succ>>
blockInfo == <<offset, size>>
vars == <<code0, function, blockInfo, I, changed, pc>>
----------------------------------------------------------------------------
\* Every instruction the pass touches has the size of SNESInst16.
InstSize == 2

\* computeBlockSize.
BlockSize(bytes, terms) == bytes + InstSize * Len(terms)

\* The blocks from n to the end of the function.
From(next, n) ==
  LET from[m \in DOMAIN next \cup {None}] == IF m = None THEN {} ELSE {m} \cup from[next[m]]
  IN  from[n]

\* Mutant: the blocks behind the edited one keep their offsets.
AdjustNewOnly(off, siz, next, start) ==
  [n \in DOMAIN siz |-> IF n \in DOMAIN off THEN off[n] ELSE off[start] + siz[start]]

\* Mutant: block 0 is adjusted like the others.
AdjustBlockZeroToo(off, siz, next, start) ==
  LET moved == From(next, start)
  IN  [n \in DOMAIN siz |->
         IF n \in moved
           THEN off[start] + siz[start] + SumFunctionOnSet(siz, moved \ From(next, n)) ELSE off[n]]

\* adjustBlockOffsets.  The loop begins at Start itself: unless that is block
\* 0, its own offset becomes its end before the others follow.
AdjustBlockOffsets(off, siz, next, start) ==
  LET moved == From(next, start)
      base == IF start = 0 THEN 0 ELSE off[start] + siz[start]
  IN  [n \in DOMAIN siz |->
         IF n \in moved THEN base + SumFunctionOnSet(siz, moved \ From(next, n)) ELSE off[n]]

\* isIntN.
IsIntN(bits, x) == -(2^(bits - 1)) <= x /\ x < 2^(bits - 1)

\* isBranchOffsetInRange.
IsBranchOffsetInRange(op, distance) ==
  IsIntN(IF op = "RJMPk" THEN JumpBits ELSE CondBits, distance)

\* getInstrOffset, of the k-th terminator of block n.
InstrOffset(n, k) == offset[n] + body[n] + InstSize * (k - 1)

\* Mutant: the distance is taken from the start of the block.
InRangeOfBlock(n, k, dest) == IsBranchOffsetInRange(code[n][k].op, offset[dest] - offset[n])

IsBlockInRange(n, k, dest) ==
  IsBranchOffsetInRange(code[n][k].op, offset[dest] - InstrOffset(n, k))
----------------------------------------------------------------------------
Init ==
  /\ \E f \in InitFunctions :
       /\ code0 = f.code /\ code = f.code /\ body = f.body
       /\ size = [n \in Original |-> BlockSize(f.body[n], f.code[n])]
  /\ numBlocks = NumBlocks
  /\ succ = [n \in Original |-> IF n = NumBlocks - 1 THEN None ELSE n + 1]
  /\ offset = AdjustBlockOffsets([n \in Original |-> 0], size, succ, 0)
  /\ I = 0 /\ changed = FALSE /\ pc = "jump"

Looking(at) == pc = at /\ I # None

\* The block ends in an unconditional branch.
EndsInJump == code[I] # << >> /\ code[I][Len(code[I])].op = "RJMPk"

JumpReaches == EndsInJump => IsBlockInRange(I, Len(code[I]), code[I][Len(code[I])].target)

\* fixupUnconditionalBranch needs insertIndirectBranch, which the target does
\* not implement (llvm_unreachable).
JumpTooFar ==
  /\ Looking("jump") /\ ~JumpReaches
  /\ pc' = "unimplemented"
  /\ UNCHANGED <<code0, function, blockInfo, I, changed>>

JumpIsFine ==
  /\ Looking("jump") /\ JumpReaches
  /\ pc' = "cond"
  /\ UNCHANGED <<code0, function, blockInfo, I, changed>>

\* What analyzeBranch says of a block that ends in a conditional branch.
HasCond == code[I] # << >> /\ code[I][1].op \in CondBranches
TBB == code[I][1].target
FBB == IF Len(code[I]) = 2 THEN code[I][2].target ELSE None
Cond == <<CondFromBranchOpc[code[I][1].op]>>

\* fixupConditionalBranch is called, and the terminators are looked at again.
Fixup == Looking("cond") /\ HasCond /\ ~IsBlockInRange(I, 1, TBB)
Fixed == changed' = TRUE /\ UNCHANGED <<code0, I, pc>>

\* Mutant: the condition is reversed and the destinations stay.
ReverseOnly ==
  /\ Fixup /\ FBB # None /\ IsBlockInRange(I, 1, FBB)
  /\ code' = [code EXCEPT ![I] = InsertBranch(<< >>, TBB, FBB, ReverseBranchCondition(Cond))]
  /\ Fixed /\ UNCHANGED <<numBlocks, body, succ, blockInfo>>

\* The false destination is near: reverse the condition and swap the two.
SwapDestinations ==
  /\ Fixup /\ FBB # None /\ IsBlockInRange(I, 1, FBB)
  /\ code' = [code EXCEPT ![I] = InsertBranch(<< >>, FBB, TBB, ReverseBranchCondition(Cond))]
  /\ Fixed /\ UNCHANGED <<numBlocks, body, succ, blockInfo>>

\* Mutant: the new block's branch goes where the conditional branch went.
NewBlockTakesTBB ==
  /\ Fixup /\ FBB # None /\ ~IsBlockInRange(I, 1, FBB)
  /\ numBlocks' = numBlocks + 1
  /\ body' = [n \in 0..numBlocks |-> IF n = numBlocks THEN 0 ELSE body[n]]
  /\ code' = [n \in 0..numBlocks |->
                CASE n = numBlocks -> InsertBranch(<< >>, TBB, None, << >>)
                  [] n = I -> InsertBranch(<< >>, numBlocks, TBB, ReverseBranchCondition(Cond))
                  [] OTHER -> code[n]]
  /\ succ' = [n \in 0..numBlocks |->
                CASE n = numBlocks -> succ[I] [] n = I -> numBlocks [] OTHER -> succ[n]]
  /\ size' = [n \in 0..numBlocks |-> BlockSize(body'[n], code'[n])]
  /\ offset' = AdjustBlockOffsets(offset, size', succ', I)
  /\ Fixed

\* Both are far: a new block behind this one jumps to the false destination,
\* and the reversed branch goes there.
BranchToNewBlock ==
  /\ Fixup /\ FBB # None /\ ~IsBlockInRange(I, 1, FBB)
  /\ numBlocks' = numBlocks + 1
  /\ body' = [n \in 0..numBlocks |-> IF n = numBlocks THEN 0 ELSE body[n]]
  /\ code' = [n \in 0..numBlocks |->
                CASE n = numBlocks -> InsertBranch(<< >>, FBB, None, << >>)
                  [] n = I -> InsertBranch(<< >>, numBlocks, TBB, ReverseBranchCondition(Cond))
                  [] OTHER -> code[n]]
  /\ succ' = [n \in 0..numBlocks |->
                CASE n = numBlocks -> succ[I] [] n = I -> numBlocks [] OTHER -> succ[n]]
  /\ size' = [n \in 0..numBlocks |->
                CASE n = numBlocks -> InstSize
                  [] n = I -> size[I] - InstSize * Len(code[I]) + InstSize * Len(code'[I])
                  [] OTHER -> size[n]]
  /\ offset' = AdjustBlockOffsets(offset, size', succ', I)
  /\ Fixed

\* Mutant: the old branch is not removed.
BranchOverJumpKeepsOld ==
  /\ Fixup /\ FBB = None
  /\ code' = [code EXCEPT ![I] = InsertBranch(@, succ[I], TBB, ReverseBranchCondition(Cond))]
  /\ size' = [size EXCEPT ![I] = @ - InstSize * Len(code[I]) + InstSize * Len(code'[I])]
  /\ offset' = AdjustBlockOffsets(offset, size', succ, I)
  /\ Fixed /\ UNCHANGED <<numBlocks, body, succ>>

\* Mutant: the bytes added are not recorded.
BranchOverJumpForgetsSize ==
  /\ Fixup /\ FBB = None
  /\ code' = [code EXCEPT ![I] = InsertBranch(<< >>, succ[I], TBB, ReverseBranchCondition(Cond))]
  /\ UNCHANGED size
  /\ offset' = AdjustBlockOffsets(offset, size', succ, I)
  /\ Fixed /\ UNCHANGED <<numBlocks, body, succ>>

\* The block falls through: the reversed branch skips a jump.
BranchOverJump ==
  /\ Fixup /\ FBB = None
  /\ code' = [code EXCEPT ![I] = InsertBranch(<< >>, succ[I], TBB, ReverseBranchCondition(Cond))]
  /\ size' = [size EXCEPT ![I] = @ - InstSize * Len(code[I]) + InstSize * Len(code'[I])]
  /\ offset' = AdjustBlockOffsets(offset, size', succ, I)
  /\ Fixed /\ UNCHANGED <<numBlocks, body, succ>>

\* No branch of the block has anything left to fix.
Advance ==
  /\ Looking("cond") /\ ~Fixup
  /\ I' = succ[I] /\ pc' = "jump"
  /\ UNCHANGED <<code0, function, blockInfo, changed>>

\* while (relaxBranchInstructions())
AnotherPass ==
  /\ pc = "jump" /\ I = None /\ changed
  /\ I' = 0 /\ changed' = FALSE
  /\ UNCHANGED <<code0, function, blockInfo, pc>>

Finish ==
  /\ pc = "jump" /\ I = None /\ ~changed
  /\ pc' = "done"
  /\ UNCHANGED <<code0, function, blockInfo, I, changed>>

Ended == pc \in {"done", "unimplemented"} /\ UNCHANGED vars

Relax ==
  \/ JumpTooFar \/ JumpIsFine \/ SwapDestinations \/ BranchToNewBlock \/ BranchOverJump
  \/ Advance \/ AnotherPass \/ Finish

Next == Relax \/ Ended

Spec == Init /\ [][Next]_vars /\ WF_vars(Relax)
----------------------------------------------------------------------------
Numbers == 0..(numBlocks - 1)

(***************************************************************************)
(* Types, and "branches to be relaxed must be analyzable": whatever has    *)
(* been fixed, every block can be fixed again.                             *)
(***************************************************************************)
RelaxTypeOK ==
  /\ numBlocks \in Nat /\ numBlocks >= NumBlocks
  /\ body \in [Numbers -> Nat]
  /\ code \in [Numbers -> Seq(Instructions)]
  /\ \A n \in Numbers : Relaxable(code[n])
  /\ succ \in [Numbers -> Numbers \cup {None}]
  /\ offset \in [Numbers -> Nat] /\ size \in [Numbers -> Nat]
  /\ I \in Numbers \cup {None}
  /\ changed \in BOOLEAN
  /\ pc \in {"jump", "cond", "done", "unimplemented"}

\* The block behind an original block when the pass started.
FirstSucc(n) == IF n = NumBlocks - 1 THEN None ELSE n + 1

\* From original block n control arrives at dest, through a new block or not.
Arrives(n, v, dest) ==
  \/ Goes(code[n], v, succ[n], dest)
  \/ \E new \in Numbers \ Original :
       Goes(code[n], v, succ[n], new) /\ Goes(code[new], v, succ[new], dest)

\* Every block passes control, under every condition, where it passed it.
ControlKept ==
  \A n \in Original, v \in Valuations, dest \in Original \cup {Return} :
    Arrives(n, v, dest) <=> Goes(code0[n], v, FirstSucc(n), dest)

(***************************************************************************)
(* However branches have been turned round and blocks put in, again and    *)
(* again as one fixup put another branch out of range: the function handed *)
(* to the next pass goes, block by block, where it went.                   *)
(***************************************************************************)
RelaxKeepsControl == pc = "done" => ControlKept

(***************************************************************************)
(* The asserts of verify, at every step and not only after the last: the   *)
(* recorded size of a block is its size, and no block is estimated to      *)
(* start before its predecessor's end.  So no distance is underestimated.  *)
(***************************************************************************)
VerifyHolds ==
  \A n \in Numbers :
    /\ size[n] = BlockSize(body[n], code[n])
    /\ succ[n] # None => offset[n] + size[n] <= offset[succ[n]]

\* Where block n really starts.
TrueOffset(n) ==
  SumFunctionOnSet([m \in Numbers |-> BlockSize(body[m], code[m])], Numbers \ From(succ, n))

(***************************************************************************)
(* "Offset - Distance from the beginning of the function to the beginning  *)
(* of this basic block": true until the pass edits a block other than the  *)
(* first; from then on the estimates run ahead.                            *)
(***************************************************************************)
ExactUntilRelaxed ==
  (\A n \in Original \ {0} : code[n] = code0[n]) =>
    \A n \in Numbers : offset[n] = TrueOffset(n)

\* Distance d can be encoded in a k of so many bits: words from the next
\* instruction.  The bit of an odd distance is lost (adjustBranchTarget).
Encodes(field, d) ==
  \E k \in -(2^(field - 1))..(2^(field - 1) - 1) : d - (d % 2) = 2 * k + 2

(***************************************************************************)
(* When the pass has finished every branch reaches its destination with    *)
(* the field it has (the word of it, where an instruction of one byte or   *)
(* of three has made the distance odd), but for one k:                     *)
(* isBranchOffsetInRange accepts a jump back over the whole of its range,  *)
(* one word more than k has.                                               *)
(***************************************************************************)
BranchesReach ==
  pc = "done" =>
    \A n \in Numbers : \A k \in 1..Len(code[n]) :
      LET instr == code[n][k]
          d == TrueOffset(instr.target) - (TrueOffset(n) + body[n] + InstSize * (k - 1))
      IN  /\ instr.op \in CondBranches => Encodes(CondField, d)
          /\ instr.op = "RJMPk" =>
                Encodes(JumpField, d) \/ d - (d % 2) = -(2^(JumpBits - 1))

(***************************************************************************)
(* However often a block is fixed, at most one new block follows it: a     *)
(* branch around a jump never gets out of range again.                     *)
(***************************************************************************)
OneNewBlockEach ==
  \A n \in Original :
    \/ succ[n] = FirstSucc(n)
    \/ succ[n] \in Numbers \ Original /\ succ[succ[n]] = FirstSucc(n)

(***************************************************************************)
(* The pass ends, although a fixup may put a branch elsewhere out of range *)
(* and estimates may shrink as well as grow.                               *)
(***************************************************************************)
RelaxEnds == <>(pc \in {"done", "unimplemented"})
============================================================================
