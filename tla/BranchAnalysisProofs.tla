----------------------- MODULE BranchAnalysisProofs -----------------------
(***************************************************************************)
(* Proofs about SNESInstrInfo::analyzeBranch for every set of blocks and   *)
(* every block length.                                                     *)
(***************************************************************************)
EXTENDS BranchAnalysis, TLAPS
----------------------------------------------------------------------------
(***************************************************************************)
(* Where control goes from one instruction: to the target of the           *)
(* instruction if it leaves the block, else where it goes from the next.   *)
(***************************************************************************)
LEMMA GoesFromStep ==
  ASSUME NEW b \in Seq(Instructions), NEW i \in 1..Len(b), NEW v, NEW n, NEW dest
  PROVE  GoesFrom(b, i, v, n, dest) <=>
           IF Leaves(b[i], v) THEN b[i].target = dest
                              ELSE GoesFrom(b, i + 1, v, n, dest)
<1>1. CASE Leaves(b[i], v)
  BY <1>1 DEF GoesFrom
<1>2. CASE ~Leaves(b[i], v)
  <2>1. ASSUME NEW k \in i..Len(b), Leaves(b[k], v) PROVE k \in (i+1)..Len(b)
    BY <1>2, <2>1
  <2>2. ASSUME NEW k \in Int
        PROVE (\A j \in i..k : ~Leaves(b[j], v)) <=> (\A j \in (i+1)..k : ~Leaves(b[j], v))
    BY <1>2
  <2>3. \A k \in i..Len(b) : k - 1 \in Int
    OBVIOUS
  <2>. QED
    BY <1>2, <2>1, <2>2, <2>3 DEF GoesFrom
<1>. QED
  BY <1>1, <1>2

\* Beyond the last instruction control falls through.
LEMMA GoesFromEnd ==
  ASSUME NEW b \in Seq(Instructions), NEW v, NEW n, NEW dest
  PROVE  GoesFrom(b, Len(b) + 1, v, n, dest) <=> dest = n
BY DEF GoesFrom

\* Where a block goes when one of its first instructions leaves it.
LEMMA GoesEarly ==
  ASSUME NEW b \in Seq(Instructions), NEW i \in 1..(Len(b) + 1), NEW v, NEW n, NEW dest,
         \E k \in 1..(i - 1) : Leaves(b[k], v)
  PROVE  Goes(b, v, n, dest) <=>
           \E k \in 1..(i - 1) : /\ Leaves(b[k], v) /\ b[k].target = dest
                                 /\ \A j \in 1..(k - 1) : ~Leaves(b[j], v)
<1>1. PICK m \in 1..(i - 1) : Leaves(b[m], v)
  OBVIOUS
<1>2. m \in 1..Len(b)
  OBVIOUS
<1>3. \A k \in 1..Len(b) : (\A j \in 1..(k - 1) : ~Leaves(b[j], v)) => k <= m
  BY <1>1
<1>4. Goes(b, v, n, dest) <=>
        \E k \in 1..Len(b) : /\ Leaves(b[k], v) /\ b[k].target = dest
                             /\ \A j \in 1..(k - 1) : ~Leaves(b[j], v)
  BY <1>1, <1>2 DEF Goes, GoesFrom
<1>5. \A k \in 1..Len(b) : k <= m => k \in 1..(i - 1)
  OBVIOUS
<1>6. 1..(i - 1) \subseteq 1..Len(b)
  OBVIOUS
<1>. QED
  BY <1>3, <1>4, <1>5, <1>6

(***************************************************************************)
(* Two blocks that agree up to an instruction, and go to the same place    *)
(* from it, go to the same place.                                          *)
(***************************************************************************)
LEMMA GoesSamePrefix ==
  ASSUME NEW b \in Seq(Instructions), NEW c \in Seq(Instructions),
         NEW i \in 1..(Len(b) + 1), i \in 1..(Len(c) + 1),
         \A k \in 1..(i - 1) : c[k] = b[k],
         NEW v, NEW n, NEW dest,
         GoesFrom(b, i, v, n, dest) <=> GoesFrom(c, i, v, n, dest)
  PROVE  Goes(b, v, n, dest) <=> Goes(c, v, n, dest)
<1>1. CASE \E k \in 1..(i-1) : Leaves(b[k], v)
  <2>1. \A k \in 1..(i-1) : Leaves(b[k], v) <=> Leaves(c[k], v)
    OBVIOUS
  <2>2. Goes(b, v, n, dest) <=>
          \E k \in 1..(i-1) : /\ Leaves(b[k], v) /\ b[k].target = dest
                              /\ \A j \in 1..(k-1) : ~Leaves(b[j], v)
    BY <1>1, GoesEarly
  <2>3. Goes(c, v, n, dest) <=>
          \E k \in 1..(i-1) : /\ Leaves(c[k], v) /\ c[k].target = dest
                              /\ \A j \in 1..(k-1) : ~Leaves(c[j], v)
    BY <1>1, <2>1, GoesEarly, SMTT(30)
  <2>. QED
    BY <2>1, <2>2, <2>3
<1>2. CASE \A k \in 1..(i-1) : ~Leaves(b[k], v)
  <2>1. Goes(b, v, n, dest) <=> GoesFrom(b, i, v, n, dest)
    BY <1>2 DEF Goes, GoesFrom
  <2>2. Goes(c, v, n, dest) <=> GoesFrom(c, i, v, n, dest)
    BY <1>2 DEF Goes, GoesFrom
  <2>. QED
    BY <2>1, <2>2
<1>. QED
  BY <1>1, <1>2

\* Instructions that never leave the block can be skipped.
LEMMA GoesFromSkip ==
  ASSUME NEW b \in Seq(Instructions), NEW i \in 1..(Len(b) + 1),
         NEW m \in i..(Len(b) + 1), NEW v, NEW n, NEW dest,
         \A k \in i..(m - 1) : ~Leaves(b[k], v)
  PROVE  GoesFrom(b, i, v, n, dest) <=> GoesFrom(b, m, v, n, dest)
BY DEF GoesFrom
----------------------------------------------------------------------------
(***************************************************************************)
(* Facts about the instruction a turn of the loop looks at, and the tables. *)
(***************************************************************************)
LEMMA BranchTarget ==
  ASSUME NEW instr \in Instructions
  PROVE  /\ instr.op \in CondBranches \cup {"RJMPk", "JMPk"} => instr.target \in Blocks
         /\ instr.op \in Opcodes
BY DEF Instructions, Instr, CondBranches, Opcodes

LEMMA CurrentInstruction ==
  ASSUME TypeOK, Turn
  PROVE  /\ At \in 1..Len(block) /\ At + 1 = I /\ Cur \in Instructions
         /\ Cur.op \in CondBranches \cup {"RJMPk", "JMPk"} => Cur.target \in Blocks
<1>1. At \in 1..Len(block) /\ At + 1 = I
  BY DEF TypeOK, Turn, At
<1>2. Cur \in Instructions
  BY <1>1 DEF TypeOK, Cur
<1>. QED
  BY <1>1, <1>2, BranchTarget

\* The analysis reads a branch's condition as the one it is taken on.
LEMMA CondTables ==
  ASSUME NEW op \in CondBranches
  PROVE  CondFromBranchOpc[op] \in CondCodes /\ TakenOn[op] = CondFromBranchOpc[op]
BY DEF CondBranches, CondCodes, CondFromBranchOpc, TakenOn

\* The branch of the opposite condition is taken exactly when op is not.
LEMMA OppositeBranch ==
  ASSUME NEW op \in CondBranches
  PROVE  LET jncc == BrCond[OppositeCondition[CondFromBranchOpc[op]]]
         IN  /\ jncc \in CondBranches
             /\ \A v \in Valuations : TakenOn[jncc] \in v <=> TakenOn[op] \notin v
<1> DEFINE opp == OppositeCondition[CondFromBranchOpc[op]]
<1>1. opp \in CondCodes /\ BrCond[opp] \in CondBranches /\ TakenOn[BrCond[opp]] = opp
  <2>1. opp \in CondCodes
    BY CondTables DEF CondCodes, OppositeCondition
  <2>2. \A c \in CondCodes : BrCond[c] \in CondBranches
    BY DEF CondCodes, CondBranches, BrCond
  <2>3. \A c \in CondCodes : TakenOn[BrCond[c]] = c
    BY <2>2 DEF CondCodes, CondBranches, BrCond, TakenOn
  <2>. QED
    BY <2>1, <2>2, <2>3
<1>2. <<TakenOn[op], opp>> \in Opposites \/ <<opp, TakenOn[op]>> \in Opposites
  BY DEF CondBranches, CondCodes, CondFromBranchOpc, TakenOn, OppositeCondition, Opposites
<1>3. ASSUME NEW v \in Valuations PROVE opp \in v <=> TakenOn[op] \notin v
  BY <1>2 DEF Valuations
<1>. QED
  BY <1>1, <1>3

\* Only terminators leave a block.
LEMMA WhoLeaves ==
  ASSUME NEW instr, NEW v
  PROVE  /\ instr.op = "DBG" => ~Leaves(instr, v)
         /\ instr.op = "BODY" => ~Leaves(instr, v)
         /\ instr.op \in {"RJMPk", "JMPk", "RET"} => Leaves(instr, v)
         /\ instr.op \in CondBranches => (Leaves(instr, v) <=> TakenOn[instr.op] \in v)
BY DEF Leaves, CondBranches

\* Keeping the first i instructions of a block.
LEMMA Truncated ==
  ASSUME NEW b \in Seq(Instructions), NEW i \in 0..Len(b)
  PROVE  /\ SubSeq(b, 1, i) \in Seq(Instructions)
         /\ Len(SubSeq(b, 1, i)) = i
         /\ \A k \in 1..i : SubSeq(b, 1, i)[k] = b[k]
OBVIOUS
----------------------------------------------------------------------------
IInv == TypeOK /\ ControlPreserved /\ LoopInvariant

LEMMA InitInvariant == Init => IInv
<1> SUFFICES ASSUME Init PROVE IInv
  OBVIOUS
<1> USE DEF Init, InitAny
<1>1. block \in Seq(Instructions) /\ TerminatorsLast(block)
  BY InitBlocksAssumption
<1>2. TypeOK
  BY <1>1 DEF TypeOK
<1>3. ControlPreserved
  BY DEF ControlPreserved
<1>4. OutputsDescribeTail
  BY <1>1, GoesFromEnd DEF OutputsDescribeTail, Described
<1>5. StaleEndsInJump /\ OutputsShape /\ RememberedJump
  BY DEF StaleEndsInJump, Stale, OutputsShape, RememberedJump
<1>. QED
  BY <1>1, <1>2, <1>3, <1>4, <1>5 DEF IInv, LoopInvariant

(***************************************************************************)
(* The jump to the layout successor: the shortened block falls through to  *)
(* where the jump went, and the reset outputs say so.                      *)
(***************************************************************************)
LEMMA JumpToLayoutSuccessorInvariant ==
  ASSUME IInv, JumpToLayoutSuccessor
  PROVE  IInv'
<1> USE DEF JumpToLayoutSuccessor, Restart, inputs
<1>1. /\ TypeOK /\ Turn /\ At \in 1..Len(block) /\ At + 1 = I /\ Cur \in Instructions
      /\ Cur.target \in Blocks
  BY CurrentInstruction DEF IInv
<1>2. /\ block \in Seq(Instructions) /\ block' \in Seq(Instructions)
      /\ Len(block') = At - 1 /\ I' = At
      /\ \A k \in 1..(At - 1) : block'[k] = block[k]
  BY <1>1, Truncated DEF TypeOK
<1>3. TypeOK'
  BY <1>1, <1>2 DEF TypeOK, Turn
<1>4. ASSUME NEW v \in Valuations, NEW dest \in Blocks \cup {None, Return}
      PROVE  /\ GoesFrom(block', I', v, next', dest) <=> dest = next
             /\ Goes(block', v, next', dest) <=> Goes(block0', v, next', dest)
  <2>0. I' = Len(block') + 1 /\ I' = At /\ next' = next /\ block0' = block0
    BY <1>2
  <2>1. GoesFrom(block', I', v, next', dest) <=> dest = next
    <3>1. GoesFrom(block', Len(block') + 1, v, next, dest) <=> dest = next
      BY <1>2, GoesFromEnd, ZenonT(30)
    <3>. QED
      BY <2>0, <3>1
  <2>2. GoesFrom(block, At, v, next, dest) <=> dest = next
    BY <1>1, <1>2, GoesFromStep, WhoLeaves DEF Cur
  <2>3. Goes(block, v, next, dest) <=> Goes(block', v, next, dest)
    <3>1. At \in 1..(Len(block) + 1) /\ At \in 1..(Len(block') + 1)
      BY <1>1, <1>2
    <3>2. GoesFrom(block, At, v, next, dest) <=> GoesFrom(block', At, v, next, dest)
      BY <2>0, <2>1, <2>2
    <3>. QED
      BY <1>2, <3>1, <3>2, GoesSamePrefix
  <2>. QED
    BY <2>0, <2>1, <2>3 DEF IInv, ControlPreserved
<1>5. ControlPreserved'
  BY <1>4 DEF ControlPreserved
<1>6. OutputsDescribeTail'
  BY <1>4 DEF OutputsDescribeTail, Described
<1>7. StaleEndsInJump' /\ OutputsShape' /\ RememberedJump'
  BY DEF StaleEndsInJump, Stale, OutputsShape, RememberedJump
<1>8. TerminatorsLast(block')
  BY <1>1, <1>2 DEF IInv, LoopInvariant, TerminatorsLast
<1>9. pc' = "scan"
  BY <1>1 DEF Turn
<1>. QED
  BY <1>3, <1>5, <1>6, <1>7, <1>8, <1>9 DEF IInv, LoopInvariant

\* The jump elsewhere: what stood behind it could not run.
LEMMA JumpElsewhereInvariant ==
  ASSUME IInv, JumpElsewhere
  PROVE  IInv'
<1>0. /\ Turn /\ Cur.op = "RJMPk" /\ allowModify /\ allowModify' /\ Cur.target # next
      /\ block' = SubSeq(block, 1, At) /\ unCondBr' = At /\ I' = At
      /\ TBB' = Cur.target /\ FBB' = None /\ Cond' = << >>
      /\ next' = next /\ block0' = block0 /\ pc' = pc /\ pc = "scan"
  BY DEF JumpElsewhere, Continue, inputs, Turn
<1>1. /\ TypeOK /\ At \in 1..Len(block) /\ At + 1 = I /\ Cur \in Instructions
      /\ Cur.target \in Blocks
  BY <1>0, CurrentInstruction DEF IInv
<1>2. /\ block \in Seq(Instructions) /\ block' \in Seq(Instructions)
      /\ Len(block') = At /\ I' = At
      /\ \A k \in 1..At : block'[k] = block[k]
  BY <1>0, <1>1, Truncated DEF TypeOK
<1>3. TypeOK'
  BY <1>0, <1>1, <1>2 DEF TypeOK
<1>4. block'[At] = Cur
  BY <1>1, <1>2 DEF Cur
<1>5. ASSUME NEW v \in Valuations, NEW dest \in Blocks \cup {None, Return}
      PROVE  /\ GoesFrom(block', I', v, next', dest) <=> dest = Cur.target
             /\ Goes(block', v, next', dest) <=> Goes(block0', v, next', dest)
  <2>1. GoesFrom(block', At, v, next, dest) <=> dest = Cur.target
    <3>1. Leaves(block'[At], v) /\ At \in 1..Len(block')
      BY <1>0, <1>1, <1>2, <1>4, WhoLeaves
    <3>. QED
      BY <1>2, <1>4, <3>1, GoesFromStep
  <2>2. GoesFrom(block, At, v, next, dest) <=> dest = Cur.target
    <3>1. Leaves(block[At], v)
      BY <1>0, WhoLeaves DEF Cur
    <3>. QED
      BY <1>1, <1>2, <3>1, GoesFromStep DEF Cur
  <2>3. Goes(block, v, next, dest) <=> Goes(block', v, next, dest)
    <3>1. At \in 1..(Len(block) + 1) /\ At \in 1..(Len(block') + 1)
      BY <1>1, <1>2
    <3>2. GoesFrom(block, At, v, next, dest) <=> GoesFrom(block', At, v, next, dest)
      BY <2>1, <2>2
    <3>3. \A k \in 1..(At - 1) : block'[k] = block[k]
      BY <1>1, <1>2
    <3>. QED
      BY <1>2, <3>1, <3>2, <3>3, GoesSamePrefix
  <2>. QED
    BY <1>0, <2>1, <2>3 DEF IInv, ControlPreserved
<1>6. ControlPreserved'
  BY <1>5 DEF ControlPreserved
<1>7. OutputsDescribeTail'
  BY <1>0, <1>1, <1>5, BlocksAssumption DEF OutputsDescribeTail, Described
<1>8. StaleEndsInJump' /\ OutputsShape' /\ RememberedJump'
  BY <1>0, <1>1, <1>2, <1>4 DEF StaleEndsInJump, Stale, OutputsShape, RememberedJump
<1>9. TerminatorsLast(block')
  BY <1>1, <1>2 DEF IInv, LoopInvariant, TerminatorsLast
<1>. QED
  BY <1>0, <1>3, <1>6, <1>7, <1>8, <1>9 DEF IInv, LoopInvariant

\* The iterator is past the end only before the first turn or after a restart.
LEMMA FreshTurn ==
  ASSUME IInv, Turn, Cur.op # "RJMPk"
  PROVE  ~Stale
<1>1. At \in 1..Len(block) /\ At + 1 = I
  BY CurrentInstruction DEF IInv
<1>2. ASSUME Stale PROVE FALSE
  BY <1>1, <1>2 DEF IInv, LoopInvariant, StaleEndsInJump, Stale, Cur, Instr
<1>. QED
  BY <1>2

(***************************************************************************)
(* The swap: the debug values between the two branches move up by one, and *)
(* the two branches built behind them go where the old ones went.          *)
(***************************************************************************)
LEMMA SwapBranchesInvariant ==
  ASSUME IInv, SwapBranches
  PROVE  IInv'
<1> DEFINE jncc == BrCond[OppositeCondition[CondFromBranchOpc[Cur.op]]]
           U == unCondBr
           dest2 == block[unCondBr].target
<1>0. /\ Turn /\ Cur.op \in CondBranches /\ Cond = << >> /\ pc = "scan"
      /\ allowModify /\ allowModify' /\ unCondBr # 0 /\ Cur.target = next
      /\ block' = Swapped(jncc) /\ I' = Len(block') + 1 /\ unCondBr' = 0
      /\ TBB' = TBB /\ FBB' = FBB /\ Cond' = Cond
      /\ next' = next /\ block0' = block0 /\ pc' = pc
  BY DEF SwapBranches, SwapsBranches, Restart, inputs, outputs, Turn
<1>1. /\ TypeOK /\ At \in 1..Len(block) /\ At + 1 = I /\ Cur \in Instructions
      /\ Cur.target \in Blocks
  BY <1>0, CurrentInstruction DEF IInv
<1>2. ~Stale
  BY <1>0, FreshTurn DEF CondBranches
<1>3. /\ U = Len(block) /\ I <= U /\ block[U].op = "RJMPk" /\ TBB = dest2
      /\ \A k \in I..(U - 1) : block[k].op = "DBG"
  BY <1>0 DEF IInv, LoopInvariant, RememberedJump
<1>4. block \in Seq(Instructions) /\ U \in 2..Len(block) /\ Len(block) \in Nat
  BY <1>1, <1>3 DEF TypeOK
<1>5. dest2 \in Blocks
  BY <1>3, <1>4, BranchTarget
<1>6. jncc \in CondBranches /\ \A v \in Valuations : TakenOn[jncc] \in v <=> TakenOn[Cur.op] \notin v
  BY <1>0, OppositeBranch
<1>7. Instr(jncc, dest2) \in Instructions /\ Instr("RJMPk", Cur.target) \in Instructions
  BY <1>1, <1>5, <1>6 DEF Instr, Instructions
<1>8. /\ block' \in Seq(Instructions) /\ Len(block') = Len(block)
      /\ \A k \in 1..(At - 1) : block'[k] = block[k]
      /\ \A k \in At..(U - 2) : block'[k] = block[k + 1]
      /\ block'[U - 1] = Instr(jncc, dest2) /\ block'[U] = Instr("RJMPk", Cur.target)
  <2>2. \A k \in 1..Len(block) : Swapped(jncc)[k] \in Instructions
    BY <1>1, <1>3, <1>4, <1>7 DEF Swapped
  <2>3. Swapped(jncc) \in Seq(Instructions) /\ Len(Swapped(jncc)) = Len(block)
    BY <1>4, <2>2 DEF Swapped
  <2>. QED
    BY <1>0, <1>1, <1>3, <1>4, <2>3 DEF Swapped
<1>9. I' = Len(block) + 1 /\ next' = next /\ block0' = block0 /\ TBB' = TBB /\ Cond' = << >>
  BY <1>0, <1>8
<1>10. TypeOK'
  BY <1>0, <1>1, <1>4, <1>8, <1>9, SMTT(30) DEF TypeOK
<1>11. ControlPreserved'
  <2> SUFFICES ASSUME NEW v \in Valuations, NEW dest \in Blocks \cup {None, Return}
               PROVE  Goes(block', v, next, dest) <=> Goes(block0, v, next, dest)
    BY <1>9 DEF ControlPreserved
  <2>1. GoesFrom(block, At + 1, v, next, dest) <=> dest = dest2
    <3>1. Described(TBB, FBB, Cond, v, next, dest) <=> GoesFrom(block, I, v, next, dest)
      BY <1>0, <1>2 DEF IInv, LoopInvariant, OutputsDescribeTail
    <3>. QED
      BY <1>0, <1>1, <1>3, <1>5, <3>1, BlocksAssumption DEF Described
  <2>2. GoesFrom(block, At, v, next, dest) <=>
          IF TakenOn[Cur.op] \in v THEN next = dest ELSE dest = dest2
    BY <1>0, <1>1, <1>4, <2>1, GoesFromStep, WhoLeaves DEF Cur
  <2>3. GoesFrom(block', U, v, next, dest) <=> next = dest
    <3>1. Leaves(block'[U], v) /\ block'[U].target = Cur.target
      BY <1>8, WhoLeaves DEF Instr
    <3>. QED
      BY <1>0, <1>4, <1>8, <3>1, GoesFromStep, SMTT(30)
  <2>4. GoesFrom(block', U - 1, v, next, dest) <=>
          IF TakenOn[jncc] \in v THEN dest2 = dest ELSE next = dest
    <3>1. (Leaves(block'[U - 1], v) <=> TakenOn[jncc] \in v) /\ block'[U - 1].target = dest2
      BY <1>6, <1>8, WhoLeaves DEF Instr
    <3>2. U - 1 \in 1..Len(block') /\ (U - 1) + 1 = U
      BY <1>4, <1>8
    <3>. QED
      BY <1>8, <2>3, <3>1, <3>2, GoesFromStep
  <2>5. GoesFrom(block', At, v, next, dest) <=> GoesFrom(block', U - 1, v, next, dest)
    <3>1. ASSUME NEW k \in At..(U - 2) PROVE ~Leaves(block'[k], v)
      <4>1. k + 1 \in I..(U - 1)
        BY <1>1, <1>4
      <4>2. block'[k].op = "DBG"
        BY <1>3, <1>8, <4>1
      <4>. QED
        BY <4>2, WhoLeaves
    <3>2. PICK m \in Int : m = U - 1
      BY <1>4
    <3>3. /\ At \in 1..(Len(block') + 1) /\ m \in At..(Len(block') + 1)
          /\ \A k \in At..(m - 1) : ~Leaves(block'[k], v)
      BY <1>1, <1>3, <1>4, <1>8, <3>1, <3>2
    <3>4. GoesFrom(block', At, v, next, dest) <=> GoesFrom(block', m, v, next, dest)
      BY <1>8, <3>3, GoesFromSkip
    <3>. QED
      BY <3>2, <3>4
  <2>6. GoesFrom(block, At, v, next, dest) <=> GoesFrom(block', At, v, next, dest)
    BY <1>6, <2>2, <2>4, <2>5
  <2>7. At \in 1..(Len(block) + 1) /\ At \in 1..(Len(block') + 1)
    BY <1>1, <1>8
  <2>8. Goes(block, v, next, dest) <=> Goes(block', v, next, dest)
    BY <1>4, <1>8, <2>6, <2>7, GoesSamePrefix
  <2>. QED
    BY <2>8 DEF IInv, ControlPreserved
<1>12. StaleEndsInJump'
  BY <1>0, <1>3, <1>4, <1>8, <1>9, SMTT(30) DEF StaleEndsInJump, Stale
<1>13. Stale'
  BY <1>0, <1>1, <1>3, <1>5, <1>8, <1>9, BlocksAssumption DEF Stale
<1>14. OutputsShape' /\ RememberedJump'
  BY <1>0, <1>9 DEF IInv, LoopInvariant, OutputsShape, RememberedJump
<1>15. TerminatorsLast(block')
  <2> SUFFICES ASSUME NEW k \in 1..Len(block'), block'[k].op = "BODY", NEW j \in 1..(k - 1)
               PROVE  ~IsTerminator(block'[j])
    BY DEF TerminatorsLast
  <2>1. block'[U - 1].op # "BODY" /\ block'[U].op # "BODY"
    BY <1>6, <1>8 DEF Instr, CondBranches
  <2>2. k \in 1..(U - 2)
    <3>1. k \in 1..U /\ k # U - 1 /\ k # U
      BY <1>3, <1>8, <2>1
    <3>. QED
      BY <1>4, <3>1
  <2>3. k \in 1..(At - 1)
    <3>1. ASSUME k \in At..(U - 2) PROVE FALSE
      <4>1. k + 1 \in I..(U - 1)
        BY <1>1, <1>4, <3>1
      <4>. QED
        BY <1>3, <1>8, <3>1, <4>1
    <3>. QED
      BY <1>1, <1>4, <2>2, <3>1
  <2>4. TerminatorsLast(block)
    BY DEF IInv, LoopInvariant
  <2>5. /\ k \in 1..Len(block) /\ j \in 1..(At - 1)
        /\ block'[k] = block[k] /\ block'[j] = block[j]
    BY <1>1, <1>4, <1>8, <2>3
  <2>. QED
    BY <2>4, <2>5 DEF TerminatorsLast
<1>. QED
  BY <1>0, <1>10, <1>11, <1>12, <1>13, <1>14, <1>15 DEF IInv, LoopInvariant, OutputsDescribeTail

(***************************************************************************)
(* The turns that leave the block alone and move on.                       *)
(***************************************************************************)
LEMMA FirstConditionalInvariant ==
  ASSUME IInv, FirstConditional
  PROVE  IInv'
<1>0. /\ Turn /\ Cur.op \in CondBranches /\ Cond = << >> /\ pc = "scan" /\ pc' = pc
      /\ ~(allowModify /\ unCondBr # 0 /\ Cur.target = next)
      /\ FBB' = TBB /\ TBB' = Cur.target /\ Cond' = <<CondFromBranchOpc[Cur.op]>>
      /\ I' = At /\ allowModify' = allowModify /\ next' = next /\ block0' = block0
      /\ block' = block /\ unCondBr' = unCondBr
  BY DEF FirstConditional, SwapsBranches, Continue, inputs, Turn
<1>1. /\ TypeOK /\ At \in 1..Len(block) /\ At + 1 = I /\ Cur \in Instructions
      /\ Cur.target \in Blocks /\ block \in Seq(Instructions)
  BY <1>0, CurrentInstruction DEF IInv, TypeOK
<1>2. ~Stale /\ FBB = None
  BY <1>0, FreshTurn DEF CondBranches, IInv, LoopInvariant, OutputsShape
<1>3. CondFromBranchOpc[Cur.op] \in CondCodes /\ TakenOn[Cur.op] = CondFromBranchOpc[Cur.op]
  BY <1>0, CondTables
<1>4. TypeOK'
  BY <1>0, <1>1, <1>3 DEF TypeOK
<1>5. ControlPreserved'
  BY <1>0 DEF IInv, ControlPreserved
<1>6. OutputsDescribeTail'
  <2> SUFFICES ASSUME NEW v \in Valuations, NEW dest \in Blocks \cup {None, Return}
               PROVE  Described(TBB', FBB', Cond', v, next, dest)
                        <=> GoesFrom(block, At, v, next, dest)
    BY <1>0 DEF OutputsDescribeTail
  <2>1. Described(TBB, FBB, Cond, v, next, dest) <=> GoesFrom(block, At + 1, v, next, dest)
    BY <1>0, <1>1, <1>2 DEF IInv, LoopInvariant, OutputsDescribeTail
  <2>2. GoesFrom(block, At, v, next, dest) <=>
          IF TakenOn[Cur.op] \in v THEN Cur.target = dest
                                   ELSE Described(TBB, FBB, Cond, v, next, dest)
    <3>1. Leaves(Cur, v) <=> TakenOn[Cur.op] \in v
      BY <1>0, WhoLeaves
    <3>. QED
      BY <1>1, <2>1, <3>1, GoesFromStep DEF Cur
  <2>3. Cond'[1] = TakenOn[Cur.op] /\ Cond' # << >>
    BY <1>0, <1>3
  <2>4. Cur.target # None
    BY <1>1, BlocksAssumption
  <2>. QED
    BY <1>0, <2>2, <2>3, <2>4 DEF Described
<1>7. StaleEndsInJump'
  BY <1>0, <1>1 DEF StaleEndsInJump, Stale
<1>8. OutputsShape'
  <2>1. block[At].op \in CondBranches
    BY <1>0 DEF Cur
  <2>2. At \in At..Len(block)
    BY <1>1
  <2>. QED
    BY <1>0, <1>1, <2>1, <2>2, BlocksAssumption DEF OutputsShape
<1>9. RememberedJump'
  BY <1>0, <1>1 DEF IInv, LoopInvariant, RememberedJump
<1>. QED
  BY <1>0, <1>4, <1>5, <1>6, <1>7, <1>8, <1>9 DEF IInv, LoopInvariant

LEMMA RepeatedConditionalInvariant ==
  ASSUME IInv, RepeatedConditional
  PROVE  IInv'
<1>0. /\ Turn /\ Cur.op \in CondBranches /\ Cond # << >> /\ pc = "scan" /\ pc' = pc
      /\ Cur.target = TBB /\ Cond[1] = CondFromBranchOpc[Cur.op]
      /\ FBB' = FBB /\ TBB' = TBB /\ Cond' = Cond
      /\ I' = At /\ allowModify' = allowModify /\ next' = next /\ block0' = block0
      /\ block' = block /\ unCondBr' = unCondBr
  BY DEF RepeatedConditional, Repeats, Continue, inputs, outputs, Turn
<1>1. /\ TypeOK /\ At \in 1..Len(block) /\ At + 1 = I /\ Cur \in Instructions
      /\ Cur.target \in Blocks /\ block \in Seq(Instructions)
  BY <1>0, CurrentInstruction DEF IInv, TypeOK
<1>2. ~Stale
  BY <1>0, FreshTurn DEF CondBranches
<1>3. TakenOn[Cur.op] = Cond[1]
  BY <1>0, CondTables
<1>4. TypeOK'
  BY <1>0, <1>1 DEF TypeOK
<1>5. ControlPreserved'
  BY <1>0 DEF IInv, ControlPreserved
<1>6. OutputsDescribeTail'
  <2> SUFFICES ASSUME NEW v \in Valuations, NEW dest \in Blocks \cup {None, Return}
               PROVE  Described(TBB, FBB, Cond, v, next, dest)
                        <=> GoesFrom(block, At, v, next, dest)
    BY <1>0 DEF OutputsDescribeTail
  <2>1. Described(TBB, FBB, Cond, v, next, dest) <=> GoesFrom(block, At + 1, v, next, dest)
    BY <1>0, <1>1, <1>2 DEF IInv, LoopInvariant, OutputsDescribeTail
  <2>2. GoesFrom(block, At, v, next, dest) <=>
          IF Cond[1] \in v THEN TBB = dest ELSE Described(TBB, FBB, Cond, v, next, dest)
    <3>1. Leaves(Cur, v) <=> Cond[1] \in v
      BY <1>0, <1>3, WhoLeaves
    <3>. QED
      BY <1>0, <1>1, <2>1, <3>1, GoesFromStep DEF Cur
  <2>3. TBB # None
    BY <1>0, <1>1, BlocksAssumption
  <2>. QED
    BY <1>0, <2>2, <2>3 DEF Described
<1>7. StaleEndsInJump'
  BY <1>0, <1>1 DEF StaleEndsInJump, Stale
<1>8. OutputsShape'
  BY <1>0, <1>1 DEF IInv, LoopInvariant, OutputsShape, TypeOK
<1>9. RememberedJump'
  BY <1>0, <1>1 DEF IInv, LoopInvariant, RememberedJump
<1>. QED
  BY <1>0, <1>4, <1>5, <1>6, <1>7, <1>8, <1>9 DEF IInv, LoopInvariant

LEMMA SkipDebugValueInvariant ==
  ASSUME IInv, SkipDebugValue
  PROVE  IInv'
<1>0. /\ Turn /\ Cur.op = "DBG" /\ pc = "scan" /\ pc' = pc
      /\ FBB' = FBB /\ TBB' = TBB /\ Cond' = Cond
      /\ I' = At /\ allowModify' = allowModify /\ next' = next /\ block0' = block0
      /\ block' = block /\ unCondBr' = unCondBr
  BY DEF SkipDebugValue, Continue, inputs, outputs, Turn
<1>1. TypeOK /\ At \in 1..Len(block) /\ At + 1 = I /\ block \in Seq(Instructions)
  BY <1>0, CurrentInstruction DEF IInv, TypeOK
<1>2. ~Stale
  BY <1>0, FreshTurn
<1>4. TypeOK'
  BY <1>0, <1>1 DEF TypeOK
<1>5. ControlPreserved'
  BY <1>0 DEF IInv, ControlPreserved
<1>6. OutputsDescribeTail'
  <2> SUFFICES ASSUME NEW v \in Valuations, NEW dest \in Blocks \cup {None, Return}
               PROVE  Described(TBB, FBB, Cond, v, next, dest)
                        <=> GoesFrom(block, At, v, next, dest)
    BY <1>0 DEF OutputsDescribeTail
  <2>1. Described(TBB, FBB, Cond, v, next, dest) <=> GoesFrom(block, At + 1, v, next, dest)
    BY <1>0, <1>1, <1>2 DEF IInv, LoopInvariant, OutputsDescribeTail
  <2>2. ~Leaves(Cur, v)
    BY <1>0, WhoLeaves
  <2>. QED
    BY <1>1, <2>1, <2>2, GoesFromStep DEF Cur
<1>7. StaleEndsInJump'
  BY <1>0, <1>1 DEF StaleEndsInJump, Stale
<1>8. OutputsShape'
  BY <1>0, <1>1 DEF IInv, LoopInvariant, OutputsShape, TypeOK
<1>9. RememberedJump'
  <2>1. block[At].op = "DBG"
    BY <1>0 DEF Cur
  <2>2. \A k \in At..(Len(block) - 1) : k = At \/ k \in I..(Len(block) - 1)
    BY <1>1
  <2>. QED
    BY <1>0, <1>1, <2>1, <2>2 DEF IInv, LoopInvariant, RememberedJump
<1>. QED
  BY <1>0, <1>4, <1>5, <1>6, <1>7, <1>8, <1>9 DEF IInv, LoopInvariant

\* Without AllowModify nothing but debug values stands behind the jump.
LEMMA JumpUnmodifiedInvariant ==
  ASSUME IInv, JumpUnmodified
  PROVE  IInv'
<1>0. /\ Turn /\ Cur.op = "RJMPk" /\ pc = "scan" /\ pc' = pc /\ ~allowModify
      /\ FBB' = FBB /\ TBB' = Cur.target /\ Cond' = Cond
      /\ I' = At /\ allowModify' = allowModify /\ next' = next /\ block0' = block0
      /\ block' = block /\ unCondBr' = At
  BY DEF JumpUnmodified, Continue, inputs, Turn
<1>1. /\ TypeOK /\ At \in 1..Len(block) /\ At + 1 = I /\ Cur \in Instructions
      /\ Cur.target \in Blocks /\ block \in Seq(Instructions)
  BY <1>0, CurrentInstruction DEF IInv, TypeOK
<1>2. \A k \in I..Len(block) : block[k].op = "DBG"
  BY <1>0, <1>1 DEF IInv, LoopInvariant, NoDeadCode, Cur
<1>3. Cond = << >> /\ FBB = None
  BY <1>2 DEF IInv, LoopInvariant, OutputsShape, CondBranches
<1>4. TypeOK'
  BY <1>0, <1>1 DEF TypeOK
<1>5. ControlPreserved'
  BY <1>0 DEF IInv, ControlPreserved
<1>6. OutputsDescribeTail'
  <2> SUFFICES ASSUME NEW v \in Valuations, NEW dest \in Blocks \cup {None, Return}
               PROVE  Described(Cur.target, FBB, << >>, v, next, dest)
                        <=> GoesFrom(block, At, v, next, dest)
    BY <1>0, <1>3 DEF OutputsDescribeTail
  <2>1. Leaves(Cur, v)
    BY <1>0, WhoLeaves
  <2>2. GoesFrom(block, At, v, next, dest) <=> Cur.target = dest
    BY <1>1, <2>1, GoesFromStep DEF Cur
  <2>3. Cur.target # None
    BY <1>1, BlocksAssumption
  <2>. QED
    BY <2>2, <2>3 DEF Described
<1>7. StaleEndsInJump'
  BY <1>0, <1>1 DEF StaleEndsInJump, Stale
<1>8. OutputsShape'
  BY <1>0, <1>3 DEF OutputsShape
<1>9. RememberedJump'
  BY <1>0 DEF RememberedJump
<1>. QED
  BY <1>0, <1>4, <1>5, <1>6, <1>7, <1>8, <1>9 DEF IInv, LoopInvariant

\* The turns that return.
LEMMA ReturnInvariant ==
  ASSUME IInv, ReachBegin \/ StopAtNonTerminator \/ GiveUpOnTerminator \/ GiveUpOnConditional
  PROVE  IInv'
<1>0. /\ pc = "scan" /\ pc' \in {"success", "unanalyzable"}
      /\ pc' = "success" => I = 1 \/ (Turn /\ Cur.op = "BODY")
      /\ FBB' = FBB /\ TBB' = TBB /\ Cond' = Cond
      /\ I' = I /\ allowModify' = allowModify /\ next' = next /\ block0' = block0
      /\ block' = block /\ unCondBr' = unCondBr
  BY DEF ReachBegin, StopAtNonTerminator, GiveUpOnTerminator, GiveUpOnConditional,
         ReturnWith, inputs, outputs, Turn
<1>1. TypeOK /\ TypeOK'
  BY <1>0 DEF IInv, TypeOK
<1>2. pc' = "success" => I' = 1 \/ block'[I' - 1].op = "BODY"
  BY <1>0 DEF Cur, At
<1>3. pc' = "success" => ~Stale
  <2>1. ASSUME I = 1, Stale PROVE FALSE
    BY <1>1, <2>1 DEF IInv, LoopInvariant, StaleEndsInJump, Stale, TypeOK
  <2>. QED
    BY <1>0, <2>1, FreshTurn
<1>4. ControlPreserved'
  BY <1>0 DEF IInv, ControlPreserved
<1>5. OutputsDescribeTail'
  BY <1>0, <1>3 DEF IInv, LoopInvariant, OutputsDescribeTail, Stale
<1>6. StaleEndsInJump' /\ OutputsShape' /\ RememberedJump'
  BY <1>0 DEF IInv, LoopInvariant, StaleEndsInJump, Stale, OutputsShape, RememberedJump
<1>. QED
  BY <1>0, <1>1, <1>2, <1>4, <1>5, <1>6 DEF IInv, LoopInvariant

LEMMA StutterInvariant ==
  ASSUME IInv, UNCHANGED vars
  PROVE  IInv'
BY DEF IInv, vars, inputs, outputs, TypeOK, ControlPreserved, LoopInvariant, StaleEndsInJump,
       Stale, OutputsDescribeTail, OutputsShape, RememberedJump

\* Every turn of the loop preserves the invariant.
LEMMA AnalyzeInvariant ==
  ASSUME IInv, Analyze
  PROVE  IInv'
BY ReturnInvariant, SkipDebugValueInvariant, JumpUnmodifiedInvariant,
   JumpToLayoutSuccessorInvariant, JumpElsewhereInvariant, SwapBranchesInvariant,
   FirstConditionalInvariant, RepeatedConditionalInvariant DEF Analyze

THEOREM InvariantHolds == Spec => []IInv
<1>1. ASSUME IInv, [Next]_vars PROVE IInv'
  <2>1. CASE Analyze
    BY <1>1, <2>1, AnalyzeInvariant
  <2>2. CASE Returned \/ UNCHANGED vars
    BY <1>1, <2>2, StutterInvariant DEF Returned
  <2>. QED
    BY <1>1, <2>1, <2>2 DEF Next
<1>. QED
  BY <1>1, InitInvariant, PTL DEF Spec
----------------------------------------------------------------------------
\* The state of the analysis is well typed: SNESInstrInfo::analyzeBranch
\* never lets an iterator outlive the instruction it names.
THEOREM TypeCorrect == Spec => []TypeOK
BY InvariantHolds, PTL DEF IInv

(***************************************************************************)
(* No edit of analyzeBranch changes where a block goes, whatever the set   *)
(* of blocks and the length of the block.                                  *)
(***************************************************************************)
THEOREM ControlIsPreserved == Spec => []ControlPreserved
BY InvariantHolds, PTL DEF IInv

\* Where the loop stops there is no terminator above: the outputs describe
\* the whole block.
LEMMA ExactWhereItStops ==
  ASSUME IInv, pc # "unanalyzable", ~Stale, I = 1 \/ block[I - 1].op = "BODY",
         NEW v \in Valuations, NEW dest \in Blocks \cup {None, Return}
  PROVE  Described(TBB, FBB, Cond, v, next, dest) <=> Goes(block, v, next, dest)
<1>1. Described(TBB, FBB, Cond, v, next, dest) <=> GoesFrom(block, I, v, next, dest)
  BY DEF IInv, LoopInvariant, OutputsDescribeTail
<1>2. I \in 1..(Len(block) + 1) /\ block \in Seq(Instructions)
  BY DEF IInv, TypeOK
<1>3. ASSUME NEW k \in 1..(I - 1) PROVE ~Leaves(block[k], v)
  <2>1. block[I - 1].op = "BODY" /\ TerminatorsLast(block) /\ I - 1 \in 1..Len(block)
    BY <1>2 DEF IInv, LoopInvariant
  <2>2. ~IsTerminator(block[k])
    <3>1. CASE k = I - 1
      BY <2>1, <3>1 DEF IsTerminator
    <3>2. CASE k \in 1..((I - 1) - 1)
      BY <2>1, <3>2 DEF TerminatorsLast
    <3>. QED
      BY <1>2, <3>1, <3>2
  <2>. QED
    BY <2>2, WhoLeaves DEF IsTerminator
<1>4. GoesFrom(block, 1, v, next, dest) <=> GoesFrom(block, I, v, next, dest)
  <2>1. 1 \in 1..(Len(block) + 1)
    BY <1>2
  <2>. QED
    BY <1>2, <1>3, <2>1, GoesFromSkip
<1>. QED
  BY <1>1, <1>4 DEF Goes

(***************************************************************************)
(* On success the outputs of analyzeBranch describe the whole block: above *)
(* the point where the loop stopped there is no terminator.                *)
(***************************************************************************)
THEOREM OutputsAreExact == Spec => []OutputsDescribeBlock
<1>1. ASSUME IInv PROVE OutputsDescribeBlock
  BY <1>1, ExactWhereItStops DEF IInv, LoopInvariant, OutputsDescribeBlock, Stale
<1>. QED
  BY <1>1, InvariantHolds, PTL
----------------------------------------------------------------------------
(***************************************************************************)
(* The refinement: every turn of the loop is a step of AnalyzePromise or   *)
(* leaves what it speaks of alone.                                         *)
(***************************************************************************)
\* The instance speaks of blocks and branches as this module does.
LEMMA SameVocabulary ==
  /\ Promise!Instructions = Instructions /\ Promise!Valuations = Valuations
  /\ \A b, v, n, dest : Promise!Goes(b, v, n, dest) <=> Goes(b, v, n, dest)
  /\ \A tbb, fbb, cond, v, n, dest :
       Promise!Described(tbb, fbb, cond, v, n, dest) <=> Described(tbb, fbb, cond, v, n, dest)
  /\ \A tbb, fbb, cond : Promise!MayInsert(tbb, fbb, cond) <=> MayInsert(tbb, fbb, cond)
<1>1. Promise!Instructions = Instructions
  BY DEF Instructions, Promise!Instructions, Instr, Promise!Instr, CondBranches, Promise!CondBranches
<1>2. Promise!Valuations = Valuations
  BY DEF Valuations, Promise!Valuations, CondCodes, Promise!CondCodes, Opposites, Promise!Opposites
<1>3. \A i, v : Promise!Leaves(i, v) <=> Leaves(i, v)
  BY DEF Leaves, Promise!Leaves, CondBranches, Promise!CondBranches, TakenOn, Promise!TakenOn
<1>4. \A b, v, n, dest : Promise!Goes(b, v, n, dest) <=> Goes(b, v, n, dest)
  BY <1>3 DEF Goes, Promise!Goes, GoesFrom, Promise!GoesFrom
<1>5. \A tbb, fbb, cond, v, n, dest :
        Promise!Described(tbb, fbb, cond, v, n, dest) <=> Described(tbb, fbb, cond, v, n, dest)
  BY DEF Described, Promise!Described
<1>6. \A tbb, fbb, cond : Promise!MayInsert(tbb, fbb, cond) <=> MayInsert(tbb, fbb, cond)
  BY DEF MayInsert, Promise!MayInsert
<1>. QED
  BY <1>1, <1>2, <1>4, <1>5, <1>6

\* Behind a terminator there is no instruction of the body.
LEMMA NoBodyBehind ==
  ASSUME IInv, NEW j \in 1..Len(block), IsTerminator(block[j]),
         NEW k \in 1..Len(block), block[k].op = "BODY"
  PROVE  k < j
<1>1. block \in Seq(Instructions) /\ TerminatorsLast(block)
  BY DEF IInv, TypeOK, LoopInvariant
<1>2. j # k
  BY DEF IsTerminator
<1>3. j \notin 1..(k - 1)
  BY <1>1 DEF TerminatorsLast
<1>. QED
  BY <1>1, <1>2, <1>3

LEMMA EditsKeepBody ==
  ASSUME IInv, JumpToLayoutSuccessor \/ JumpElsewhere \/ SwapBranches
  PROVE  /\ allowModify /\ block' \in Seq(Instructions) /\ Len(block') <= Len(block)
         /\ Promise!SameBody(block, block')
<1>1. /\ TypeOK /\ Turn /\ At \in 1..Len(block) /\ At + 1 = I /\ Cur \in Instructions
      /\ block \in Seq(Instructions) /\ allowModify
      /\ Cur.op \in CondBranches \cup {"RJMPk", "JMPk"} => Cur.target \in Blocks
  BY CurrentInstruction
  DEF IInv, TypeOK, JumpToLayoutSuccessor, JumpElsewhere, SwapBranches, SwapsBranches
<1>2. IsTerminator(block[At])
  BY DEF JumpToLayoutSuccessor, JumpElsewhere, SwapBranches, IsTerminator, Cur, CondBranches
<1>3. \A k \in 1..Len(block) : block[k].op = "BODY" => k < At
  BY <1>1, <1>2, NoBodyBehind
<1>4. CASE JumpToLayoutSuccessor
  <2>1. block' = SubSeq(block, 1, At - 1) /\ At - 1 \in 0..Len(block)
    BY <1>1, <1>4 DEF JumpToLayoutSuccessor
  <2>2. /\ block' \in Seq(Instructions) /\ Len(block') = At - 1
        /\ \A k \in 1..(At - 1) : block'[k] = block[k]
    BY <1>1, <2>1, Truncated
  <2>. QED
    BY <1>1, <1>3, <2>2 DEF Promise!SameBody
<1>5. CASE JumpElsewhere
  <2>1. block' = SubSeq(block, 1, At)
    BY <1>1, <1>5 DEF JumpElsewhere
  <2>2. /\ block' \in Seq(Instructions) /\ Len(block') = At
        /\ \A k \in 1..At : block'[k] = block[k]
    BY <1>1, <2>1, Truncated
  <2>. QED
    BY <1>1, <1>3, <2>2 DEF Promise!SameBody
<1>6. CASE SwapBranches
  <2>1. IInv'
    BY <1>6, SwapBranchesInvariant
  <2>2. block' \in Seq(Instructions)
    BY <2>1 DEF IInv, TypeOK
  <2>3. block' = Swapped(BrCond[OppositeCondition[CondFromBranchOpc[Cur.op]]])
    BY <1>6 DEF SwapBranches
  <2>4. Len(block') = Len(block)
    BY <1>1, <2>2, <2>3 DEF Swapped
  <2>5. \A k \in 1..(At - 1) : block'[k] = block[k]
    BY <1>1, <2>3 DEF Swapped
  <2>. QED
    BY <1>1, <1>3, <2>2, <2>4, <2>5 DEF Promise!SameBody
<1>. QED
  BY <1>4, <1>5, <1>6

LEMMA StepKeepsControl ==
  ASSUME IInv, IInv', next' = next, block0' = block0
  PROVE  Promise!SameControl(block, block')
BY SameVocabulary DEF IInv, ControlPreserved, Promise!SameControl

LEMMA AnalyzeImplements ==
  ASSUME IInv, IInv', Analyze
  PROVE  [Promise!Next]_(Promise!vars)
<1>0. TypeOK /\ TypeOK' /\ pc = "scan"
  BY DEF IInv, Analyze, ReachBegin, SkipDebugValue, StopAtNonTerminator, GiveUpOnTerminator,
     JumpUnmodified, JumpToLayoutSuccessor, JumpElsewhere, SwapBranches, FirstConditional,
     RepeatedConditional, GiveUpOnConditional, Turn
<1>1. next' = next /\ block0' = block0 /\ allowModify' = allowModify
  BY DEF Analyze, ReachBegin, SkipDebugValue, StopAtNonTerminator, GiveUpOnTerminator,
     JumpUnmodified, JumpToLayoutSuccessor, JumpElsewhere, SwapBranches, FirstConditional,
     RepeatedConditional, GiveUpOnConditional, Continue, Restart, ReturnWith, inputs
<1>2. CASE JumpToLayoutSuccessor \/ JumpElsewhere \/ SwapBranches
  <2>1. pc' = pc
    BY <1>2 DEF JumpToLayoutSuccessor, JumpElsewhere, SwapBranches, Continue, Restart
  <2>2. Promise!Rewrite
    BY <1>0, <1>1, <1>2, <2>1, EditsKeepBody, StepKeepsControl, SameVocabulary
    DEF Promise!Rewrite, Promise!Pending, Promise!Answer
  <2>. QED
    BY <2>2 DEF Promise!Next
<1>3. CASE SkipDebugValue \/ JumpUnmodified \/ FirstConditional \/ RepeatedConditional
  <2>1. pc' = pc /\ block' = block
    BY <1>3 DEF SkipDebugValue, JumpUnmodified, FirstConditional, RepeatedConditional, Continue
  <2>. QED
    BY <1>0, <1>1, <2>1 DEF Promise!vars
<1>4. CASE ReachBegin \/ StopAtNonTerminator
  <2>1. pc' = "success" /\ block' = block /\ TBB' = TBB /\ FBB' = FBB /\ Cond' = Cond
    BY <1>4 DEF ReachBegin, StopAtNonTerminator, ReturnWith, outputs
  <2>2. TBB \in Blocks \cup {None} /\ FBB \in Blocks \cup {None} /\ Cond \in Promise!Conditions
    BY <1>0 DEF TypeOK, Promise!Conditions, CondCodes, Promise!CondCodes
  <2>3. IF TBB = None THEN FBB = None /\ Cond = << >> ELSE MayInsert(TBB, FBB, Cond)
    BY <1>0 DEF IInv, LoopInvariant, OutputsShape, MayInsert
  <2>4. ASSUME NEW v \in Valuations, NEW dest \in Blocks \cup {None, Return}
        PROVE  Described(TBB, FBB, Cond, v, next, dest) <=> Goes(block, v, next, dest)
    <3>1. ~Stale
      <4>1. ASSUME I = 1, Stale PROVE FALSE
        BY <1>0, <4>1 DEF IInv, LoopInvariant, StaleEndsInJump, Stale, TypeOK
      <4>. QED
        BY <1>4, <4>1, FreshTurn DEF ReachBegin, StopAtNonTerminator
    <3>2. I = 1 \/ block[I - 1].op = "BODY"
      BY <1>4 DEF ReachBegin, StopAtNonTerminator, Cur, At
    <3>. QED
      BY <1>0, <3>1, <3>2, ExactWhereItStops
  <2>5. Promise!Succeed
    BY <1>0, <1>1, <2>1, <2>2, <2>3, <2>4, SameVocabulary, ZenonT(30)
    DEF Promise!Succeed, Promise!Pending, Promise!Answer
  <2>. QED
    BY <2>5 DEF Promise!Next
<1>5. CASE GiveUpOnTerminator \/ GiveUpOnConditional
  <2>1. pc' = "unanalyzable" /\ block' = block
    BY <1>5 DEF GiveUpOnTerminator, GiveUpOnConditional, ReturnWith
  <2>2. Promise!GiveUp
    BY <1>0, <1>1, <2>1 DEF Promise!GiveUp, Promise!Pending, Promise!Unanalyzable, Promise!Answer
  <2>. QED
    BY <2>2 DEF Promise!Next
<1>. QED
  BY <1>2, <1>3, <1>4, <1>5 DEF Analyze

(***************************************************************************)
(* analyzeBranch implements AnalyzePromise, whatever the set of blocks and *)
(* the length of the block: its edits are invisible and stop before it     *)
(* answers, and its answers are insertable and true.                       *)
(***************************************************************************)
THEOREM AnalysisImplementsPromise == Spec => ImplementsPromise
<1>1. Init => Promise!Init
  BY DEF Init, InitAny, Promise!Init, Promise!Pending, Promise!Answer
<1>2. ASSUME IInv, IInv', [Next]_vars PROVE [Promise!Next]_(Promise!vars)
  <2>1. CASE Analyze
    BY <1>2, <2>1, AnalyzeImplements
  <2>2. CASE Returned \/ UNCHANGED vars
    BY <2>2 DEF Returned, vars, inputs, outputs, Promise!vars
  <2>. QED
    BY <1>2, <2>1, <2>2 DEF Next
<1>. QED
  BY <1>1, <1>2, InvariantHolds, PTL DEF Spec, ImplementsPromise, Promise!Spec
----------------------------------------------------------------------------
(***************************************************************************)
(* What analyzeBranch accepts, insertBranch accepts: the asserts of both   *)
(* hold for the outputs of every analysis of every block.                  *)
(***************************************************************************)
THEOREM OutputsAreInsertable == Spec => []OutputsCanBeInserted
<1>1. ASSUME IInv PROVE OutputsCanBeInserted
  BY <1>1 DEF IInv, LoopInvariant, OutputsShape, OutputsCanBeInserted, MayInsert
<1>. QED
  BY <1>1, InvariantHolds, PTL

(***************************************************************************)
(* Why a modified block is tidy: the only jump already visited is the one  *)
(* remembered, and with two destinations neither is the layout successor.  *)
(***************************************************************************)
TidyTail ==
  (allowModify /\ ~Stale) =>
    /\ \A k \in I..Len(block) : block[k].op = "RJMPk" => k = unCondBr
    /\ TBB # None => Cond # << >> \/ unCondBr # 0
    /\ FBB # None => FBB # next /\ TBB # next

LEMMA InitTidy == Init => TidyTail
BY InitBlocksAssumption DEF Init, InitAny, TidyTail

LEMMA TidyEdit ==
  ASSUME IInv, IInv', JumpToLayoutSuccessor \/ JumpElsewhere \/ SwapBranches
  PROVE  TidyTail'
<1>1. /\ block \in Seq(Instructions) /\ block' \in Seq(Instructions)
      /\ At \in 1..Len(block) /\ pc = "scan"
  BY CurrentInstruction
  DEF IInv, TypeOK, JumpToLayoutSuccessor, JumpElsewhere, SwapBranches, Turn
<1>2. CASE JumpToLayoutSuccessor
  <2>1. I' = Len(block') + 1 /\ TBB' = None /\ FBB' = None
    BY <1>2 DEF JumpToLayoutSuccessor, Restart
  <2>. QED
    BY <1>1, <2>1 DEF TidyTail
<1>3. CASE JumpElsewhere
  <2>1. /\ block' = SubSeq(block, 1, At) /\ I' = At /\ unCondBr' = At /\ FBB' = None
    BY <1>3 DEF JumpElsewhere, Continue
  <2>2. Len(block') = At
    BY <1>1, <2>1, Truncated
  <2>. QED
    BY <1>1, <2>1, <2>2 DEF TidyTail
<1>4. CASE SwapBranches
  <2>1. I' = Len(block') + 1 /\ pc' = pc /\ TBB' = TBB /\ allowModify /\ unCondBr # 0 /\ Cond = << >>
    BY <1>4 DEF SwapBranches, SwapsBranches, Restart, outputs
  <2>2. TBB # None
    <3>1. /\ unCondBr \in 1..Len(block) /\ block[unCondBr].op = "RJMPk"
          /\ TBB = block[unCondBr].target
      BY <1>1, <2>1 DEF IInv, LoopInvariant, RememberedJump, TypeOK
    <3>. QED
      BY <1>1, <3>1, BranchTarget, BlocksAssumption
  <2>. QED
    BY <1>1, <2>1, <2>2 DEF TidyTail, Stale
<1>. QED
  BY <1>2, <1>3, <1>4

LEMMA TidyStep ==
  ASSUME IInv, IInv', TidyTail, [Next]_vars
  PROVE  TidyTail'
<1>1. CASE JumpToLayoutSuccessor \/ JumpElsewhere \/ SwapBranches
  BY <1>1, TidyEdit
<1>2. CASE SkipDebugValue \/ RepeatedConditional \/ FirstConditional
  <2>1. /\ Turn /\ Cur.op # "RJMPk" /\ I' = At /\ block' = block /\ unCondBr' = unCondBr
        /\ allowModify' = allowModify /\ next' = next /\ pc = "scan" /\ pc' = pc
    BY <1>2 DEF SkipDebugValue, RepeatedConditional, FirstConditional, Continue, inputs, Turn,
       CondBranches
  <2>2. ~Stale
    BY <2>1, FreshTurn
  <2>3. At \in 1..Len(block) /\ At + 1 = I /\ block \in Seq(Instructions)
    BY <2>1, CurrentInstruction DEF IInv, TypeOK
  <2>4. ASSUME allowModify, NEW k \in At..Len(block), block[k].op = "RJMPk"
        PROVE  k = unCondBr
    <3>1. k \in I..Len(block)
      BY <2>1, <2>3, <2>4 DEF Cur
    <3>. QED
      BY <2>2, <2>4, <3>1 DEF TidyTail
  <2>5. CASE SkipDebugValue \/ RepeatedConditional
    <3>1. TBB' = TBB /\ FBB' = FBB /\ Cond' = Cond
      BY <2>5 DEF SkipDebugValue, RepeatedConditional, outputs
    <3>. QED
      BY <2>1, <2>2, <2>4, <3>1 DEF TidyTail
  <2>6. CASE FirstConditional
    <3>1. /\ TBB' = Cur.target /\ FBB' = TBB /\ Cond' # << >> /\ Cond = << >>
          /\ ~SwapsBranches
      BY <2>6 DEF FirstConditional
    <3>2. ASSUME allowModify, TBB # None PROVE TBB # next /\ Cur.target # next
      <4>1. unCondBr # 0
        BY <2>2, <3>1, <3>2 DEF TidyTail
      <4>2. Cur.target # next
        BY <3>1, <3>2, <4>1 DEF SwapsBranches
      <4>3. TBB # next
        BY <3>1, <3>2, <4>1 DEF IInv, LoopInvariant, RememberedJump
      <4>. QED
        BY <4>2, <4>3
    <3>. QED
      BY <2>1, <2>4, <3>1, <3>2 DEF TidyTail
  <2>. QED
    BY <1>2, <2>5, <2>6
<1>3. CASE JumpUnmodified
  BY <1>3 DEF JumpUnmodified, Continue, inputs, TidyTail
<1>4. CASE ReachBegin \/ StopAtNonTerminator \/ GiveUpOnTerminator \/ GiveUpOnConditional
  <2>1. /\ pc = "scan" /\ I' = I /\ block' = block /\ unCondBr' = unCondBr /\ TBB' = TBB
        /\ FBB' = FBB /\ Cond' = Cond /\ allowModify' = allowModify /\ next' = next
        /\ I = 1 \/ (Turn /\ Cur.op # "RJMPk")
    BY <1>4 DEF ReachBegin, StopAtNonTerminator, GiveUpOnTerminator, GiveUpOnConditional,
       ReturnWith, inputs, outputs, Turn, CondBranches
  <2>2. ~Stale
    <3>1. ASSUME I = 1, Stale PROVE FALSE
      BY <3>1 DEF IInv, LoopInvariant, StaleEndsInJump, Stale, TypeOK
    <3>. QED
      BY <2>1, <3>1, FreshTurn
  <2>. QED
    BY <2>1, <2>2 DEF TidyTail
<1>5. CASE Returned \/ UNCHANGED vars
  BY <1>5 DEF Returned, vars, inputs, outputs, TidyTail, Stale
<1>. QED
  BY <1>1, <1>2, <1>3, <1>4, <1>5 DEF Next, Analyze

(***************************************************************************)
(* A modifying analysis that succeeds hands back a tidy block: no jump to  *)
(* the layout successor, nothing behind a jump, no two-way branch with a   *)
(* side that could fall through.                                           *)
(***************************************************************************)
THEOREM ModificationTidies == Spec => []ModifiedBlockIsTidy
<1>1. ASSUME IInv, TidyTail PROVE ModifiedBlockIsTidy
  <2> SUFFICES ASSUME pc = "success", allowModify PROVE ModifiedBlockIsTidy
    BY DEF ModifiedBlockIsTidy
  <2>1. ~Stale /\ block \in Seq(Instructions) /\ I \in 1..(Len(block) + 1)
    BY <1>1 DEF Stale, IInv, TypeOK
  <2>2. ASSUME NEW k \in 1..Len(block), block[k].op = "RJMPk"
        PROVE  k = Len(block) /\ block[k].target # next
    <3>1. k \in I..Len(block)
      <4>1. ASSUME k < I PROVE FALSE
        <5>1. I - 1 \in 1..Len(block) /\ block[I - 1].op = "BODY"
          BY <1>1, <2>1, <4>1 DEF IInv, LoopInvariant
        <5>2. I - 1 < k
          BY <1>1, <2>2, <5>1, NoBodyBehind DEF IsTerminator
        <5>. QED
          BY <2>1, <4>1, <5>2
      <4>. QED
        BY <2>1, <4>1
    <3>2. k = unCondBr
      BY <1>1, <2>1, <2>2, <3>1 DEF TidyTail
    <3>3. unCondBr # 0
      BY <3>2, <2>2
    <3>. QED
      BY <1>1, <3>2, <3>3 DEF IInv, LoopInvariant, RememberedJump
  <2>. QED
    BY <1>1, <2>1, <2>2 DEF TidyTail, ModifiedBlockIsTidy
<1>. QED
  BY <1>1, InitTidy, TidyStep, InvariantHolds, PTL DEF Spec
=============================================================================
