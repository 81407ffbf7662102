------------------------- MODULE BranchRelaxProofs -------------------------
(***************************************************************************)
(* BranchRelaxation, for every function, every number of blocks and every  *)
(* range of the branches: first what it does to control, whatever it       *)
(* estimates the distances to be; then what the estimates are worth.       *)
(***************************************************************************)
EXTENDS BranchRelax, SequenceFacts
----------------------------------------------------------------------------
\* The fixups build blocks of these two forms.
TwoWay(op, t, f) == <<Instr(op, t), Instr("RJMPk", f)>>

\* Where a conditional branch, followed by a jump or by nothing, goes.
LEMMA BranchGoes ==
  ASSUME NEW b, b \in Seq(Instructions), Relaxable(b), b # << >>, b[1].op \in CondBranches,
         NEW v, NEW next, NEW dest
  PROVE  Goes(b, v, next, dest) <=>
           dest = IF TakenOn[b[1].op] \in v THEN b[1].target
                  ELSE IF Len(b) = 2 THEN b[2].target ELSE next
<1>1. Leaves(b[1], v) <=> TakenOn[b[1].op] \in v
  BY DEF Leaves, CondBranches
<1>2. CASE Len(b) = 1
  BY <1>1, <1>2 DEF Goes, GoesFrom
<1>3. CASE Len(b) = 2
  <2>1. Leaves(b[2], v)
    BY <1>3 DEF Relaxable, Leaves, CondBranches
  <2>2. \A k \in 1..2 : k = 1 \/ k = 2
    OBVIOUS
  <2>3. /\ \A j \in 1..0 : FALSE
        /\ \A j \in 1..1 : j = 1
    OBVIOUS
  <2>4. Goes(b, v, next, dest) <=>
          \/ Leaves(b[1], v) /\ b[1].target = dest
          \/ ~Leaves(b[1], v) /\ b[2].target = dest
    <3>1. Goes(b, v, next, dest) <=>
            \E k \in 1..2 : /\ Leaves(b[k], v) /\ b[k].target = dest
                            /\ \A j \in 1..(k-1) : ~Leaves(b[j], v)
      BY <1>3, <2>1 DEF Goes, GoesFrom
    <3>. QED
      BY <2>1, <2>2, <2>3, <3>1
  <2>. QED
    BY <1>1, <1>3, <2>4
<1>. QED
  BY <1>2, <1>3 DEF Relaxable

\* A jump alone goes to its target.
LEMMA JumpGoes ==
  ASSUME NEW t, NEW v, NEW next, NEW dest
  PROVE  Goes(<<Instr("RJMPk", t)>>, v, next, dest) <=> dest = t
BY DEF Goes, GoesFrom, Leaves, Instr

\* The branch of the reversed condition is taken exactly when the other is not.
LEMMA ReversedBranch ==
  ASSUME NEW op \in CondBranches
  PROVE  LET rev == BrCond[OppositeCondition[CondFromBranchOpc[op]]]
         IN  /\ rev \in CondBranches
             /\ \A v \in Valuations : TakenOn[rev] \in v <=> TakenOn[op] \notin v
<1> DEFINE opp == OppositeCondition[CondFromBranchOpc[op]]
<1>1. TakenOn[op] = CondFromBranchOpc[op] /\ CondFromBranchOpc[op] \in CondCodes
  BY DEF CondBranches, CondCodes, CondFromBranchOpc, TakenOn
<1>2. opp \in CondCodes
  BY <1>1 DEF CondCodes, OppositeCondition
<1>3. \A c \in CondCodes : BrCond[c] \in CondBranches
  BY DEF CondCodes, CondBranches, BrCond
<1>4. \A c \in CondCodes : TakenOn[BrCond[c]] = c
  BY <1>3 DEF CondCodes, CondBranches, BrCond, TakenOn
<1>5. <<TakenOn[op], opp>> \in Opposites \/ <<opp, TakenOn[op]>> \in Opposites
  BY <1>1 DEF CondBranches, CondCodes, CondFromBranchOpc, TakenOn, OppositeCondition, Opposites
<1>6. ASSUME NEW v \in Valuations PROVE opp \in v <=> TakenOn[op] \notin v
  BY <1>5 DEF Valuations
<1>. QED
  BY <1>2, <1>3, <1>4, <1>6

\* What a fixup puts in place of the block's branches.
LEMMA Reversal ==
  ASSUME HasCond, code[I] \in Seq(Instructions), NEW t, NEW f, f # None
  PROVE  LET rev == BrCond[OppositeCondition[CondFromBranchOpc[code[I][1].op]]]
         IN  InsertBranch(<< >>, t, f, ReverseBranchCondition(Cond)) = TwoWay(rev, t, f)
<1> DEFINE opp == OppositeCondition[CondFromBranchOpc[code[I][1].op]]
<1>1. ReverseBranchCondition(Cond) = <<opp>> /\ <<opp>> # << >> /\ <<opp>>[1] = opp
  BY DEF ReverseBranchCondition, Cond
<1>2. InsertBranch(<< >>, t, f, <<opp>>)
        = Append(<< >>, Instr(BrCond[opp], t)) \o <<Instr("RJMPk", f)>>
  BY <1>1 DEF InsertBranch
<1>3. ASSUME NEW x, NEW y PROVE Append(<< >>, x) \o <<y>> = <<x, y>>
  <2>1. Append(<< >>, x) = <<x>> /\ <<x>> \in Seq({x, y}) /\ <<y>> \in Seq({x, y})
    OBVIOUS
  <2>2. <<x>> \o <<y>> \in Seq({x, y}) /\ Len(<<x>> \o <<y>>) = 2
    BY <2>1
  <2>3. (<<x>> \o <<y>>)[1] = x /\ (<<x>> \o <<y>>)[2] = y
    BY <2>1
  <2>4. <<x, y>> \in Seq({x, y}) /\ Len(<<x, y>>) = 2
    OBVIOUS
  <2>5. \A k \in 1..2 : (<<x>> \o <<y>>)[k] = <<x, y>>[k]
    <3>1. \A k \in 1..2 : k = 1 \/ k = 2
      OBVIOUS
    <3>. QED
      BY <2>3, <3>1
  <2>. QED
    BY <2>1, <2>2, <2>4, <2>5, SeqEqual
<1>. QED
  BY <1>1, <1>2, <1>3 DEF TwoWay

LEMMA TwoWayShape ==
  ASSUME NEW op \in CondBranches, NEW t \in Nat, NEW f \in Nat
  PROVE  /\ TwoWay(op, t, f) \in Seq(Instructions) /\ Relaxable(TwoWay(op, t, f))
         /\ Len(TwoWay(op, t, f)) = 2 /\ TwoWay(op, t, f)[1].op = op
         /\ TwoWay(op, t, f)[1].target = t /\ TwoWay(op, t, f)[2].target = f
         /\ TwoWay(op, t, f)[2].op = "RJMPk" /\ TwoWay(op, t, f) # << >>
<1>1. Instr(op, t) \in Instructions /\ Instr("RJMPk", f) \in Instructions
  BY DEF Instr, Instructions
<1>. QED
  BY <1>1 DEF TwoWay, Relaxable, Instr

LEMMA TargetsAreBlocks ==
  ASSUME NEW instr \in Instructions
  PROVE  /\ instr.op \in CondBranches \cup {"RJMPk"} => instr.target \in Nat
         /\ instr.op = "RET" => instr.target = Return
BY DEF Instructions, Instr, CondBranches
----------------------------------------------------------------------------
(***************************************************************************)
(* The shape of the function: every block can be relaxed, its branches     *)
(* name blocks, and the last block does not fall off the end.              *)
(***************************************************************************)
Shape ==
  /\ numBlocks \in Nat /\ numBlocks >= NumBlocks
  /\ code \in [Numbers -> Seq(Instructions)]
  /\ succ \in [Numbers -> Numbers \cup {None}]
  /\ I \in Numbers \cup {None}
  /\ \A n \in Numbers :
       /\ Relaxable(code[n])
       /\ \A k \in 1..Len(code[n]) : code[n][k].target \in Numbers \cup {Return}
       /\ code[n] = << >> \/ code[n][Len(code[n])].op \in CondBranches => succ[n] # None

\* A new block holds a jump and nothing else.
NewBlocksJump ==
  \A n \in Numbers \ Original : \E t \in Numbers : code[n] = <<Instr("RJMPk", t)>>

\* goal takes every block to the original block control ends up in from it
\* when new blocks are followed, and under goal nothing has changed.
Explains(goal) ==
  /\ \A n \in Original \cup {Return} : goal[n] = n
  /\ \A n \in Numbers \ Original : goal[n] = goal[code[n][1].target]
  /\ \A n \in Original, v \in Valuations, dest \in Numbers \cup {Return} :
       Goes(code[n], v, succ[n], dest) => Goes(code0[n], v, FirstSucc(n), goal[dest])

(***************************************************************************)
(* Control is kept, new blocks followed as far as they lead.               *)
(***************************************************************************)
ControlKeptThroughNewBlocks ==
  \E goal \in [Numbers \cup {Return} -> Original \cup {Return}] : Explains(goal)

RInv == Shape /\ NewBlocksJump /\ ControlKeptThroughNewBlocks

LEMMA InitRelax == Init => RInv
<1> SUFFICES ASSUME Init PROVE RInv
  OBVIOUS
<1>1. PICK f \in InitFunctions : code0 = f.code /\ code = f.code /\ body = f.body
  BY DEF Init
<1>2. /\ numBlocks = NumBlocks /\ I = 0
      /\ succ = [n \in Original |-> IF n = NumBlocks - 1 THEN None ELSE n + 1]
      /\ NumBlocks \in Nat \ {0} /\ Numbers = Original /\ Original \subseteq Nat
  BY RelaxAssumption DEF Init, Numbers, Original
<1>3. /\ f.code \in [Original -> Seq(Instructions)]
      /\ \A n \in Original :
            /\ Relaxable(f.code[n])
            /\ \A k \in 1..Len(f.code[n]) : f.code[n][k].target \in Original \cup {Return}
            /\ n = NumBlocks - 1 =>
                 f.code[n] # << >> /\ f.code[n][Len(f.code[n])].op \notin CondBranches
  BY RelaxAssumption
<1>4. None \notin Nat
  BY RelaxAssumption
<1>5. succ \in [Numbers -> Numbers \cup {None}]
  BY <1>2 DEF Original
<1>6. \A n \in Numbers : n # NumBlocks - 1 => succ[n] # None
  BY <1>2, <1>4 DEF Original
<1>7. Shape
  BY <1>1, <1>2, <1>3, <1>5, <1>6 DEF Shape, Original
<1>8. NewBlocksJump
  BY <1>2 DEF NewBlocksJump
<1>9. ControlKeptThroughNewBlocks
  <2> DEFINE goal == [n \in Numbers \cup {Return} |-> n]
  <2>1. goal \in [Numbers \cup {Return} -> Original \cup {Return}]
    BY <1>2
  <2>2. \A n \in Original : succ[n] = FirstSucc(n)
    BY <1>2 DEF FirstSucc
  <2>3. Explains(goal)
    BY <1>1, <1>2, <2>2 DEF Explains
  <2>. QED
    BY <2>1, <2>3 DEF ControlKeptThroughNewBlocks
<1>. QED
  BY <1>7, <1>8, <1>9 DEF RInv

\* The block a fixup is about.
LEMMA FixupBlock ==
  ASSUME RInv, Fixup
  PROVE  /\ I \in Original /\ I \in Numbers /\ code[I] \in Seq(Instructions) /\ Relaxable(code[I])
         /\ HasCond /\ code[I] # << >> /\ code[I][1].op \in CondBranches /\ TBB \in Numbers
         /\ Len(code[I]) \in {1, 2} /\ Numbers \subseteq Nat /\ None \notin Numbers
         /\ FBB # None => FBB \in Numbers /\ Len(code[I]) = 2
         /\ FBB = None => succ[I] \in Numbers /\ Len(code[I]) = 1
<1>1. HasCond /\ code[I] # << >> /\ code[I][1].op \in CondBranches /\ I # None
  BY DEF Fixup, HasCond, Looking
<1>2. I \in Numbers /\ code[I] \in Seq(Instructions) /\ Relaxable(code[I])
  BY <1>1 DEF RInv, Shape
<1>3. I \in Original
  <2>1. ASSUME I \notin Original PROVE FALSE
    <3>1. PICK t \in Numbers : code[I] = <<Instr("RJMPk", t)>>
      BY <1>2, <2>1 DEF RInv, NewBlocksJump
    <3>2. code[I][1].op = "RJMPk"
      BY <3>1 DEF Instr
    <3>. QED
      BY <1>1, <3>2 DEF CondBranches
  <2>. QED
    BY <2>1
<1>4. Len(code[I]) \in {1, 2}
  BY <1>1, <1>2 DEF Relaxable
<1>5. Numbers \subseteq Nat /\ None \notin Numbers /\ None # Return /\ Return \notin Nat
  BY RelaxAssumption DEF RInv, Shape, Numbers
<1>6. \A k \in 1..Len(code[I]) : code[I][k].target \in Numbers \cup {Return} /\ code[I][k] \in Instructions
  BY <1>2 DEF RInv, Shape
<1>7. TBB \in Numbers
  BY <1>1, <1>4, <1>5, <1>6, TargetsAreBlocks DEF TBB
<1>8. ASSUME Len(code[I]) = 2 PROVE FBB \in Numbers
  <2>1. code[I][2].op = "RJMPk"
    BY <1>2, <1>8 DEF Relaxable
  <2>. QED
    BY <1>5, <1>6, <1>8, <2>1, TargetsAreBlocks DEF FBB
<1>9. Len(code[I]) = 1 => succ[I] \in Numbers
  BY <1>1, <1>2 DEF RInv, Shape
<1>. QED
  BY <1>1, <1>2, <1>3, <1>4, <1>5, <1>7, <1>8, <1>9 DEF FBB
----------------------------------------------------------------------------
(***************************************************************************)
(* A fixup that puts no block in: the block gets a two-way branch with the *)
(* destinations it had, exchanged, and the reversed condition.             *)
(***************************************************************************)
LEMMA InPlaceFixup ==
  ASSUME RInv, Fixup, numBlocks' = numBlocks, succ' = succ, I' = I, code0' = code0,
         code' = [code EXCEPT ![I] =
                    InsertBranch(<< >>, IF FBB = None THEN succ[I] ELSE FBB, TBB,
                                 ReverseBranchCondition(Cond))]
  PROVE  RInv'
<1> DEFINE near == IF FBB = None THEN succ[I] ELSE FBB
           rev == BrCond[OppositeCondition[CondFromBranchOpc[code[I][1].op]]]
           new == TwoWay(rev, near, TBB)
<1>1. /\ I \in Original /\ I \in Numbers /\ code[I] \in Seq(Instructions) /\ Relaxable(code[I])
      /\ HasCond /\ code[I] # << >> /\ code[I][1].op \in CondBranches /\ TBB \in Numbers
      /\ Len(code[I]) \in {1, 2} /\ Numbers \subseteq Nat /\ None \notin Numbers
      /\ near \in Numbers
      /\ FBB # None => Len(code[I]) = 2
      /\ FBB = None => Len(code[I]) = 1
  BY FixupBlock
<1>2. rev \in CondBranches /\ \A v \in Valuations : TakenOn[rev] \in v <=> TakenOn[code[I][1].op] \notin v
  BY <1>1, ReversedBranch
<1>3. code' = [code EXCEPT ![I] = new]
  <2>1. TBB # None
    BY <1>1
  <2>. QED
    BY <1>1, <2>1, Reversal
<1>. HIDE DEF near, rev
<1>4. /\ new \in Seq(Instructions) /\ Relaxable(new) /\ Len(new) = 2 /\ new[1].op = rev
      /\ new[1].target = near /\ new[2].target = TBB /\ new[2].op = "RJMPk"
      /\ new # << >>
  <2>1. near \in Nat /\ TBB \in Nat
    BY <1>1
  <2>. QED
    BY <1>2, <2>1, TwoWayShape
<1>. HIDE DEF new
<1>5. Numbers' = Numbers
  BY DEF Numbers
<1>6. code \in [Numbers -> Seq(Instructions)]
  BY DEF RInv, Shape
<1>7. code'[I] = new /\ \A n \in Numbers : n # I => code'[n] = code[n]
  BY <1>1, <1>3, <1>6
<1>8. Shape'
  <2>1. code' \in [Numbers -> Seq(Instructions)]
    BY <1>3, <1>4, <1>6
  <2>2. new # << >> /\ new[Len(new)].op \notin CondBranches
    BY <1>4 DEF CondBranches
  <2>3. \A k \in 1..Len(new) : new[k].target \in Numbers \cup {Return}
    BY <1>1, <1>4
  <2>4. ASSUME NEW n \in Numbers
        PROVE  /\ Relaxable(code'[n])
               /\ \A k \in 1..Len(code'[n]) : code'[n][k].target \in Numbers \cup {Return}
               /\ code'[n] = << >> \/ code'[n][Len(code'[n])].op \in CondBranches => succ[n] # None
    <3>1. CASE n = I
      BY <1>4, <1>7, <2>2, <2>3, <3>1
    <3>2. CASE n # I
      BY <1>7, <3>2 DEF RInv, Shape
    <3>. QED
      BY <3>1, <3>2
  <2>. QED
    BY <1>5, <2>1, <2>4 DEF RInv, Shape, Relaxable
<1>9. NewBlocksJump'
  BY <1>1, <1>5, <1>7 DEF RInv, NewBlocksJump
<1>10. PICK goal \in [Numbers \cup {Return} -> Original \cup {Return}] : Explains(goal)
  BY DEF RInv, ControlKeptThroughNewBlocks
<1>11. Explains(goal)'
  <2>1. ASSUME NEW v \in Valuations, NEW dest \in Numbers \cup {Return},
               Goes(new, v, succ[I], dest)
        PROVE  Goes(code0[I], v, FirstSucc(I), goal[dest])
    <3>1. dest = IF TakenOn[rev] \in v THEN near ELSE TBB
      BY <1>2, <1>4, <2>1, BranchGoes
    <3>2. Goes(code[I], v, succ[I], dest)
      BY <1>1, <1>2, <3>1, BranchGoes DEF TBB, FBB, near
    <3>. QED
      BY <1>1, <1>10, <3>2 DEF Explains
  <2>2. ASSUME NEW n \in Original, NEW v \in Valuations, NEW dest \in Numbers \cup {Return},
               Goes(code'[n], v, succ[n], dest)
        PROVE  Goes(code0[n], v, FirstSucc(n), goal[dest])
    <3>1. Original \subseteq Numbers
      BY RelaxAssumption DEF RInv, Shape, Original, Numbers
    <3>. QED
      BY <1>7, <1>10, <2>1, <2>2, <3>1 DEF Explains
  <2>3. \A n \in Numbers \ Original : goal[n] = goal[code'[n][1].target]
    BY <1>1, <1>7, <1>10 DEF Explains
  <2>4. \A n \in Original \cup {Return} : goal[n] = n
    BY <1>10 DEF Explains
  <2>. QED
    BY <1>5, <2>2, <2>3, <2>4 DEF Explains, FirstSucc
<1>12. ControlKeptThroughNewBlocks'
  BY <1>5, <1>10, <1>11 DEF ControlKeptThroughNewBlocks
<1>. QED
  BY <1>8, <1>9, <1>12 DEF RInv
\* Control stays in the function.
LEMMA StaysInside ==
  ASSUME Shape, NEW n \in Numbers, NEW v, NEW dest, Goes(code[n], v, succ[n], dest)
  PROVE  dest \in Numbers \cup {Return, None}
BY DEF Shape, Goes, GoesFrom

(***************************************************************************)
(* A fixup with a new block: a goal for it is the goal of the block its    *)
(* jump goes to.                                                           *)
(***************************************************************************)
LEMMA NewBlockFixup ==
  ASSUME RInv, BranchToNewBlock
  PROVE  RInv'
<1> DEFINE rev == BrCond[OppositeCondition[CondFromBranchOpc[code[I][1].op]]]
           new == TwoWay(rev, numBlocks, TBB)
<1>1. /\ I \in Original /\ I \in Numbers /\ code[I] \in Seq(Instructions) /\ Relaxable(code[I])
      /\ HasCond /\ code[I] # << >> /\ code[I][1].op \in CondBranches /\ TBB \in Numbers
      /\ Numbers \subseteq Nat /\ None \notin Numbers
      /\ FBB \in Numbers /\ Len(code[I]) = 2
  BY FixupBlock DEF BranchToNewBlock
<1>2. rev \in CondBranches /\ \A v \in Valuations : TakenOn[rev] \in v <=> TakenOn[code[I][1].op] \notin v
  BY <1>1, ReversedBranch
<1>3. /\ numBlocks' = numBlocks + 1 /\ I' = I /\ code0' = code0
      /\ numBlocks \in Nat /\ Numbers = 0..(numBlocks - 1) /\ Numbers' = 0..numBlocks
      /\ numBlocks \notin Numbers /\ Numbers \subseteq Numbers' /\ numBlocks \in Numbers'
      /\ \A n \in Numbers' : n = numBlocks \/ n \in Numbers
      /\ Original \subseteq Numbers /\ None \notin Numbers' /\ Return \notin Numbers'
  BY RelaxAssumption DEF BranchToNewBlock, Fixed, RInv, Shape, Numbers, Original
<1>4. /\ code' \in [Numbers' -> {code'[n] : n \in Numbers'}]
      /\ code'[numBlocks] = <<Instr("RJMPk", FBB)>> /\ code'[I] = new
      /\ \A n \in Numbers : n # I => code'[n] = code[n]
  <2>1. code' = [n \in 0..numBlocks |->
                   CASE n = numBlocks -> InsertBranch(<< >>, FBB, None, << >>)
                     [] n = I -> InsertBranch(<< >>, numBlocks, TBB, ReverseBranchCondition(Cond))
                     [] OTHER -> code[n]]
    BY DEF BranchToNewBlock
  <2>2. InsertBranch(<< >>, FBB, None, << >>) = <<Instr("RJMPk", FBB)>>
    <3>1. \A x : Append(<< >>, x) = <<x>>
      OBVIOUS
    <3>. QED
      BY <3>1 DEF InsertBranch
  <2>3. InsertBranch(<< >>, numBlocks, TBB, ReverseBranchCondition(Cond)) = new
    <3>1. TBB # None
      BY <1>1
    <3>. QED
      BY <1>1, <3>1, Reversal
  <2>. QED
    BY <1>1, <1>3, <2>1, <2>2, <2>3
<1>5. /\ succ' \in [Numbers' -> Numbers' \cup {None}]
      /\ succ'[numBlocks] = succ[I] /\ succ'[I] = numBlocks
      /\ \A n \in Numbers : n # I => succ'[n] = succ[n]
  <2>1. succ' = [n \in 0..numBlocks |->
                   CASE n = numBlocks -> succ[I] [] n = I -> numBlocks [] OTHER -> succ[n]]
    BY DEF BranchToNewBlock
  <2>2. succ \in [Numbers -> Numbers \cup {None}]
    BY DEF RInv, Shape
  <2>. QED
    BY <1>1, <1>3, <2>1, <2>2
<1>. HIDE DEF rev
<1>6. /\ new \in Seq(Instructions) /\ Relaxable(new) /\ Len(new) = 2 /\ new[1].op = rev
      /\ new[1].target = numBlocks /\ new[2].target = TBB /\ new[2].op = "RJMPk"
      /\ new # << >>
  <2>1. numBlocks \in Nat /\ TBB \in Nat
    BY <1>1, <1>3
  <2>. QED
    BY <1>2, <2>1, TwoWayShape
<1>. HIDE DEF new
<1> DEFINE jump == <<Instr("RJMPk", FBB)>>
<1>7. /\ jump \in Seq(Instructions) /\ Relaxable(jump) /\ Len(jump) = 1
      /\ jump[1].target = FBB /\ jump[1].op = "RJMPk" /\ jump # << >>
  <2>1. Instr("RJMPk", FBB) \in Instructions
    BY <1>1 DEF Instr, Instructions
  <2>. QED
    BY <2>1 DEF Instr, Relaxable
<1>. HIDE DEF jump
<1>8. ASSUME NEW n \in Numbers'
      PROVE  /\ code'[n] \in Seq(Instructions) /\ Relaxable(code'[n])
             /\ \A k \in 1..Len(code'[n]) : code'[n][k].target \in Numbers' \cup {Return}
             /\ code'[n] = << >> \/ code'[n][Len(code'[n])].op \in CondBranches => succ'[n] # None
  <2>1. CASE n = I
    <3>1. code'[n] = new
      BY <1>4, <2>1
    <3>2. new[Len(new)].op \notin CondBranches
      BY <1>6 DEF CondBranches
    <3>3. \A k \in 1..Len(new) : new[k].target \in Numbers' \cup {Return}
      BY <1>1, <1>3, <1>6
    <3>. QED
      BY <1>6, <3>1, <3>2, <3>3
  <2>2. CASE n = numBlocks
    <3>1. code'[n] = jump
      BY <1>4, <2>2 DEF jump
    <3>2. jump[Len(jump)].op \notin CondBranches
      BY <1>7 DEF CondBranches
    <3>3. \A k \in 1..Len(jump) : jump[k].target \in Numbers' \cup {Return}
      BY <1>1, <1>3, <1>7
    <3>. QED
      BY <1>7, <3>1, <3>2, <3>3
  <2>3. CASE n \in Numbers /\ n # I
    BY <1>3, <1>4, <1>5, <2>3 DEF RInv, Shape
  <2>. QED
    BY <1>3, <2>1, <2>2, <2>3
<1>9. Shape'
  <2>1. code' \in [Numbers' -> Seq(Instructions)]
    BY <1>4, <1>8
  <2>2. numBlocks' \in Nat /\ numBlocks' >= NumBlocks /\ I' \in Numbers' \cup {None}
    BY <1>1, <1>3, RelaxAssumption DEF RInv, Shape
  <2>. QED
    BY <1>5, <1>8, <2>1, <2>2 DEF Shape, Relaxable
<1>10. NewBlocksJump'
  <2> SUFFICES ASSUME NEW n \in Numbers' \ Original
               PROVE  \E t \in Numbers' : code'[n] = <<Instr("RJMPk", t)>>
    BY DEF NewBlocksJump
  <2>1. CASE n = numBlocks
    BY <1>1, <1>3, <1>4, <2>1
  <2>2. CASE n \in Numbers
    BY <1>1, <1>3, <1>4, <2>2, ZenonT(30) DEF RInv, NewBlocksJump
  <2>. QED
    BY <1>3, <2>1, <2>2
<1>11. PICK goal \in [Numbers \cup {Return} -> Original \cup {Return}] : Explains(goal)
  BY DEF RInv, ControlKeptThroughNewBlocks
<1>12. PICK goal2 \in [Numbers' \cup {Return} -> Original \cup {Return}] :
         goal2[numBlocks] = goal[FBB] /\ \A n \in Numbers \cup {Return} : goal2[n] = goal[n]
  <2> DEFINE g == [n \in Numbers' \cup {Return} |-> IF n = numBlocks THEN goal[FBB] ELSE goal[n]]
  <2>1. /\ g \in [Numbers' \cup {Return} -> Original \cup {Return}]
        /\ g[numBlocks] = goal[FBB] /\ \A n \in Numbers \cup {Return} : g[n] = goal[n]
    BY <1>1, <1>3, <1>11
  <2>. QED
    BY <2>1
<1>13. ASSUME NEW n \in Original, NEW v \in Valuations, NEW dest \in Numbers' \cup {Return},
              Goes(code'[n], v, succ'[n], dest)
       PROVE  Goes(code0[n], v, FirstSucc(n), goal2[dest])
  <2>1. CASE n = I
    <3>1. dest = IF TakenOn[rev] \in v THEN numBlocks ELSE TBB
      BY <1>2, <1>4, <1>6, <1>13, <2>1, BranchGoes
    <3>2. ASSUME NEW d \in Numbers, d = IF TakenOn[rev] \in v THEN FBB ELSE TBB
          PROVE  Goes(code0[I], v, FirstSucc(I), goal[d])
      <4>1. Goes(code[I], v, succ[I], d)
        BY <1>1, <1>2, <3>2, BranchGoes DEF TBB, FBB
      <4>. QED
        BY <1>1, <1>11, <4>1 DEF Explains
    <3>3. CASE TakenOn[rev] \in v
      BY <1>1, <1>12, <2>1, <3>1, <3>2, <3>3
    <3>4. CASE TakenOn[rev] \notin v
      BY <1>1, <1>12, <2>1, <3>1, <3>2, <3>4
    <3>. QED
      BY <3>3, <3>4
  <2>2. CASE n # I
    <3>1. n \in Numbers /\ code'[n] = code[n] /\ succ'[n] = succ[n]
      BY <1>3, <1>4, <1>5, <2>2
    <3>2. dest # numBlocks
      BY <1>3, <1>13, <3>1, StaysInside DEF RInv
    <3>. QED
      BY <1>3, <1>11, <1>12, <1>13, <3>1, <3>2 DEF Explains
  <2>. QED
    BY <2>1, <2>2
<1>14. ASSUME NEW n \in Numbers' \ Original
       PROVE  goal2[n] = goal2[code'[n][1].target]
  <2>1. CASE n = numBlocks
    <3>1. code'[n] = jump
      BY <1>4, <2>1 DEF jump
    <3>. QED
      BY <1>1, <1>7, <1>12, <2>1, <3>1
  <2>2. CASE n \in Numbers
    <3>1. PICK t \in Numbers : code[n] = <<Instr("RJMPk", t)>>
      BY <2>2 DEF RInv, NewBlocksJump
    <3>2. code'[n] = code[n] /\ code[n][1].target = t
      BY <1>1, <1>4, <2>2, <3>1 DEF Instr
    <3>. QED
      BY <1>11, <1>12, <2>2, <3>2 DEF Explains
  <2>. QED
    BY <1>3, <2>1, <2>2
<1>15. \A n \in Original \cup {Return} : goal2[n] = n
  BY <1>3, <1>11, <1>12 DEF Explains
<1>16. ControlKeptThroughNewBlocks'
  <2>1. Explains(goal2)'
    BY <1>3, <1>13, <1>14, <1>15 DEF Explains, FirstSucc
  <2>. QED
    BY <1>12, <2>1 DEF ControlKeptThroughNewBlocks
<1>. QED
  BY <1>9, <1>10, <1>16 DEF RInv
----------------------------------------------------------------------------
LEMMA RelaxStep ==
  ASSUME RInv, [Next]_vars
  PROVE  RInv'
<1>1. CASE SwapDestinations
  BY <1>1, InPlaceFixup DEF SwapDestinations, Fixed
<1>2. CASE BranchOverJump
  BY <1>2, InPlaceFixup DEF BranchOverJump, Fixed
<1>3. CASE BranchToNewBlock
  BY <1>3, NewBlockFixup
<1>4. CASE JumpTooFar \/ JumpIsFine \/ Advance \/ AnotherPass \/ Finish \/ Ended \/ UNCHANGED vars
  <2>1. UNCHANGED <<code0, function>>
    BY <1>4 DEF JumpTooFar, JumpIsFine, Advance, AnotherPass, Finish, Ended, vars
  <2>2. I' \in Numbers \cup {None}
    <3>1. 0 \in Numbers
      BY RelaxAssumption DEF RInv, Shape, Numbers
    <3>2. CASE Advance
      BY <3>2 DEF Advance, Looking, RInv, Shape
    <3>3. CASE ~Advance
      BY <1>4, <3>1, <3>3
      DEF JumpTooFar, JumpIsFine, AnotherPass, Finish, Ended, vars, RInv, Shape
    <3>. QED
      BY <3>2, <3>3
  <2>. QED
    BY <2>1, <2>2 DEF RInv, Shape, NewBlocksJump, ControlKeptThroughNewBlocks, Explains,
       function, Numbers, FirstSucc
<1>. QED
  BY <1>1, <1>2, <1>3, <1>4 DEF Next, Relax

(***************************************************************************)
(* The inductive invariant: the shape of the function, new blocks that     *)
(* only jump, and control kept when they are followed.                     *)
(***************************************************************************)
THEOREM RelaxInvariant == Spec => []RInv
BY InitRelax, RelaxStep, PTL DEF Spec

(***************************************************************************)
(* BranchRelaxation changes no destination: for every function and every   *)
(* number of blocks, whatever the ranges of the branches and however wrong *)
(* the estimated distances may be.                                         *)
(***************************************************************************)
THEOREM RelaxationKeepsControl == Spec => []ControlKeptThroughNewBlocks
BY RelaxInvariant, PTL DEF RInv

(***************************************************************************)
(* "branches to be relaxed must be analyzable": fixupConditionalBranch     *)
(* asserts of the blocks it edits what its own edits preserve.             *)
(***************************************************************************)
THEOREM RelaxedStaysAnalyzable == Spec => [](\A n \in Numbers : Relaxable(code[n]))
<1>1. RInv => \A n \in Numbers : Relaxable(code[n])
  BY DEF RInv, Shape
<1>. QED
  BY <1>1, RelaxInvariant, PTL
----------------------------------------------------------------------------
(***************************************************************************)
(* The layout: place is the position of each block in the function.        *)
(***************************************************************************)
Layout(place, next, N) ==
  /\ place \in [0..(N - 1) -> 0..(N - 1)] /\ place[0] = 0
  /\ \A m, n \in 0..(N - 1) : place[m] = place[n] => m = n
  /\ next \in [0..(N - 1) -> 0..(N - 1) \cup {None}]
  /\ \A n \in 0..(N - 1) : next[n] = None => place[n] = N - 1
  /\ \A n \in 0..(N - 1) : next[n] # None => place[next[n]] = place[n] + 1

Rest(place, n) == {k \in DOMAIN place : place[n] <= place[k]}

\* The recursion From is defined by.
Follows(from, next) ==
  from = [m \in DOMAIN next \cup {None} |-> IF m = None THEN {} ELSE {m} \cup from[next[m]]]

LEMMA RestFollows ==
  ASSUME NEW N \in Nat, NEW place, NEW next, Layout(place, next, N), NEW m \in 0..(N - 1)
  PROVE  Rest(place, m) = {m} \cup (IF next[m] = None THEN {} ELSE Rest(place, next[m]))
<1>1. /\ DOMAIN place = 0..(N - 1) /\ \A k \in 0..(N - 1) : place[k] \in 0..(N - 1)
      /\ \A k \in 0..(N - 1) : place[k] = place[m] => k = m
      /\ next[m] \in 0..(N - 1) \cup {None}
      /\ next[m] = None => place[m] = N - 1
      /\ next[m] # None => place[next[m]] = place[m] + 1
  BY DEF Layout
<1>2. CASE next[m] = None
  <2>1. \A k \in 0..(N - 1) : place[m] <= place[k] <=> k = m
    BY <1>1, <1>2, SMTT(30)
  <2>. QED
    BY <1>1, <1>2, <2>1 DEF Rest
<1>3. CASE next[m] # None
  <2>1. \A k \in 0..(N - 1) : place[m] <= place[k] <=> k = m \/ place[next[m]] <= place[k]
    <3>1. PICK p \in 0..(N - 1) : p = place[m]
      BY <1>1
    <3>2. place[next[m]] = p + 1
      BY <1>1, <1>3, <3>1
    <3>3. ASSUME NEW k \in 0..(N - 1) PROVE p <= place[k] <=> k = m \/ p + 1 <= place[k]
      <4>1. PICK q \in 0..(N - 1) : q = place[k] /\ (q = p => k = m) /\ (k = m => q = p)
        BY <1>1, <3>1
      <4>2. p <= q <=> q = p \/ p + 1 <= q
        OBVIOUS
      <4>. QED
        BY <4>1, <4>2
    <3>. QED
      BY <3>1, <3>2, <3>3
  <2>2. \A k : k \in Rest(place, m) <=> k = m \/ k \in Rest(place, next[m])
    BY <1>1, <2>1 DEF Rest
  <2>. QED
    BY <1>3, <2>2
<1>. QED
  BY <1>2, <1>3

LEMMA FollowsExists ==
  ASSUME NEW N \in Nat, NEW place, NEW next, Layout(place, next, N)
  PROVE  \E from : Follows(from, next)
<1> DEFINE g == [m \in DOMAIN next \cup {None} |-> IF m = None THEN {} ELSE Rest(place, m)]
<1>1. DOMAIN next = 0..(N - 1) /\ \A m \in 0..(N - 1) : next[m] \in 0..(N - 1) \cup {None}
  BY DEF Layout
<1>2. None \notin 0..(N - 1)
  BY RelaxAssumption
<1>3. \A m \in 0..(N - 1) :
        Rest(place, m) = {m} \cup (IF next[m] = None THEN {} ELSE Rest(place, next[m]))
  BY RestFollows
<1>4. ASSUME NEW m \in DOMAIN next \cup {None}
      PROVE  g[m] = IF m = None THEN {} ELSE {m} \cup g[next[m]]
  <2>1. CASE m = None
    BY <2>1
  <2>2. CASE m # None
    <3>1. m \in 0..(N - 1) /\ g[m] = Rest(place, m) /\ next[m] \in DOMAIN next \cup {None}
      BY <1>1, <2>2
    <3>2. g[next[m]] = IF next[m] = None THEN {} ELSE Rest(place, next[m])
      BY <3>1
    <3>. QED
      BY <1>3, <2>2, <3>1, <3>2
  <2>. QED
    BY <2>1, <2>2
<1>5. Follows(g, next)
  <2>1. g = [m \in DOMAIN next \cup {None} |-> g[m]]
    OBVIOUS
  <2> HIDE DEF g
  <2>2. [m \in DOMAIN next \cup {None} |-> g[m]]
          = [m \in DOMAIN next \cup {None} |-> IF m = None THEN {} ELSE {m} \cup g[next[m]]]
    BY <1>4
  <2>. QED
    BY <2>1, <2>2 DEF Follows
<1>. QED
  BY <1>5

LEMMA FromIsRest ==
  ASSUME NEW N \in Nat, NEW place, NEW next, Layout(place, next, N), NEW n \in 0..(N - 1)
  PROVE  From(next, n) = Rest(place, n)
<1> DEFINE from == CHOOSE f : Follows(f, next)
           Known == {d \in Nat : \A m \in 0..(N - 1) : place[m] = N - 1 - d =>
                                    from[m] = Rest(place, m)}
<1>1. Follows(from, next) /\ From(next, n) = from[n]
  <2>1. Follows(from, next)
    <3>1. \E f : Follows(f, next)
      BY FollowsExists
    <3>. QED
      BY <3>1
  <2>2. From(next, n) = from[n]
    BY DEF From, Follows
  <2>. QED
    BY <2>1, <2>2
<1> HIDE DEF from
<1>2. DOMAIN next = 0..(N - 1) /\ None \notin 0..(N - 1)
  BY RelaxAssumption DEF Layout
<1>3. \A m \in 0..(N - 1) : from[m] = {m} \cup from[next[m]]
  BY <1>1, <1>2 DEF Follows
<1>4. from[None] = {}
  BY <1>1 DEF Follows
<1>5. ASSUME NEW m \in 0..(N - 1)
      PROVE  /\ Rest(place, m) = {m} \cup (IF next[m] = None THEN {} ELSE Rest(place, next[m]))
             /\ place[m] \in 0..(N - 1)
             /\ next[m] = None \/ (next[m] \in 0..(N - 1) /\ place[next[m]] = place[m] + 1)
             /\ next[m] # None => place[next[m]] \in 0..(N - 1)
             /\ next[m] = None => place[m] = N - 1
  <2>1. Rest(place, m) = {m} \cup (IF next[m] = None THEN {} ELSE Rest(place, next[m]))
    BY RestFollows
  <2>2. place[m] \in 0..(N - 1) /\ (next[m] = None \/ next[m] \in 0..(N - 1))
    BY DEF Layout
  <2>3. next[m] # None => place[next[m]] = place[m] + 1
    BY DEF Layout
  <2>4. next[m] = None => place[m] = N - 1
    BY DEF Layout
  <2>5. next[m] # None => place[next[m]] \in 0..(N - 1)
    BY <2>2 DEF Layout
  <2>. QED
    BY <2>1, <2>2, <2>3, <2>4, <2>5
<1>6. 0 \in Known
  <2>1. ASSUME NEW m \in 0..(N - 1), place[m] = N - 1 PROVE from[m] = Rest(place, m)
    <3>1. next[m] = None
      BY <1>5, <2>1
    <3>. QED
      BY <1>3, <1>4, <1>5, <3>1
  <2>. QED
    BY <2>1
<1>7. ASSUME NEW d \in 0..(N - 2), d \in Known PROVE d + 1 \in Known
  <2>1. ASSUME NEW m \in 0..(N - 1), place[m] = N - 1 - (d + 1) PROVE from[m] = Rest(place, m)
    <3>1. next[m] # None /\ next[m] \in 0..(N - 1) /\ place[next[m]] = N - 1 - d
      BY <1>5, <2>1
    <3>2. from[next[m]] = Rest(place, next[m])
      BY <1>7, <3>1
    <3>. QED
      BY <1>3, <1>5, <3>1, <3>2
  <2>. QED
    BY <2>1
<1>8. N - 1 - place[n] \in Known
  <2>1. N - 1 - place[n] \in Nat /\ N - 1 - place[n] <= N - 1
    BY <1>5
  <2>2. \A d \in 0..(N - 1 - place[n] - 1) : d \in 0..(N - 2)
    BY <1>5
  <2> HIDE DEF Known
  <2>. QED
    BY <1>6, <1>7, <2>1, <2>2, Reaches
<1>9. place[n] = N - 1 - (N - 1 - place[n])
  BY <1>5
<1>. QED
  BY <1>1, <1>8, <1>9

(***************************************************************************)
(* What AdjustBlockOffsets makes of the estimates: blocks in front of the  *)
(* start keep theirs, the start gets its own end (block 0 its beginning),  *)
(* and from there on each block begins where the one before it ends.       *)
(***************************************************************************)
Between(place, m, n) == {k \in DOMAIN place : place[m] <= place[k] /\ place[k] < place[n]}

LEMMA BetweenFacts ==
  ASSUME NEW N \in Nat, NEW place, NEW next, Layout(place, next, N),
         NEW m \in 0..(N - 1), NEW n \in 0..(N - 1)
  PROVE  /\ IsFiniteSet(Between(place, m, n)) /\ Between(place, m, n) \subseteq 0..(N - 1)
         /\ Between(place, m, m) = {}
         /\ (place[m] <= place[n] /\ next[n] # None) =>
              Between(place, m, next[n]) = Between(place, m, n) \cup {n}
         /\ n \notin Between(place, m, n)
<1>1. /\ DOMAIN place = 0..(N - 1) /\ \A k \in 0..(N - 1) : place[k] \in 0..(N - 1)
      /\ \A k \in 0..(N - 1) : place[k] = place[n] => k = n
  BY DEF Layout
<1>2. Between(place, m, n) \subseteq 0..(N - 1)
  BY <1>1 DEF Between
<1>3. IsFiniteSet(Between(place, m, n))
  <2>1. IsFiniteSet(0..(N - 1))
    BY FS_Interval
  <2>. QED
    BY <1>2, <2>1, FS_Subset
<1>4. Between(place, m, m) = {} /\ n \notin Between(place, m, n)
  BY <1>1 DEF Between
<1>5. ASSUME place[m] <= place[n], next[n] # None
      PROVE  Between(place, m, next[n]) = Between(place, m, n) \cup {n}
  <2>1. PICK p \in 0..(N - 1) : p = place[n]
    BY <1>1
  <2>2. place[next[n]] = p + 1
    BY <1>5, <2>1 DEF Layout
  <2>3. ASSUME NEW k \in 0..(N - 1) PROVE place[k] < p + 1 <=> place[k] < p \/ k = n
    <3>1. PICK q \in 0..(N - 1) : q = place[k] /\ (q = p => k = n) /\ (k = n => q = p)
      BY <1>1, <2>1
    <3>2. q < p + 1 <=> q < p \/ q = p
      OBVIOUS
    <3>. QED
      BY <3>1, <3>2
  <2>4. \A k : k \in Between(place, m, next[n]) <=> k \in Between(place, m, n) \/ k = n
    BY <1>1, <1>5, <2>1, <2>2, <2>3 DEF Between
  <2>. QED
    BY <2>4
<1>. QED
  BY <1>2, <1>3, <1>4, <1>5

Moved(place, start, n) == place[start] <= place[n]

\* new are the offsets off, those from start on made anew.
MadeAnew(place, next, N, start, off, siz, new) ==
  /\ new \in [0..(N - 1) -> Nat]
  /\ \A n \in 0..(N - 1) : ~Moved(place, start, n) => new[n] = off[n]
  /\ new[start] = IF start = 0 THEN 0 ELSE off[start] + siz[start]
  /\ \A n \in 0..(N - 1) :
       Moved(place, start, n) /\ next[n] # None => new[next[n]] = new[n] + siz[n]

LEMMA AdjustedOffsets ==
  ASSUME NEW N \in Nat, NEW place, NEW next, Layout(place, next, N), NEW start \in 0..(N - 1),
         NEW siz \in [0..(N - 1) -> Nat], NEW off, off[start] \in Nat,
         \A n \in 0..(N - 1) : ~Moved(place, start, n) => off[n] \in Nat
  PROVE  MadeAnew(place, next, N, start, off, siz, AdjustBlockOffsets(off, siz, next, start))
<1>0. PICK new : new = AdjustBlockOffsets(off, siz, next, start)
  OBVIOUS
<1> DEFINE base == IF start = 0 THEN 0 ELSE off[start] + siz[start]
           sum(n) == SumFunctionOnSet(siz, Between(place, start, n))
<1>1. /\ DOMAIN place = 0..(N - 1) /\ \A k \in 0..(N - 1) : place[k] \in 0..(N - 1)
      /\ \A n \in 0..(N - 1) : next[n] # None => next[n] \in 0..(N - 1)
      /\ \A n \in 0..(N - 1) : next[n] # None => place[next[n]] = place[n] + 1
      /\ DOMAIN siz = 0..(N - 1)
  BY DEF Layout
<1>2. base \in Nat
  OBVIOUS
<1>3. ASSUME NEW n \in 0..(N - 1)
      PROVE  new[n] = IF Moved(place, start, n) THEN base + sum(n) ELSE off[n]
  <2>1. From(next, start) = Rest(place, start) /\ From(next, n) = Rest(place, n)
    BY FromIsRest
  <2>2. n \in Rest(place, start) <=> Moved(place, start, n)
    BY <1>1 DEF Rest, Moved
  <2>3. Rest(place, start) \ Rest(place, n) = Between(place, start, n)
    <3>1. ASSUME NEW k \in 0..(N - 1) PROVE ~(place[n] <= place[k]) <=> place[k] < place[n]
      <4>1. PICK p \in 0..(N - 1), q \in 0..(N - 1) : p = place[n] /\ q = place[k]
        BY <1>1
      <4>2. ~(p <= q) <=> q < p
        OBVIOUS
      <4>. QED
        BY <4>1, <4>2
    <3>2. \A k : k \in Rest(place, start) \ Rest(place, n) <=> k \in Between(place, start, n)
      BY <1>1, <3>1 DEF Rest, Between
    <3>. QED
      BY <3>2
  <2>4. new[n] = IF n \in From(next, start)
                   THEN base + SumFunctionOnSet(siz, From(next, start) \ From(next, n)) ELSE off[n]
    BY <1>0, <1>1 DEF AdjustBlockOffsets
  <2> HIDE DEF base
  <2>. QED
    BY <2>1, <2>2, <2>3, <2>4
<1>4. DOMAIN new = 0..(N - 1) /\ new = [n \in 0..(N - 1) |-> new[n]]
  BY <1>0, <1>1 DEF AdjustBlockOffsets
<1> HIDE DEF base
<1>5. ASSUME NEW n \in 0..(N - 1) PROVE sum(n) \in Nat
  <2>1. IsFiniteSet(Between(place, start, n)) /\ \A x \in Between(place, start, n) : siz[x] \in Nat
    BY BetweenFacts
  <2>2. 0 \in Nat /\ \A a, b \in Nat : a + b \in Nat
    OBVIOUS
  <2>. QED
    BY <2>1, <2>2, SumIsIn
<1>6. sum(start) = 0
  <2>1. Between(place, start, start) = {}
    BY BetweenFacts
  <2>. QED
    BY <2>1, SumOfNothing
<1>7. ASSUME NEW n \in 0..(N - 1), Moved(place, start, n), next[n] # None
      PROVE  sum(next[n]) = sum(n) + siz[n]
  <2>1. /\ IsFiniteSet(Between(place, start, n)) /\ n \notin Between(place, start, n)
        /\ Between(place, start, n) \subseteq 0..(N - 1)
        /\ Between(place, start, next[n]) = Between(place, start, n) \cup {n}
    BY <1>7, BetweenFacts DEF Moved
  <2>2. \A x \in Between(place, start, n) \cup {n} : siz[x] \in Int
    BY <2>1
  <2>. QED
    BY <2>1, <2>2, SumAddsElement
<1> HIDE DEF sum
<1>8. new \in [0..(N - 1) -> Nat]
  BY <1>2, <1>3, <1>4, <1>5
<1>9. new[start] = base
  BY <1>1, <1>2, <1>3, <1>6 DEF Moved
<1>10. ASSUME NEW n \in 0..(N - 1), Moved(place, start, n), next[n] # None
       PROVE  new[next[n]] = new[n] + siz[n]
  <2>1. next[n] \in 0..(N - 1) /\ Moved(place, start, next[n])
    <3>1. PICK p \in 0..(N - 1), q \in 0..(N - 1) : p = place[n] /\ q = place[start]
      BY <1>1
    <3>2. next[n] \in 0..(N - 1) /\ place[next[n]] = p + 1 /\ q <= p
      BY <1>1, <1>10, <3>1 DEF Moved
    <3>3. q <= p + 1
      BY <3>1, <3>2
    <3>. QED
      BY <3>1, <3>2, <3>3 DEF Moved
  <2>2. new[next[n]] = base + sum(next[n]) /\ new[n] = base + sum(n)
    BY <1>3, <1>10, <2>1
  <2>3. sum(next[n]) = sum(n) + siz[n]
    BY <1>7, <1>10
  <2>4. PICK s \in Nat, z \in Nat, b \in Nat : s = sum(n) /\ z = siz[n] /\ b = base
    BY <1>2, <1>5
  <2>5. b + (s + z) = (b + s) + z
    OBVIOUS
  <2>. QED
    BY <2>2, <2>3, <2>4, <2>5
<1>11. MadeAnew(place, next, N, start, off, siz, new)
  BY <1>3, <1>8, <1>9, <1>10 DEF base, MadeAnew
<1>. QED
  BY <1>0, <1>11

LEMMA InitialLayout ==
  ASSUME NEW N \in Nat \ {0}, NEW next,
         next = [n \in 0..(N - 1) |-> IF n = N - 1 THEN None ELSE n + 1]
  PROVE  Layout([n \in 0..(N - 1) |-> n], next, N)
<1>1. None \notin Nat
  BY RelaxAssumption
<1>. QED
  BY <1>1 DEF Layout

\* The places when block N is put behind block m.
Shifted(place, m, N) ==
  [n \in 0..N |-> IF n = N THEN place[m] + 1
                  ELSE IF place[n] <= place[m] THEN place[n] ELSE place[n] + 1]

LEMMA InsertedLayout ==
  ASSUME NEW N \in Nat \ {0}, NEW place, NEW next, Layout(place, next, N), NEW m \in 0..(N - 1),
         NEW next2 \in [0..N -> 0..N \cup {None}], next2[N] = next[m], next2[m] = N,
         \A n \in 0..(N - 1) : n # m => next2[n] = next[n]
  PROVE  Layout(Shifted(place, m, N), next2, N + 1)
<1> DEFINE place2 == Shifted(place, m, N)
<1>1. ASSUME NEW n \in 0..(N - 1)
      PROVE  /\ place[n] \in 0..(N - 1)
             /\ next[n] = None \/ (next[n] \in 0..(N - 1) /\ place[next[n]] = place[n] + 1)
             /\ next[n] = None => place[n] = N - 1
             /\ place[n] = place[m] => n = m
             /\ place[0] = 0
  BY DEF Layout
<1>2. 0..(N + 1 - 1) = 0..N /\ m \in 0..N /\ N \notin 0..(N - 1) /\ 0 \in 0..(N - 1) /\ None # N
      /\ \A n \in 0..N : n = N \/ n \in 0..(N - 1)
  BY RelaxAssumption
<1>3. PICK p \in 0..(N - 1) : p = place[m]
  BY <1>1
<1>4. place2[N] = p + 1 /\ p + 1 \in 0..N
  BY <1>3 DEF Shifted
<1>5. ASSUME NEW n \in 0..(N - 1)
      PROVE  /\ place2[n] = IF place[n] <= p THEN place[n] ELSE place[n] + 1
             /\ place2[n] \in 0..N /\ place2[n] # p + 1
  <2>1. PICK q \in 0..(N - 1) : q = place[n]
    BY <1>1
  <2>2. place2[n] = IF q <= p THEN q ELSE q + 1
    BY <1>2, <1>3, <2>1 DEF Shifted
  <2>. QED
    BY <2>1, <2>2
<1>6. place2 = [n \in 0..N |-> place2[n]]
  BY DEF Shifted
<1> HIDE DEF place2
<1>7. place2 \in [0..N -> 0..N] /\ place2[0] = 0
  <2>1. \A n \in 0..N : place2[n] \in 0..N
    BY <1>2, <1>4, <1>5
  <2>2. place2 \in [0..N -> 0..N]
    BY <1>6, <2>1
  <2>3. place2[0] = 0
    BY <1>1, <1>2, <1>5, SMTT(30)
  <2>. QED
    BY <2>2, <2>3
<1>8. ASSUME NEW a \in 0..N, NEW b \in 0..N, place2[a] = place2[b] PROVE a = b
  <2>1. CASE a = N \/ b = N
    BY <1>2, <1>4, <1>5, <1>8, <2>1
  <2>2. CASE a # N /\ b # N
    <3>1. a \in 0..(N - 1) /\ b \in 0..(N - 1)
      BY <2>2
    <3>2. PICK q \in 0..(N - 1), r \in 0..(N - 1) : q = place[a] /\ r = place[b]
      BY <1>1, <3>1
    <3>3. (IF q <= p THEN q ELSE q + 1) = (IF r <= p THEN r ELSE r + 1)
      BY <1>5, <1>8, <3>1, <3>2
    <3>4. q = r
      BY <3>3
    <3>. QED
      BY <3>1, <3>2, <3>4 DEF Layout
  <2>. QED
    BY <2>1, <2>2
<1>9. ASSUME NEW n \in 0..N, next2[n] = None PROVE place2[n] = N
  <2>1. CASE n = N
    BY <1>1, <1>3, <1>4, <1>9, <2>1
  <2>2. CASE n # N
    <3>1. n # m /\ n \in 0..(N - 1)
      BY <1>2, <1>9, <2>2
    <3>2. place[n] = N - 1 /\ place[n] # p
      BY <1>1, <1>3, <1>9, <3>1
    <3>3. place2[n] = IF N - 1 <= p THEN N - 1 ELSE N - 1 + 1
      BY <1>5, <3>1, <3>2
    <3>. QED
      BY <3>2, <3>3
  <2>. QED
    BY <2>1, <2>2
<1>10. ASSUME NEW n \in 0..N, next2[n] # None PROVE place2[next2[n]] = place2[n] + 1
  <2>1. CASE n = N
    <3>1. next[m] \in 0..(N - 1) /\ place[next[m]] = p + 1
      BY <1>1, <1>3, <1>10, <2>1
    <3>2. place2[next[m]] = IF p + 1 <= p THEN p + 1 ELSE p + 1 + 1
      BY <1>5, <3>1
    <3>. QED
      BY <1>4, <2>1, <3>2
  <2>2. CASE n = m
    <3>1. place2[m] = p
      BY <1>3, <1>5
    <3>. QED
      BY <1>4, <2>2, <3>1
  <2>3. CASE n # N /\ n # m
    <3>1. n \in 0..(N - 1) /\ next2[n] = next[n]
      BY <2>3
    <3>2. PICK q \in 0..(N - 1) : q = place[n] /\ q # p
      BY <1>1, <1>3, <2>3, <3>1
    <3>3. next[n] \in 0..(N - 1) /\ place[next[n]] = q + 1
      BY <1>1, <1>10, <3>1, <3>2
    <3>4. place2[next[n]] = IF q + 1 <= p THEN q + 1 ELSE q + 1 + 1
      BY <1>5, <3>3
    <3>5. place2[n] = IF q <= p THEN q ELSE q + 1
      BY <1>5, <3>1, <3>2
    <3>. QED
      BY <3>1, <3>2, <3>4, <3>5
  <2>. QED
    BY <2>1, <2>2, <2>3
<1>11. PICK M : M = N + 1 /\ M - 1 = N
  OBVIOUS
<1>12. Layout(place2, next2, M)
  BY <1>7, <1>8, <1>9, <1>10, <1>11 DEF Layout
<1>. QED
  BY <1>11, <1>12 DEF place2

\* What that makes of estimates that do not run behind.
Adjusts(place, next, N, start, off, siz, new) ==
  /\ new \in [0..(N - 1) -> Nat] /\ new[0] = 0
  /\ \A n \in 0..(N - 1) : next[n] # None => new[n] + siz[n] <= new[next[n]]
  /\ \A n \in 0..(N - 1) :
       next[n] # None /\ (start = 0 \/ n = start) => new[next[n]] = new[n] + siz[n]
  /\ \A n \in 0..(N - 1) :
       next[n] # None /\ n # start /\ next[n] # start /\ off[next[n]] = off[n] + siz[n] =>
         new[next[n]] = new[n] + siz[n]

LEMMA EstimatesAdjusted ==
  ASSUME NEW N \in Nat \ {0}, NEW place, NEW next, Layout(place, next, N), NEW start \in 0..(N - 1),
         NEW siz \in [0..(N - 1) -> Nat], NEW off, off[start] \in Nat, off[0] = 0,
         \A n \in 0..(N - 1) : ~Moved(place, start, n) => off[n] \in Nat,
         \A n \in 0..(N - 1) :
           ~Moved(place, start, n) /\ next[n] # None => off[n] + siz[n] <= off[next[n]]
  PROVE  Adjusts(place, next, N, start, off, siz, AdjustBlockOffsets(off, siz, next, start))
<1>1. PICK new : new = AdjustBlockOffsets(off, siz, next, start)
  OBVIOUS
<1>2. /\ new \in [0..(N - 1) -> Nat]
      /\ \A n \in 0..(N - 1) : ~Moved(place, start, n) => new[n] = off[n]
      /\ new[start] = IF start = 0 THEN 0 ELSE off[start] + siz[start]
      /\ \A n \in 0..(N - 1) :
           Moved(place, start, n) /\ next[n] # None => new[next[n]] = new[n] + siz[n]
  <2>1. MadeAnew(place, next, N, start, off, siz, AdjustBlockOffsets(off, siz, next, start))
    BY AdjustedOffsets
  <2>. QED
    BY <1>1, <2>1 DEF MadeAnew
<1>3. /\ \A k \in 0..(N - 1) : place[k] \in 0..(N - 1)
      /\ place[0] = 0 /\ \A k, n \in 0..(N - 1) : place[k] = place[n] => k = n
      /\ \A n \in 0..(N - 1) : next[n] # None => next[n] \in 0..(N - 1) /\ place[next[n]] = place[n] + 1
  BY DEF Layout
<1>4. start = 0 => \A n \in 0..(N - 1) : Moved(place, start, n)
  BY <1>3 DEF Moved
<1>5. Moved(place, start, start)
  BY <1>3 DEF Moved
<1>6. start # 0 => ~Moved(place, start, 0)
  <2>1. 0 \in 0..(N - 1) /\ place[start] \in 0..(N - 1) /\ (place[start] = place[0] => start = 0)
    BY <1>3
  <2>. QED
    BY <1>3, <2>1 DEF Moved
<1>7. new[0] = 0
  <2>1. CASE start = 0
    BY <1>2, <2>1
  <2>2. CASE start # 0
    BY <1>2, <1>6, <2>2
  <2>. QED
    BY <2>1, <2>2
<1>8. ASSUME NEW n \in 0..(N - 1), next[n] # None, ~Moved(place, start, n)
      PROVE  (next[n] = start /\ start # 0) \/ (~Moved(place, start, next[n]) /\ next[n] # start)
  <2>1. PICK p \in 0..(N - 1), q \in 0..(N - 1) : p = place[n] /\ q = place[start]
    BY <1>3
  <2>2. next[n] \in 0..(N - 1) /\ place[next[n]] = p + 1 /\ ~(q <= p)
    BY <1>3, <1>8, <2>1 DEF Moved
  <2>3. CASE p + 1 = q
    <3>1. next[n] = start
      BY <1>3, <2>1, <2>2, <2>3
    <3>2. start # 0
      BY <1>4, <1>8
    <3>. QED
      BY <3>1, <3>2
  <2>4. CASE p + 1 # q
    <3>1. ~(q <= p + 1)
      <4>1. ~(q <= p) /\ p + 1 # q => ~(q <= p + 1)
        OBVIOUS
      <4>. QED
        BY <2>2, <2>4, <4>1
    <3>. QED
      BY <1>5, <2>1, <2>2, <3>1 DEF Moved
  <2>. QED
    BY <2>3, <2>4
<1>9. ASSUME NEW n \in 0..(N - 1), next[n] # None PROVE new[n] + siz[n] <= new[next[n]]
  <2>0. new[n] \in Nat /\ siz[n] \in Nat /\ next[n] \in 0..(N - 1) /\ new[next[n]] \in Nat
    BY <1>2, <1>3, <1>9
  <2>1. CASE Moved(place, start, n)
    BY <1>2, <1>9, <2>0, <2>1
  <2>2. CASE ~Moved(place, start, n)
    <3>1. new[n] = off[n] /\ off[n] + siz[n] <= off[next[n]]
      BY <1>2, <1>9, <2>2
    <3>2. CASE ~Moved(place, start, next[n])
      <4>1. new[next[n]] = off[next[n]]
        BY <1>2, <2>0, <3>2
      <4>. QED
        BY <3>1, <4>1
    <3>3. CASE Moved(place, start, next[n])
      <4>1. next[n] = start /\ new[start] = off[start] + siz[start] /\ siz[start] \in Nat
        BY <1>2, <1>8, <1>9, <2>2, <3>3
      <4>. QED
        BY <2>0, <3>1, <4>1
    <3>. QED
      BY <3>2, <3>3
  <2>. QED
    BY <2>1, <2>2
<1>10. ASSUME NEW n \in 0..(N - 1), next[n] # None, start = 0 \/ n = start
       PROVE  new[next[n]] = new[n] + siz[n]
  BY <1>2, <1>4, <1>5, <1>10
<1>11. ASSUME NEW n \in 0..(N - 1), next[n] # None, n # start, next[n] # start,
              off[next[n]] = off[n] + siz[n]
       PROVE  new[next[n]] = new[n] + siz[n]
  <2>1. CASE Moved(place, start, n)
    BY <1>2, <1>11, <2>1
  <2>2. CASE ~Moved(place, start, n)
    <3>1. ~Moved(place, start, next[n]) /\ next[n] \in 0..(N - 1)
      BY <1>3, <1>8, <1>11, <2>2
    <3>2. new[next[n]] = off[next[n]] /\ new[n] = off[n]
      BY <1>2, <2>2, <3>1
    <3>. QED
      BY <1>11, <3>2
  <2>. QED
    BY <2>1, <2>2
<1>12. Adjusts(place, next, N, start, off, siz, new)
  BY <1>2, <1>7, <1>9, <1>10, <1>11 DEF Adjusts
<1>. QED
  BY <1>1, <1>12
----------------------------------------------------------------------------
(***************************************************************************)
(* The estimates.                                                          *)
(***************************************************************************)
\* The recorded sizes are those of the blocks.
Sized ==
  /\ body \in [Numbers -> Nat] /\ offset \in [Numbers -> Nat] /\ size \in [Numbers -> Nat]
  /\ \A n \in Numbers : size[n] = BlockSize(body[n], code[n])

\* No block is estimated to start before its predecessor's end.
Estimated ==
  /\ offset[0] = 0
  /\ \A n \in Numbers : succ[n] # None => offset[n] + size[n] <= offset[succ[n]]

\* What the pass began with; a branch that fell through may have become two.
Began ==
  /\ code0 \in [Original -> Seq(Instructions)]
  /\ \A n \in Original :
       /\ Relaxable(code0[n])
       /\ \A k \in 1..Len(code0[n]) : code0[n][k].target \in Original \cup {Return}
       /\ Len(code[n]) = Len(code0[n]) \/ (Len(code0[n]) = 1 /\ Len(code[n]) = 2)

\* No new block follows block n.
AsItWas(n) ==
  /\ succ[n] = FirstSucc(n)
  /\ \A k \in 1..Len(code[n]) : code[n][k].target \in Original \cup {Return}

\* A new block does, and the branch to it has only to get over a jump.
FollowedByNew(n) ==
  /\ succ[n] \in Numbers \ Original /\ succ[succ[n]] = FirstSucc(n)
  /\ Len(code[n]) = 2 /\ code[n][1].target = succ[n] /\ code[n][2].target \in Original
  /\ offset[succ[n]] = offset[n] + size[n]

NewBlocks ==
  /\ \A n \in Original : AsItWas(n) \/ FollowedByNew(n)
  /\ \A n \in Numbers \ Original : code[n][1].target \in Original

\* No block but the first has been given an instruction or a new block.
Untouched ==
  \A n \in Original \ {0} : Len(code[n]) = Len(code0[n]) /\ succ[n] = FirstSucc(n)

Exact == \A n \in Numbers : succ[n] # None => offset[succ[n]] = offset[n] + size[n]

\* The branches of block n are in range by the estimates.
Reaching(n) ==
  \A k \in 1..Len(code[n]) :
    code[n][k].op \in CondBranches \cup {"RJMPk"} => IsBlockInRange(n, k, code[n][k].target)

\* A pass that has changed nothing has found every block it left in range.
Scanned(place) ==
  /\ pc = "done" => ~changed /\ I = None
  /\ pc = "cond" => I # None
  /\ ~changed =>
       /\ I = None => \A n \in Numbers : Reaching(n)
       /\ I # None => \A n \in Numbers : place[n] < place[I] => Reaching(n)
       /\ I # None /\ pc = "cond" => JumpReaches

LaidOut == \E place : Layout(place, succ, numBlocks) /\ Scanned(place)

EInv ==
  /\ Sized /\ Estimated /\ Began /\ NewBlocks
  /\ Untouched => Exact
  /\ LaidOut
  /\ changed \in BOOLEAN /\ pc \in {"jump", "cond", "done", "unimplemented"}

LEMMA InitEstimates == Init => EInv
<1> SUFFICES ASSUME Init PROVE EInv
  OBVIOUS
<1>1. PICK f \in InitFunctions : /\ code0 = f.code /\ code = f.code /\ body = f.body
                                 /\ size = [n \in Original |-> BlockSize(f.body[n], f.code[n])]
  BY DEF Init
<1>2. /\ numBlocks = NumBlocks /\ I = 0 /\ changed = FALSE /\ pc = "jump"
      /\ succ = [n \in Original |-> IF n = NumBlocks - 1 THEN None ELSE n + 1]
      /\ NumBlocks \in Nat \ {0} /\ Numbers = 0..(numBlocks - 1) /\ Numbers = Original
      /\ Original \subseteq Nat /\ None \notin Nat /\ 0 \in Numbers
  BY RelaxAssumption DEF Init, Numbers, Original
<1>3. /\ f.code \in [Original -> Seq(Instructions)] /\ f.body \in [Original -> Nat]
      /\ \A n \in Original :
            /\ Relaxable(f.code[n])
            /\ \A k \in 1..Len(f.code[n]) : f.code[n][k].target \in Original \cup {Return}
  BY RelaxAssumption
<1>4. \A n \in Original : BlockSize(f.body[n], f.code[n]) \in Nat
  BY <1>3 DEF BlockSize, InstSize
<1>5. size \in [Numbers -> Nat] /\ \A n \in Numbers : size[n] = BlockSize(body[n], code[n])
  BY <1>1, <1>2, <1>4
<1> DEFINE place == [n \in 0..(numBlocks - 1) |-> n]
           zero == [n \in Original |-> 0]
<1>6. Layout(place, succ, numBlocks)
  BY <1>2, InitialLayout DEF Original
<1>7. \A n \in 0..(numBlocks - 1) : Moved(place, 0, n)
  BY <1>2 DEF Moved
<1>8. zero[0] = 0 /\ zero[0] \in Nat
  BY <1>2
<1>9. offset = AdjustBlockOffsets(zero, size, succ, 0)
  BY <1>2 DEF Init
<1> HIDE DEF place, zero
<1>10. Adjusts(place, succ, numBlocks, 0, zero, size, offset)
  BY <1>2, <1>5, <1>6, <1>7, <1>8, <1>9, EstimatesAdjusted
<1>11. /\ offset \in [Numbers -> Nat] /\ offset[0] = 0
       /\ \A n \in Numbers : succ[n] # None => offset[n] + size[n] <= offset[succ[n]]
       /\ Exact
  BY <1>2, <1>10 DEF Adjusts, Exact
<1>12. NewBlocks
  BY <1>1, <1>2, <1>3 DEF NewBlocks, AsItWas, FirstSucc
<1>13. Began
  BY <1>1, <1>3 DEF Began
<1>14. LaidOut
  <2>1. \A n \in Numbers : ~(place[n] < place[0])
    BY <1>2 DEF place
  <2>2. Scanned(place)
    BY <1>2, <2>1 DEF Scanned
  <2>. QED
    BY <1>6, <2>2 DEF LaidOut
<1>. QED
  BY <1>1, <1>2, <1>3, <1>5, <1>11, <1>12, <1>13, <1>14 DEF EInv, Sized, Estimated
----------------------------------------------------------------------------
\* The block a fixup is about has no new block behind it.
LEMMA FixupAsItWas ==
  ASSUME RInv, EInv, Fixup
  PROVE  /\ AsItWas(I) /\ TBB \in Original
         /\ FBB # None => FBB \in Original
         /\ I \in Numbers /\ I # None /\ size[I] \in Nat /\ body[I] \in Nat
         /\ size[I] = body[I] + 2 * Len(code[I])
<1>1. /\ I \in Original /\ I \in Numbers /\ code[I] \in Seq(Instructions)
      /\ HasCond /\ code[I][1].op \in CondBranches /\ TBB \in Numbers
      /\ Len(code[I]) \in {1, 2} /\ Numbers \subseteq Nat /\ None \notin Numbers
      /\ FBB # None => FBB \in Numbers /\ Len(code[I]) = 2
  BY FixupBlock
<1>2. /\ body[I] \in Nat /\ offset[I] \in Nat /\ size[I] = body[I] + 2 * Len(code[I])
  BY <1>1 DEF EInv, Sized, BlockSize, InstSize
<1>3. AsItWas(I)
  <2>1. ASSUME FollowedByNew(I) PROVE FALSE
    <3>1. PICK o \in Nat, b \in Nat, s \in Nat :
            o = offset[I] /\ b = body[I] /\ s = size[I] /\ s = b + 2 * 2
      BY <1>2, <2>1 DEF FollowedByNew
    <3>2. offset[TBB] = o + s
      BY <2>1, <3>1 DEF FollowedByNew, TBB
    <3>3. offset[TBB] - InstrOffset(I, 1) = 4
      BY <3>1, <3>2 DEF InstrOffset, InstSize
    <3>4. PICK e \in Nat : e = 2^(CondBits - 1) /\ 4 < e
      BY RangeAssumption
    <3>5. IsIntN(CondBits, 4)
      BY <3>4 DEF IsIntN
    <3>6. code[I][1].op # "RJMPk"
      BY <1>1 DEF CondBranches
    <3>7. IsBlockInRange(I, 1, TBB)
      BY <3>3, <3>5, <3>6 DEF IsBlockInRange, IsBranchOffsetInRange
    <3>. QED
      BY <3>7 DEF Fixup
  <2>. QED
    BY <1>1, <2>1 DEF EInv, NewBlocks
<1>4. Return \notin Nat
  BY RelaxAssumption
<1>5. \A k \in 1..Len(code[I]) : code[I][k].target \in Nat => code[I][k].target \in Original
  BY <1>3, <1>4 DEF AsItWas
<1>6. TBB \in Original
  <2>1. 1 \in 1..Len(code[I]) /\ TBB \in Nat
    BY <1>1
  <2>. QED
    BY <1>5, <2>1 DEF TBB
<1>7. ASSUME FBB # None PROVE FBB \in Original
  <2>1. Len(code[I]) = 2 /\ FBB \in Nat
    BY <1>1, <1>7
  <2>2. FBB = code[I][2].target
    BY <2>1 DEF FBB
  <2>. QED
    BY <1>5, <2>1, <2>2
<1>. QED
  BY <1>1, <1>2, <1>3, <1>6, <1>7

\* What the fixups make of the block's terminators.
TurnedRound(t) == InsertBranch(<< >>, t, TBB, ReverseBranchCondition(Cond))

LEMMA TurnedRoundShape ==
  ASSUME RInv, Fixup, NEW t \in Nat
  PROVE  /\ Len(TurnedRound(t)) = 2 /\ TurnedRound(t)[1].target = t
         /\ TurnedRound(t)[2].target = TBB
<1> DEFINE rev == BrCond[OppositeCondition[CondFromBranchOpc[code[I][1].op]]]
<1>1. /\ code[I] \in Seq(Instructions) /\ HasCond /\ code[I][1].op \in CondBranches
      /\ TBB \in Nat /\ TBB # None
  BY FixupBlock
<1>2. rev \in CondBranches
  BY <1>1, ReversedBranch
<1>3. TurnedRound(t) = TwoWay(rev, t, TBB)
  BY <1>1, Reversal DEF TurnedRound
<1>. HIDE DEF rev
<1>. QED
  BY <1>1, <1>2, <1>3, TwoWayShape

LEMMA SwapKeepsEstimates ==
  ASSUME RInv, EInv, SwapDestinations
  PROVE  EInv'
<1>1. /\ I \in Original /\ I \in Numbers /\ FBB \in Numbers /\ Len(code[I]) = 2
      /\ Numbers \subseteq Nat
  BY FixupBlock DEF SwapDestinations
<1>2. AsItWas(I) /\ TBB \in Original /\ FBB \in Original /\ I # None
  BY FixupAsItWas DEF SwapDestinations
<1>3. /\ Len(TurnedRound(FBB)) = 2 /\ TurnedRound(FBB)[1].target = FBB
      /\ TurnedRound(FBB)[2].target = TBB
  BY <1>1, TurnedRoundShape DEF SwapDestinations
<1>4. /\ code' = [code EXCEPT ![I] = TurnedRound(FBB)]
      /\ UNCHANGED <<numBlocks, body, succ, offset, size, code0, I, pc>> /\ changed' = TRUE
  BY DEF SwapDestinations, TurnedRound, Fixed, blockInfo
<1>5. code'[I] = TurnedRound(FBB) /\ \A n \in Numbers : n # I => code'[n] = code[n]
  BY <1>1, <1>4 DEF RInv, Shape
<1> HIDE DEF TurnedRound
<1>6. Numbers' = Numbers /\ Original \subseteq Numbers
  BY <1>4, RelaxAssumption DEF Numbers, RInv, Shape, Original
<1>7. \A n \in Numbers : Len(code'[n]) = Len(code[n])
  BY <1>1, <1>3, <1>5
<1>8. Sized'
  BY <1>4, <1>6, <1>7 DEF EInv, Sized, BlockSize
<1>9. Estimated'
  BY <1>4, <1>6 DEF EInv, Estimated
<1>10. Began'
  BY <1>4, <1>6, <1>7 DEF EInv, Began
<1>11. NewBlocks'
  <2>1. AsItWas(I)'
    <3>1. \A k \in 1..2 : k = 1 \/ k = 2
      OBVIOUS
    <3>2. \A k \in 1..Len(code'[I]) : code'[I][k].target \in Original \cup {Return}
      BY <1>2, <1>3, <1>5, <3>1
    <3>. QED
      BY <1>2, <1>4, <3>2 DEF AsItWas, FirstSucc
  <2>2. ASSUME NEW n \in Original, n # I PROVE AsItWas(n)' \/ FollowedByNew(n)'
    <3>1. code'[n] = code[n] /\ (AsItWas(n) \/ FollowedByNew(n))
      BY <1>5, <1>6, <2>2 DEF EInv, NewBlocks
    <3>. QED
      BY <1>4, <1>6, <3>1 DEF AsItWas, FollowedByNew, FirstSucc
  <2>3. \A n \in Numbers \ Original : code'[n][1].target \in Original
    BY <1>1, <1>5 DEF EInv, NewBlocks
  <2>4. \A n \in Original : AsItWas(n)' \/ FollowedByNew(n)'
    BY <1>4, <2>1, <2>2
  <2>. QED
    BY <1>6, <2>3, <2>4 DEF NewBlocks
<1>12. Untouched' => Exact'
  BY <1>4, <1>6, <1>7 DEF EInv, Untouched, Exact, FirstSucc
<1>13. LaidOut'
  BY <1>2, <1>4 DEF EInv, LaidOut, Scanned, SwapDestinations, Fixup, Looking
<1>. QED
  BY <1>4, <1>8, <1>9, <1>10, <1>11, <1>12, <1>13 DEF EInv
\* A step that edits block I makes nothing of what has been scanned.
LEMMA ScannedAnew ==
  ASSUME RInv, EInv, Fixup, changed' = TRUE, UNCHANGED <<I, pc>>,
         NEW place, Layout(place, succ, numBlocks)'
  PROVE  LaidOut'
BY DEF LaidOut, Scanned, Fixup, Looking

LEMMA JumpOverKeepsEstimates ==
  ASSUME RInv, EInv, BranchOverJump
  PROVE  EInv'
<1>1. /\ I \in Original /\ I \in Numbers /\ FBB = None /\ succ[I] \in Numbers /\ Len(code[I]) = 1
      /\ Numbers \subseteq Nat /\ None \notin Numbers
  BY FixupBlock DEF BranchOverJump
<1>2. /\ AsItWas(I) /\ TBB \in Original /\ I # None
      /\ size[I] \in Nat /\ body[I] \in Nat /\ size[I] = body[I] + 2 * Len(code[I])
  BY FixupAsItWas DEF BranchOverJump
<1>3. /\ Len(TurnedRound(succ[I])) = 2 /\ TurnedRound(succ[I])[1].target = succ[I]
      /\ TurnedRound(succ[I])[2].target = TBB
  BY <1>1, TurnedRoundShape DEF BranchOverJump
<1>4. /\ code' = [code EXCEPT ![I] = TurnedRound(succ[I])]
      /\ size' = [size EXCEPT ![I] = @ - InstSize * Len(code[I]) + InstSize * Len(code'[I])]
      /\ offset' = AdjustBlockOffsets(offset, size', succ, I)
      /\ UNCHANGED <<numBlocks, body, succ, code0, I, pc>> /\ changed' = TRUE
  BY DEF BranchOverJump, TurnedRound, Fixed
<1>5. code'[I] = TurnedRound(succ[I]) /\ \A n \in Numbers : n # I => code'[n] = code[n]
  BY <1>1, <1>4 DEF RInv, Shape
<1> HIDE DEF TurnedRound
<1>6. /\ Numbers' = Numbers /\ Original \subseteq Numbers /\ Numbers = 0..(numBlocks - 1)
      /\ numBlocks \in Nat \ {0} /\ 0 \in Numbers
  BY <1>4, RelaxAssumption DEF Numbers, RInv, Shape, Original
<1>7. size'[I] = body[I] + 2 * 2 /\ size'[I] \in Nat /\ \A n \in Numbers : n # I => size'[n] = size[n]
  <2>1. size'[I] = size[I] - InstSize * Len(code[I]) + InstSize * Len(code'[I])
    BY <1>1, <1>4 DEF EInv, Sized
  <2>2. size'[I] = size[I] - 2 * 1 + 2 * 2
    BY <1>1, <1>3, <1>5, <2>1 DEF InstSize
  <2>. QED
    BY <1>1, <1>2, <1>4, <2>2 DEF EInv, Sized
<1>8. size' \in [Numbers -> Nat]
  <2>1. size \in [Numbers -> Nat]
    BY DEF EInv, Sized
  <2>2. PICK s : size' = [size EXCEPT ![I] = s]
    BY <1>4
  <2>3. s \in Nat
    BY <1>1, <1>7, <2>1, <2>2
  <2>. QED
    BY <2>1, <2>2, <2>3
<1>9. PICK place : Layout(place, succ, numBlocks)
  BY DEF EInv, LaidOut
<1>10. Adjusts(place, succ, numBlocks, I, offset, size', offset')
  <2>1. \A n \in Numbers : ~Moved(place, I, n) => n # I
    BY <1>1, <1>6, <1>9 DEF Moved, Layout
  <2>2. \A n \in Numbers : ~Moved(place, I, n) => offset[n] \in Nat
    BY DEF EInv, Sized
  <2>3. \A n \in Numbers : ~Moved(place, I, n) /\ succ[n] # None => offset[n] + size'[n] <= offset[succ[n]]
    BY <1>7, <2>1 DEF EInv, Estimated
  <2>4. offset[I] \in Nat /\ offset[0] = 0
    BY <1>1 DEF EInv, Sized, Estimated
  <2>5. PICK siz, new : siz = size' /\ new = offset'
    OBVIOUS
  <2>6. /\ siz \in [0..(numBlocks - 1) -> Nat] /\ I \in 0..(numBlocks - 1)
        /\ \A n \in 0..(numBlocks - 1) : ~Moved(place, I, n) => offset[n] \in Nat
        /\ \A n \in 0..(numBlocks - 1) :
             ~Moved(place, I, n) /\ succ[n] # None => offset[n] + siz[n] <= offset[succ[n]]
    BY <1>1, <1>6, <1>8, <2>2, <2>3, <2>5
  <2>7. Adjusts(place, succ, numBlocks, I, offset, siz, AdjustBlockOffsets(offset, siz, succ, I))
    BY <1>6, <1>9, <2>4, <2>6, EstimatesAdjusted
  <2>. QED
    BY <1>4, <2>5, <2>7
<1>11. Sized'
  <2>1. \A n \in Numbers : size'[n] = BlockSize(body[n], code'[n])
    <3>1. size'[I] = BlockSize(body[I], code'[I])
      BY <1>3, <1>5, <1>7 DEF BlockSize, InstSize
    <3>2. \A n \in Numbers : n # I => size'[n] = BlockSize(body[n], code'[n])
      BY <1>5, <1>7 DEF EInv, Sized
    <3>. QED
      BY <3>1, <3>2
  <2>. QED
    BY <1>4, <1>6, <1>8, <1>10, <2>1 DEF EInv, Sized, Adjusts
<1>12. Estimated'
  BY <1>4, <1>6, <1>10 DEF Estimated, Adjusts
<1>13. Len(code0[I]) = 1
  BY <1>1 DEF EInv, Began
<1>14. Began'
  <2>1. ASSUME NEW n \in Original
        PROVE  Len(code'[n]) = Len(code0[n]) \/ (Len(code0[n]) = 1 /\ Len(code'[n]) = 2)
    <3>1. CASE n = I
      BY <1>3, <1>5, <1>13, <3>1
    <3>2. CASE n # I
      BY <1>5, <1>6, <3>2 DEF EInv, Began
    <3>. QED
      BY <3>1, <3>2
  <2>. QED
    BY <1>4, <2>1 DEF EInv, Began
<1>15. NewBlocks'
  <2>1. AsItWas(I)'
    <3>1. \A k \in 1..2 : k = 1 \/ k = 2
      OBVIOUS
    <3>2. succ[I] \in Original
      <4>1. I \in 0..(NumBlocks - 1) /\ I # NumBlocks - 1 /\ succ[I] = I + 1 /\ NumBlocks \in Nat
        BY <1>1, <1>2, RelaxAssumption DEF AsItWas, FirstSucc, Original
      <4>. QED
        BY <4>1 DEF Original
    <3>3. \A k \in 1..Len(code'[I]) : code'[I][k].target \in Original \cup {Return}
      BY <1>2, <1>3, <1>5, <3>1, <3>2
    <3>. QED
      BY <1>2, <1>4, <3>3 DEF AsItWas, FirstSucc
  <2>2. ASSUME NEW n \in Original, n # I PROVE AsItWas(n)' \/ FollowedByNew(n)'
    <3>1. code'[n] = code[n] /\ n \in Numbers /\ size'[n] = size[n] /\ (AsItWas(n) \/ FollowedByNew(n))
      BY <1>5, <1>6, <1>7, <2>2 DEF EInv, NewBlocks
    <3>2. CASE AsItWas(n)
      BY <1>4, <1>6, <3>1, <3>2 DEF AsItWas, FirstSucc
    <3>3. CASE FollowedByNew(n)
      <4>1. succ[n] # None /\ succ[n] # I /\ offset[succ[n]] = offset[n] + size'[n]
        BY <1>1, <3>1, <3>3, RelaxAssumption DEF FollowedByNew
      <4>2. offset'[succ[n]] = offset'[n] + size'[n]
        BY <1>6, <1>10, <2>2, <3>1, <4>1 DEF Adjusts
      <4>. QED
        BY <1>4, <1>6, <3>1, <3>3, <4>2 DEF FollowedByNew, FirstSucc
    <3>. QED
      BY <3>1, <3>2, <3>3
  <2>3. \A n \in Numbers \ Original : code'[n][1].target \in Original
    BY <1>1, <1>5 DEF EInv, NewBlocks
  <2>4. \A n \in Original : AsItWas(n)' \/ FollowedByNew(n)'
    BY <1>4, <2>1, <2>2
  <2>. QED
    BY <1>6, <2>3, <2>4 DEF NewBlocks
<1>16. Untouched' => Exact'
  <2>1. CASE I = 0
    BY <1>4, <1>6, <1>10, <2>1 DEF Exact, Adjusts
  <2>2. CASE I # 0
    <3>1. ~Untouched'
      BY <1>1, <1>3, <1>4, <1>5, <1>13, <2>2 DEF Untouched
    <3>. QED
      BY <3>1
  <2>. QED
    BY <2>1, <2>2
<1>17. LaidOut'
  <2>1. Layout(place, succ, numBlocks)'
    BY <1>4, <1>9 DEF Layout
  <2>. QED
    BY <1>4, <2>1, ScannedAnew DEF BranchOverJump
<1>. QED
  BY <1>4, <1>11, <1>12, <1>14, <1>15, <1>16, <1>17 DEF EInv

LEMMA NewBlockKeepsEstimates ==
  ASSUME RInv, EInv, BranchToNewBlock
  PROVE  EInv'
<1>1. /\ I \in Original /\ I \in Numbers /\ FBB # None /\ FBB \in Numbers /\ Len(code[I]) = 2
      /\ Numbers \subseteq Nat /\ None \notin Numbers
  BY FixupBlock DEF BranchToNewBlock
<1>2. /\ AsItWas(I) /\ TBB \in Original /\ FBB \in Original /\ I # None
      /\ size[I] \in Nat /\ body[I] \in Nat /\ size[I] = body[I] + 2 * Len(code[I])
  BY <1>1, FixupAsItWas DEF BranchToNewBlock
<1>3. /\ numBlocks' = numBlocks + 1 /\ numBlocks \in Nat \ {0}
      /\ Numbers = 0..(numBlocks - 1) /\ Numbers' = 0..numBlocks
      /\ numBlocks \notin Numbers /\ Numbers \subseteq Numbers' /\ numBlocks \in Numbers'
      /\ numBlocks # I /\ 0 \in Numbers
      /\ \A n \in Numbers' : n = numBlocks \/ n \in Numbers
      /\ Original \subseteq Numbers /\ None \notin Numbers'
  BY <1>1, RelaxAssumption DEF BranchToNewBlock, RInv, Shape, Numbers, Original
<1>4. /\ Len(TurnedRound(numBlocks)) = 2 /\ TurnedRound(numBlocks)[1].target = numBlocks
      /\ TurnedRound(numBlocks)[2].target = TBB
  BY <1>3, TurnedRoundShape DEF BranchToNewBlock
<1>5. /\ body' = [n \in 0..numBlocks |-> IF n = numBlocks THEN 0 ELSE body[n]]
      /\ code' = [n \in 0..numBlocks |->
                    CASE n = numBlocks -> InsertBranch(<< >>, FBB, None, << >>)
                      [] n = I -> TurnedRound(numBlocks)
                      [] OTHER -> code[n]]
      /\ succ' = [n \in 0..numBlocks |->
                    CASE n = numBlocks -> succ[I] [] n = I -> numBlocks [] OTHER -> succ[n]]
      /\ size' = [n \in 0..numBlocks |->
                    CASE n = numBlocks -> InstSize
                      [] n = I -> size[I] - InstSize * Len(code[I]) + InstSize * Len(code'[I])
                      [] OTHER -> size[n]]
      /\ offset' = AdjustBlockOffsets(offset, size', succ', I)
      /\ UNCHANGED <<code0, I, pc>> /\ changed' = TRUE
  BY DEF BranchToNewBlock, TurnedRound, Fixed
<1> HIDE DEF TurnedRound
<1>6. /\ code'[I] = TurnedRound(numBlocks)
      /\ Len(code'[numBlocks]) = 1 /\ code'[numBlocks][1].target = FBB
      /\ \A n \in Numbers : n # I => code'[n] = code[n]
  <2>1. InsertBranch(<< >>, FBB, None, << >>) = <<Instr("RJMPk", FBB)>>
    <3>1. \A x : Append(<< >>, x) = <<x>>
      OBVIOUS
    <3>. QED
      BY <3>1 DEF InsertBranch
  <2>2. /\ code'[I] = TurnedRound(numBlocks) /\ code'[numBlocks] = <<Instr("RJMPk", FBB)>>
        /\ \A n \in Numbers : n # I => code'[n] = code[n]
    BY <1>1, <1>3, <1>5, <2>1
  <2>. QED
    BY <2>2 DEF Instr
<1>7. /\ succ' \in [Numbers' -> Numbers' \cup {None}]
      /\ succ'[numBlocks] = succ[I] /\ succ'[I] = numBlocks
      /\ \A n \in Numbers : n # I => succ'[n] = succ[n]
  <2>1. succ \in [Numbers -> Numbers \cup {None}]
    BY DEF RInv, Shape
  <2>. QED
    BY <1>1, <1>3, <1>5, <2>1
<1>8. /\ body' \in [Numbers' -> Nat] /\ body'[numBlocks] = 0
      /\ \A n \in Numbers : body'[n] = body[n]
  BY <1>3, <1>5 DEF EInv, Sized
<1>9. /\ size'[numBlocks] = 2 /\ size'[I] = body[I] + 2 * 2
      /\ \A n \in Numbers : n # I => size'[n] = size[n]
  <2>1. size'[I] = size[I] - InstSize * Len(code[I]) + InstSize * Len(code'[I])
    BY <1>1, <1>3, <1>5
  <2>2. size'[I] = size[I] - 2 * 2 + 2 * 2
    BY <1>1, <1>4, <1>6, <2>1 DEF InstSize
  <2>3. size'[I] = body[I] + 2 * 2
    BY <1>1, <1>2, <2>2
  <2>4. size'[numBlocks] = 2 /\ \A n \in Numbers : n # I => size'[n] = size[n]
    BY <1>3, <1>5 DEF InstSize
  <2>. QED
    BY <2>3, <2>4
<1>10. size' \in [Numbers' -> Nat]
  <2>1. DOMAIN size' = Numbers' /\ size' = [n \in Numbers' |-> size'[n]]
    BY <1>3, <1>5
  <2>2. ASSUME NEW n \in Numbers' PROVE size'[n] \in Nat
    <3>1. CASE n = numBlocks
      BY <1>9, <3>1
    <3>2. CASE n = I
      BY <1>2, <1>9, <3>2
    <3>3. CASE n \in Numbers /\ n # I
      BY <1>9, <3>3 DEF EInv, Sized
    <3>. QED
      BY <1>3, <3>1, <3>2, <3>3
  <2>. QED
    BY <2>1, <2>2
<1>11. PICK old : Layout(old, succ, numBlocks)
  BY DEF EInv, LaidOut
<1>12. PICK place, next, siz, new, M :
         /\ place = Shifted(old, I, numBlocks) /\ next = succ' /\ siz = size' /\ new = offset'
         /\ M = numBlocks + 1 /\ M - 1 = numBlocks
  BY <1>3
<1>13. M \in Nat \ {0} /\ Numbers' = 0..(M - 1) /\ Layout(place, next, M) /\ numBlocks' = M
  <2>1. /\ next \in [0..numBlocks -> 0..numBlocks \cup {None}]
        /\ next[numBlocks] = succ[I] /\ next[I] = numBlocks
        /\ \A n \in 0..(numBlocks - 1) : n # I => next[n] = succ[n]
    BY <1>3, <1>7, <1>12
  <2>2. Layout(Shifted(old, I, numBlocks), next, numBlocks + 1)
    BY <1>1, <1>3, <1>11, <2>1, InsertedLayout
  <2>. QED
    BY <1>3, <1>12, <2>2
<1>14. Adjusts(place, next, M, I, offset, siz, new)
  <2>1. ASSUME NEW n \in 0..(M - 1), ~Moved(place, I, n) PROVE n \in Numbers /\ n # I
    <3>1. place[I] \in Nat /\ old[I] \in Nat
      BY <1>1, <1>3, <1>11, <1>13 DEF Layout
    <3>2. place[I] = old[I] /\ place[numBlocks] = old[I] + 1
      BY <1>1, <1>3, <1>12, <3>1 DEF Shifted
    <3>3. Moved(place, I, I) /\ Moved(place, I, numBlocks)
      BY <3>1, <3>2 DEF Moved
    <3>. QED
      BY <1>3, <1>13, <2>1, <3>3
  <2>2. \A n \in 0..(M - 1) : ~Moved(place, I, n) => offset[n] \in Nat
    BY <2>1 DEF EInv, Sized
  <2>3. \A n \in 0..(M - 1) : ~Moved(place, I, n) /\ next[n] # None => offset[n] + siz[n] <= offset[next[n]]
    BY <1>7, <1>9, <1>12, <2>1 DEF EInv, Estimated
  <2>4. offset[I] \in Nat /\ offset[0] = 0
    BY <1>1 DEF EInv, Sized, Estimated
  <2>5. siz \in [0..(M - 1) -> Nat] /\ I \in 0..(M - 1)
    BY <1>1, <1>3, <1>10, <1>12, <1>13
  <2>6. Adjusts(place, next, M, I, offset, siz, AdjustBlockOffsets(offset, siz, next, I))
    BY <1>13, <2>2, <2>3, <2>4, <2>5, EstimatesAdjusted
  <2>. QED
    BY <1>5, <1>12, <2>6
<1>15. Sized'
  <2>1. ASSUME NEW n \in Numbers' PROVE size'[n] = BlockSize(body'[n], code'[n])
    <3>1. CASE n = numBlocks
      <4>1. size'[n] = 2 /\ body'[n] = 0 /\ Len(code'[n]) = 1
        BY <1>6, <1>8, <1>9, <3>1
      <4>. QED
        BY <4>1 DEF BlockSize, InstSize
    <3>2. CASE n = I
      BY <1>1, <1>4, <1>6, <1>8, <1>9, <3>2 DEF BlockSize, InstSize
    <3>3. CASE n \in Numbers /\ n # I
      BY <1>6, <1>8, <1>9, <3>3 DEF EInv, Sized
    <3>. QED
      BY <1>3, <3>1, <3>2, <3>3
  <2>2. offset' \in [Numbers' -> Nat]
    BY <1>12, <1>13, <1>14 DEF Adjusts
  <2>. QED
    BY <1>8, <1>10, <2>1, <2>2 DEF Sized
<1>16. Estimated'
  <2>1. offset'[0] = 0
    BY <1>12, <1>14 DEF Adjusts
  <2>2. \A n \in Numbers' : succ'[n] # None => offset'[n] + size'[n] <= offset'[succ'[n]]
    BY <1>12, <1>13, <1>14 DEF Adjusts
  <2>. QED
    BY <2>1, <2>2 DEF Estimated
<1>17. Began'
  <2>1. ASSUME NEW n \in Original
        PROVE  Len(code'[n]) = Len(code0[n]) \/ (Len(code0[n]) = 1 /\ Len(code'[n]) = 2)
    <3>1. Len(code'[n]) = Len(code[n])
      BY <1>1, <1>3, <1>4, <1>6
    <3>. QED
      BY <3>1 DEF EInv, Began
  <2>. QED
    BY <1>5, <2>1 DEF EInv, Began
<1>18. \A n \in Original : FirstSucc(n) # numBlocks /\ FirstSucc(n)' = FirstSucc(n)
  <2>1. \A n \in Original : FirstSucc(n) \in Original \cup {None}
    BY RelaxAssumption DEF FirstSucc, Original
  <2>. QED
    BY <1>3, <2>1 DEF FirstSucc
<1>19. NewBlocks'
  <2>1. FollowedByNew(I)'
    <3>1. offset'[numBlocks] = offset'[I] + size'[I]
      BY <1>1, <1>3, <1>7, <1>12, <1>13, <1>14 DEF Adjusts
    <3>2. succ'[numBlocks] = FirstSucc(I)
      BY <1>2, <1>7 DEF AsItWas
    <3>3. numBlocks \in Numbers' \ Original
      BY <1>3
    <3>4. /\ succ'[I] = numBlocks /\ Len(code'[I]) = 2 /\ code'[I][1].target = numBlocks
          /\ code'[I][2].target \in Original
      BY <1>2, <1>4, <1>6, <1>7
    <3>5. I' = I /\ FirstSucc(I)' = FirstSucc(I)
      BY <1>1, <1>5, <1>18
    <3>. QED
      BY <3>1, <3>2, <3>3, <3>4, <3>5 DEF FollowedByNew
  <2>2. ASSUME NEW n \in Original, n # I PROVE AsItWas(n)' \/ FollowedByNew(n)'
    <3>1. /\ code'[n] = code[n] /\ succ'[n] = succ[n] /\ n \in Numbers /\ size'[n] = size[n]
          /\ AsItWas(n) \/ FollowedByNew(n)
      BY <1>3, <1>6, <1>7, <1>9, <2>2 DEF EInv, NewBlocks
    <3>2. CASE AsItWas(n)
      BY <1>18, <3>1, <3>2 DEF AsItWas
    <3>3. CASE FollowedByNew(n)
      <4>1. /\ succ[n] \in Numbers \ Original /\ succ[n] # None /\ succ[n] # I
            /\ offset[succ[n]] = offset[n] + size'[n]
        BY <1>1, <3>1, <3>3 DEF FollowedByNew
      <4>2. offset'[succ[n]] = offset'[n] + size'[n]
        BY <1>3, <1>12, <1>13, <1>14, <2>2, <3>1, <4>1 DEF Adjusts
      <4>3. succ'[succ[n]] = FirstSucc(n)
        BY <1>7, <3>3, <4>1 DEF FollowedByNew
      <4>. QED
        BY <1>3, <1>18, <3>1, <3>3, <4>1, <4>2, <4>3 DEF FollowedByNew
    <3>. QED
      BY <3>1, <3>2, <3>3
  <2>3. \A n \in Numbers' \ Original : code'[n][1].target \in Original
    BY <1>1, <1>2, <1>3, <1>6 DEF EInv, NewBlocks
  <2>4. \A n \in Original : AsItWas(n)' \/ FollowedByNew(n)'
    BY <1>5, <2>1, <2>2
  <2>. QED
    BY <2>3, <2>4 DEF NewBlocks
<1>20. Untouched' => Exact'
  <2>1. CASE I = 0
    <3>1. \A n \in Numbers' : succ'[n] # None => offset'[succ'[n]] = offset'[n] + size'[n]
      BY <1>12, <1>13, <1>14, <2>1 DEF Adjusts
    <3>. QED
      BY <3>1 DEF Exact
  <2>2. CASE I # 0
    <3>1. ~Untouched'
      BY <1>1, <1>7, <1>18, <2>2 DEF Untouched
    <3>. QED
      BY <3>1
  <2>. QED
    BY <2>1, <2>2
<1>21. LaidOut'
  <2>1. Layout(place, succ, numBlocks)'
    BY <1>12, <1>13 DEF Layout
  <2>. QED
    BY <1>5, <2>1, ScannedAnew DEF BranchToNewBlock
<1>. QED
  BY <1>5, <1>15, <1>16, <1>17, <1>19, <1>20, <1>21 DEF EInv, BranchToNewBlock

\* A block with nothing left to fix is in range.
LEMMA LeftInRange ==
  ASSUME RInv, EInv, Looking("cond"), ~Fixup, JumpReaches
  PROVE  Reaching(I)
<1>1. I \in Numbers /\ I # None /\ Relaxable(code[I])
  BY DEF Looking, RInv, Shape
<1>2. HasCond => IsBlockInRange(I, 1, TBB)
  BY DEF Fixup
<1> SUFFICES ASSUME NEW k \in 1..Len(code[I]), code[I][k].op \in CondBranches \cup {"RJMPk"}
             PROVE  IsBlockInRange(I, k, code[I][k].target)
  BY DEF Reaching
<1>3. Len(code[I]) \in {1, 2} /\ code[I] # << >> /\ (k = 1 \/ (k = 2 /\ Len(code[I]) = 2))
  BY <1>1 DEF Relaxable
<1>4. CASE k = 1 /\ code[I][1].op \in CondBranches
  BY <1>2, <1>3, <1>4 DEF HasCond, TBB
<1>5. CASE k = Len(code[I]) /\ code[I][k].op = "RJMPk"
  BY <1>3, <1>5 DEF JumpReaches, EndsInJump
<1>6. code[I][k].op = "RJMPk" => k = Len(code[I])
  BY <1>1, <1>3 DEF Relaxable, CondBranches
<1>7. code[I][k].op \in CondBranches => k = 1
  BY <1>1, <1>3 DEF Relaxable, CondBranches
<1>. QED
  BY <1>4, <1>5, <1>6, <1>7

LEMMA AdvanceScans ==
  ASSUME RInv, EInv, Advance
  PROVE  LaidOut'
<1>1. PICK place : Layout(place, succ, numBlocks) /\ Scanned(place)
  BY DEF EInv, LaidOut
<1>2. /\ I \in Numbers /\ I # None /\ I' = succ[I] /\ pc = "cond" /\ pc' = "jump"
      /\ UNCHANGED <<function, offset, changed>>
  BY DEF Advance, Looking, blockInfo, RInv, Shape
<1>3. Numbers = 0..(numBlocks - 1)
  BY DEF Numbers
<1>4. Layout(place, succ, numBlocks)'
  BY <1>1, <1>2 DEF Layout, function
<1>5. ASSUME NEW n \in Numbers, ~changed, place[n] <= place[I] PROVE Reaching(n)
  <2>1. CASE n = I
    BY <1>1, <1>2, <1>5, <2>1, LeftInRange DEF Advance, Scanned
  <2>2. CASE n # I
    <3>1. place[n] # place[I] /\ place[n] \in 0..(numBlocks - 1) /\ place[I] \in 0..(numBlocks - 1)
      BY <1>1, <1>2, <1>3, <2>2 DEF Layout
    <3>2. place[n] < place[I]
      BY <1>5, <3>1
    <3>. QED
      BY <1>1, <1>2, <1>5, <3>2 DEF Scanned
  <2>. QED
    BY <2>1, <2>2
<1>6. ASSUME NEW n \in Numbers, ~changed, I' # None => place[n] < place[I'] PROVE Reaching(n)
  <2>1. PICK p \in 0..(numBlocks - 1), q \in 0..(numBlocks - 1) : p = place[n] /\ q = place[I]
    BY <1>1, <1>2, <1>3 DEF Layout
  <2>2. CASE I' = None
    <3>1. q = numBlocks - 1
      BY <1>1, <1>2, <1>3, <2>1, <2>2 DEF Layout
    <3>2. p <= q
      BY <3>1
    <3>. QED
      BY <1>5, <1>6, <2>1, <3>2
  <2>3. CASE I' # None
    <3>1. place[I'] = q + 1
      BY <1>1, <1>2, <1>3, <2>1, <2>3 DEF Layout
    <3>2. p <= q
      BY <1>6, <2>1, <2>3, <3>1
    <3>. QED
      BY <1>5, <1>6, <2>1, <3>2
  <2>. QED
    BY <2>2, <2>3
<1>7. \A n : Reaching(n)' <=> Reaching(n)
  BY <1>2 DEF Reaching, IsBlockInRange, InstrOffset, function
<1>8. Scanned(place)'
  BY <1>2, <1>6, <1>7 DEF Scanned, Numbers, function
<1>. QED
  BY <1>4, <1>8 DEF LaidOut

\* The other steps edit nothing.
LEMMA LookingKeepsEstimates ==
  ASSUME RInv, EInv,
         JumpTooFar \/ JumpIsFine \/ Advance \/ AnotherPass \/ Finish \/ Ended \/ UNCHANGED vars
  PROVE  EInv'
<1>1. UNCHANGED <<code0, function, blockInfo>>
  BY DEF JumpTooFar, JumpIsFine, Advance, AnotherPass, Finish, Ended, vars
<1>2. /\ UNCHANGED <<code0, numBlocks, body, code, succ, offset, size>> /\ Numbers' = Numbers
  BY <1>1 DEF function, blockInfo, Numbers
<1>3. Sized' /\ Estimated' /\ Began'
  BY <1>2 DEF EInv, Sized, Estimated, Began
<1>4. NewBlocks'
  BY <1>2 DEF EInv, NewBlocks, AsItWas, FollowedByNew, FirstSucc
<1>5. Untouched' => Exact'
  BY <1>2 DEF EInv, Untouched, Exact, FirstSucc
<1>6. changed' \in BOOLEAN /\ pc' \in {"jump", "cond", "done", "unimplemented"}
  BY DEF EInv, JumpTooFar, JumpIsFine, Advance, AnotherPass, Finish, Ended, vars
<1>7. LaidOut'
  <2>1. CASE Advance
    BY <2>1, AdvanceScans
  <2>2. CASE ~Advance
    <3>1. PICK place : Layout(place, succ, numBlocks) /\ Scanned(place)
      BY DEF EInv, LaidOut
    <3>2. Layout(place, succ, numBlocks)'
      BY <1>2, <3>1 DEF Layout
    <3>3. \A n : Reaching(n)' <=> Reaching(n)
      BY <1>2 DEF Reaching, IsBlockInRange, InstrOffset
    <3>4. Scanned(place)'
      <4>1. CASE JumpTooFar
        BY <1>2, <3>1, <3>3, <4>1 DEF JumpTooFar, Scanned, Looking
      <4>2. CASE JumpIsFine
        <5>1. JumpReaches'
          BY <1>2, <4>2 DEF JumpIsFine, JumpReaches, EndsInJump, IsBlockInRange, InstrOffset
        <5>. QED
          BY <1>2, <3>1, <3>3, <4>2, <5>1 DEF JumpIsFine, Scanned, Looking
      <4>3. CASE AnotherPass
        <5>1. ASSUME NEW n \in Numbers PROVE ~(place[n] < place[0])
          <6>1. place[0] = 0 /\ place[n] \in 0..(numBlocks - 1)
            BY <3>1 DEF Layout, Numbers
          <6>. QED
            BY <6>1
        <5>2. 0 # None
          BY RelaxAssumption
        <5>. QED
          BY <1>2, <4>3, <5>1, <5>2 DEF AnotherPass, Scanned
      <4>4. CASE Finish
        BY <1>2, <3>1, <3>3, <4>4 DEF Finish, Scanned
      <4>5. CASE UNCHANGED vars
        <5>1. JumpReaches' <=> JumpReaches
          BY <1>2, <4>5 DEF vars, JumpReaches, EndsInJump, IsBlockInRange, InstrOffset
        <5>. QED
          BY <1>2, <3>1, <3>3, <4>5, <5>1 DEF vars, Scanned
      <4>. QED
        BY <2>2, <4>1, <4>2, <4>3, <4>4, <4>5 DEF Ended
    <3>. QED
      BY <3>2, <3>4 DEF LaidOut
  <2>. QED
    BY <2>1, <2>2
<1>. QED
  BY <1>3, <1>4, <1>5, <1>6, <1>7 DEF EInv

LEMMA RelaxStepKeepsEstimates ==
  ASSUME RInv, EInv, [Next]_vars
  PROVE  EInv'
<1>1. CASE SwapDestinations
  BY <1>1, SwapKeepsEstimates
<1>2. CASE BranchOverJump
  BY <1>2, JumpOverKeepsEstimates
<1>3. CASE BranchToNewBlock
  BY <1>3, NewBlockKeepsEstimates
<1>4. CASE JumpTooFar \/ JumpIsFine \/ Advance \/ AnotherPass \/ Finish \/ Ended \/ UNCHANGED vars
  BY <1>4, LookingKeepsEstimates
<1>. QED
  BY <1>1, <1>2, <1>3, <1>4 DEF Next, Relax

(***************************************************************************)
(* The inductive invariant: the shape of the function and its control; the *)
(* sizes as they are and the estimates not behind them; which blocks have  *)
(* a new block behind them; estimates that are exact as long as no block   *)
(* but the first has been edited; and, in a pass that has changed nothing, *)
(* the blocks behind the iterator found in range.                          *)
(***************************************************************************)
THEOREM EstimatesInvariant == Spec => [](RInv /\ EInv)
<1>1. RInv /\ EInv /\ [Next]_vars => (RInv /\ EInv)'
  BY RelaxStep, RelaxStepKeepsEstimates
<1>. QED
  BY <1>1, InitRelax, InitEstimates, PTL DEF Spec
----------------------------------------------------------------------------
(***************************************************************************)
(* Every state is well typed and every block can be fixed again.           *)
(***************************************************************************)
THEOREM RelaxTypesHold == Spec => []RelaxTypeOK
<1>1. RInv /\ EInv => RelaxTypeOK
  BY DEF RInv, Shape, EInv, Sized, RelaxTypeOK
<1>. QED
  BY <1>1, EstimatesInvariant, PTL

(***************************************************************************)
(* verify never fails: sizes are recorded as they are, and no distance is  *)
(* underestimated.                                                         *)
(***************************************************************************)
THEOREM DistancesNeverUnderestimated == Spec => []VerifyHolds
<1>1. RInv /\ EInv => VerifyHolds
  BY DEF EInv, Sized, Estimated, VerifyHolds
<1>. QED
  BY <1>1, EstimatesInvariant, PTL

(***************************************************************************)
(* fixupConditionalBranch puts at most one block behind each.              *)
(***************************************************************************)
THEOREM NewBlocksStayFew == Spec => []OneNewBlockEach
<1>1. RInv /\ EInv => OneNewBlockEach
  BY DEF EInv, NewBlocks, AsItWas, FollowedByNew, OneNewBlockEach
<1>. QED
  BY <1>1, EstimatesInvariant, PTL
----------------------------------------------------------------------------
\* Where a block that can be relaxed goes.
Destination(b, v, next) ==
  IF b = << >> THEN next
  ELSE IF b[1].op \in CondBranches
    THEN IF TakenOn[b[1].op] \in v THEN b[1].target ELSE IF Len(b) = 2 THEN b[2].target ELSE next
    ELSE b[1].target

LEMMA RelaxableGoes ==
  ASSUME NEW b \in Seq(Instructions), Relaxable(b), NEW v, NEW next, NEW dest
  PROVE  Goes(b, v, next, dest) <=> dest = Destination(b, v, next)
<1>1. CASE b = << >>
  BY <1>1 DEF Goes, GoesFrom, Destination
<1>2. CASE b # << >> /\ b[1].op \in CondBranches
  BY <1>2, BranchGoes DEF Destination
<1>3. CASE b # << >> /\ b[1].op \notin CondBranches
  <2>1. Len(b) = 1 /\ Leaves(b[1], v)
    BY <1>3 DEF Relaxable, Leaves
  <2>2. /\ \A k \in 1..1 : k = 1
        /\ \A j \in 1..0 : FALSE
    OBVIOUS
  <2>3. Goes(b, v, next, dest) <=> \E k \in 1..1 : Leaves(b[k], v) /\ b[k].target = dest
                                      /\ \A j \in 1..(k-1) : ~Leaves(b[j], v)
    BY <2>1 DEF Goes, GoesFrom
  <2>. QED
    BY <1>3, <2>1, <2>2, <2>3 DEF Destination
<1>. QED
  BY <1>1, <1>2, <1>3

LEMMA ControlIsKept ==
  ASSUME RInv, EInv
  PROVE  ControlKept
<1>1. PICK goal \in [Numbers \cup {Return} -> Original \cup {Return}] : Explains(goal)
  BY DEF RInv, ControlKeptThroughNewBlocks
<1>2. /\ Original \subseteq Numbers /\ Numbers \subseteq Nat /\ None \notin Numbers /\ Return # None
      /\ Return \notin Numbers
  BY RelaxAssumption DEF RInv, Shape, Numbers, Original
<1>3. \A n \in Original \cup {Return} : goal[n] = n
  BY <1>1 DEF Explains
<1>4. ASSUME NEW new \in Numbers \ Original
      PROVE  /\ code[new][1].target \in Original /\ goal[new] = code[new][1].target
             /\ \A v, dest : Goes(code[new], v, succ[new], dest) <=> dest = code[new][1].target
  <2>1. PICK t \in Numbers : code[new] = <<Instr("RJMPk", t)>>
    BY DEF RInv, NewBlocksJump
  <2>2. code[new][1].target = t
    BY <2>1 DEF Instr
  <2>3. t \in Original /\ goal[new] = t
    BY <1>1, <1>3, <2>2 DEF EInv, NewBlocks, Explains
  <2>4. \A v, dest : Goes(code[new], v, succ[new], dest) <=> dest = t
    BY <2>1, JumpGoes
  <2>. QED
    BY <2>2, <2>3, <2>4
<1> SUFFICES ASSUME NEW n \in Original, NEW v \in Valuations, NEW dest \in Original \cup {Return}
             PROVE  Arrives(n, v, dest) <=> Goes(code0[n], v, FirstSucc(n), dest)
  BY DEF ControlKept
<1>5. \A d \in Numbers \cup {Return} :
        Goes(code[n], v, succ[n], d) => Goes(code0[n], v, FirstSucc(n), goal[d])
  BY <1>1 DEF Explains
<1>6. ASSUME Arrives(n, v, dest) PROVE Goes(code0[n], v, FirstSucc(n), dest)
  <2>1. CASE Goes(code[n], v, succ[n], dest)
    BY <1>2, <1>3, <1>5, <2>1
  <2>2. CASE \E new \in Numbers \ Original :
               Goes(code[n], v, succ[n], new) /\ Goes(code[new], v, succ[new], dest)
    <3>1. PICK new \in Numbers \ Original :
            Goes(code[n], v, succ[n], new) /\ Goes(code[new], v, succ[new], dest)
      BY <2>2
    <3>2. goal[new] = dest
      BY <1>4, <3>1
    <3>. QED
      BY <1>5, <3>1, <3>2
  <2>. QED
    BY <1>6, <2>1, <2>2 DEF Arrives
<1>7. ASSUME Goes(code0[n], v, FirstSucc(n), dest) PROVE Arrives(n, v, dest)
  <2> DEFINE d == Destination(code[n], v, succ[n])
  <2>1. /\ n \in Numbers /\ code[n] \in Seq(Instructions) /\ Relaxable(code[n])
        /\ \A k \in 1..Len(code[n]) : code[n][k].target \in Numbers \cup {Return}
        /\ code[n] = << >> \/ code[n][Len(code[n])].op \in CondBranches => succ[n] # None
        /\ succ[n] \in Numbers \cup {None}
    BY <1>2 DEF RInv, Shape
  <2>2. Goes(code[n], v, succ[n], d)
    BY <2>1, RelaxableGoes
  <2>3. d \in Numbers \cup {Return}
    BY <2>1 DEF Destination, Relaxable
  <2> HIDE DEF d
  <2>4. goal[d] = dest
    <3>1. code0[n] \in Seq(Instructions) /\ Relaxable(code0[n])
      BY DEF EInv, Began
    <3>2. Goes(code0[n], v, FirstSucc(n), goal[d])
      BY <1>5, <2>2, <2>3
    <3>. QED
      BY <1>7, <3>1, <3>2, RelaxableGoes
  <2>5. CASE d \in Original \cup {Return}
    BY <1>3, <2>2, <2>4, <2>5 DEF Arrives
  <2>6. CASE d \in Numbers \ Original
    BY <1>4, <2>2, <2>4, <2>6 DEF Arrives
  <2>. QED
    BY <2>3, <2>5, <2>6
<1>. QED
  BY <1>6, <1>7

(***************************************************************************)
(* Every block of the original function goes where it went, under every    *)
(* condition and through at most one new block, at every step of the pass. *)
(***************************************************************************)
THEOREM RelaxationKeepsEveryEdge == Spec => [](ControlKept /\ RelaxKeepsControl)
<1>1. RInv /\ EInv => ControlKept /\ RelaxKeepsControl
  BY ControlIsKept DEF RelaxKeepsControl
<1>. QED
  BY <1>1, EstimatesInvariant, PTL
----------------------------------------------------------------------------
(***************************************************************************)
(* Where the blocks are.                                                   *)
(***************************************************************************)
\* Two ways to place the blocks, the second with gaps.
Widens(N, next, siz, T, E) ==
  /\ siz \in [0..(N - 1) -> Nat] /\ T \in [0..(N - 1) -> Nat] /\ E \in [0..(N - 1) -> Nat]
  /\ \A n \in 0..(N - 1) : next[n] # None => T[next[n]] = T[n] + siz[n]
  /\ \A n \in 0..(N - 1) : next[n] # None => E[n] + siz[n] <= E[next[n]]

Wider(siz, T, E, m, n) ==
  /\ T[m] <= T[n] /\ T[n] - T[m] <= E[n] - E[m]
  /\ m # n => T[m] + siz[m] <= T[n]

LEMMA GapsWiden ==
  ASSUME NEW N \in Nat, NEW place, NEW next, Layout(place, next, N),
         NEW siz, NEW T, NEW E, Widens(N, next, siz, T, E),
         NEW m \in 0..(N - 1), NEW n \in 0..(N - 1), place[m] <= place[n]
  PROVE  Wider(siz, T, E, m, n)
<1> DEFINE Good == {d \in Nat : \E k \in 0..(N - 1) :
                                   place[k] = place[m] + d /\ Wider(siz, T, E, m, k)}
<1>1. /\ \A k \in 0..(N - 1) : place[k] \in 0..(N - 1)
      /\ \A j, k \in 0..(N - 1) : place[j] = place[k] => j = k
      /\ \A k \in 0..(N - 1) : next[k] = None => place[k] = N - 1
      /\ \A k \in 0..(N - 1) : next[k] # None => next[k] \in 0..(N - 1) /\ place[next[k]] = place[k] + 1
  BY SMTT(30) DEF Layout
<1>2. PICK p \in 0..(N - 1), q \in 0..(N - 1) : p = place[m] /\ q = place[n] /\ p <= q
  BY <1>1
<1>3. 0 \in Good
  <2>1. Wider(siz, T, E, m, m)
    <3>1. PICK t, e \in Nat : t = T[m] /\ e = E[m]
      BY DEF Widens
    <3>. QED
      BY <3>1 DEF Wider
  <2>2. place[m] = place[m] + 0
    BY <1>2
  <2>. QED
    BY <2>1, <2>2
<1>4. ASSUME NEW d \in 0..(q - p - 1), d \in Good PROVE d + 1 \in Good
  <2>1. PICK k \in 0..(N - 1) : place[k] = p + d /\ Wider(siz, T, E, m, k)
    BY <1>2, <1>4
  <2>2. p + d # N - 1
    BY <1>2
  <2>3. next[k] \in 0..(N - 1) /\ place[next[k]] = p + d + 1 /\ next[k] # None
    BY <1>1, <2>1, <2>2
  <2>4. T[next[k]] = T[k] + siz[k] /\ E[k] + siz[k] <= E[next[k]]
    BY <2>3 DEF Widens
  <2>5. Wider(siz, T, E, m, next[k])
    <3>1. PICK tm, tk, tj, em, ek, ej, sk, sm \in Nat :
            /\ tm = T[m] /\ tk = T[k] /\ tj = T[next[k]] /\ em = E[m] /\ ek = E[k]
            /\ ej = E[next[k]] /\ sk = siz[k] /\ sm = siz[m]
      BY <2>3 DEF Widens
    <3>2. tj = tk + sk /\ ek + sk <= ej /\ tm <= tk /\ tk - tm <= ek - em
      BY <2>1, <2>4, <3>1 DEF Wider
    <3>3. tm <= tj /\ tj - tm <= ej - em
      BY <3>2
    <3>4. tm + sm <= tj
      <4>1. CASE m = k
        BY <3>1, <3>2, <4>1
      <4>2. CASE m # k
        <5>1. tm + sm <= tk
          BY <2>1, <3>1, <4>2 DEF Wider
        <5>. QED
          BY <3>2, <5>1
      <4>. QED
        BY <4>1, <4>2
    <3>. QED
      BY <3>1, <3>3, <3>4 DEF Wider
  <2>6. place[m] + (d + 1) = p + d + 1
    BY <1>2
  <2>. QED
    BY <2>3, <2>5, <2>6
<1>5. q - p \in Good
  <2>1. q - p \in Nat /\ 0..(q - p - 1) = 0..((q - p) - 1)
    BY <1>2
  <2> HIDE DEF Good
  <2>. QED
    BY <1>3, <1>4, <2>1, Reaches
<1>6. PICK k \in 0..(N - 1) : place[k] = place[m] + (q - p) /\ Wider(siz, T, E, m, k)
  BY <1>5
<1>7. k = n
  BY <1>1, <1>2, <1>6
<1>. QED
  BY <1>6, <1>7

\* The true offsets are sums of sizes.
LEMMA TrueOffsets ==
  ASSUME RInv, EInv, NEW place, Layout(place, succ, numBlocks)
  PROVE  \E T \in [0..(numBlocks - 1) -> Nat] :
           /\ T[0] = 0 /\ \A n \in Numbers : T[n] = TrueOffset(n)
           /\ \A n \in 0..(numBlocks - 1) : succ[n] # None => T[succ[n]] = T[n] + size[n]
<1>1. /\ Numbers = 0..(numBlocks - 1) /\ numBlocks \in Nat /\ 0 \in Numbers
      /\ size \in [0..(numBlocks - 1) -> Nat] /\ offset \in [0..(numBlocks - 1) -> Nat]
  BY RelaxAssumption DEF RInv, Shape, Numbers, EInv, Sized
<1>2. PICK T : T = AdjustBlockOffsets(offset, size, succ, 0)
  OBVIOUS
<1>3. \A n \in 0..(numBlocks - 1) : place[n] \in 0..(numBlocks - 1) /\ place[0] = 0
  BY DEF Layout
<1>4. /\ T \in [0..(numBlocks - 1) -> Nat] /\ T[0] = 0
      /\ \A n \in 0..(numBlocks - 1) : succ[n] # None => T[succ[n]] = T[n] + size[n]
  <2>1. \A n \in 0..(numBlocks - 1) : Moved(place, 0, n)
    BY <1>3 DEF Moved
  <2>2. offset[0] \in Nat /\ offset[0] = 0 /\ numBlocks \in Nat \ {0}
    BY <1>1 DEF EInv, Estimated
  <2>3. Adjusts(place, succ, numBlocks, 0, offset, size, T)
    BY <1>1, <1>2, <2>1, <2>2, EstimatesAdjusted
  <2>. QED
    BY <2>3 DEF Adjusts
<1>5. ASSUME NEW n \in Numbers PROVE T[n] = TrueOffset(n)
  <2>1. From(succ, 0) = Numbers
    <3>1. Rest(place, 0) = Numbers
      BY <1>1, <1>3 DEF Rest, Layout
    <3>. QED
      BY <1>1, <3>1, FromIsRest
  <2>2. size = [m \in Numbers |-> BlockSize(body[m], code[m])]
    BY DEF EInv, Sized
  <2>3. T[n] = 0 + SumFunctionOnSet(size, Numbers \ From(succ, n))
    BY <1>1, <1>2, <2>1 DEF AdjustBlockOffsets
  <2>4. TrueOffset(n) = SumFunctionOnSet(size, Numbers \ From(succ, n))
    BY <2>2 DEF TrueOffset
  <2>5. PICK s : s = SumFunctionOnSet(size, Numbers \ From(succ, n))
    OBVIOUS
  <2>6. s \in Nat
    <3>1. IsFiniteSet(0..(numBlocks - 1))
      BY <1>1, FS_Interval
    <3>2. PICK D : D = Numbers \ From(succ, n) /\ IsFiniteSet(D) /\ D \subseteq Numbers
      BY <1>1, <3>1, FS_Subset
    <3>3. \A x \in D : size[x] \in Nat
      BY <1>1, <3>2
    <3>4. 0 \in Nat /\ \A a, b \in Nat : a + b \in Nat
      OBVIOUS
    <3>. QED
      BY <2>5, <3>2, <3>3, <3>4, SumIsIn
  <2>. QED
    BY <2>3, <2>4, <2>5, <2>6
<1>. QED
  BY <1>4, <1>5

(***************************************************************************)
(* BlockInfo.Offset is the distance from the beginning of the function     *)
(* until the pass edits a block other than the first.                      *)
(***************************************************************************)
THEOREM OffsetsExactUntilRelaxed == Spec => []ExactUntilRelaxed
<1>1. ASSUME RInv, EInv PROVE ExactUntilRelaxed
  <2> SUFFICES ASSUME \A n \in Original \ {0} : code[n] = code0[n], NEW n \in Numbers
               PROVE  offset[n] = TrueOffset(n)
    BY DEF ExactUntilRelaxed
  <2>1. Untouched
    <3>1. ASSUME NEW b \in Original \ {0} PROVE succ[b] = FirstSucc(b)
      <4>1. ASSUME FollowedByNew(b) PROVE FALSE
        <5>1. 1 \in 1..Len(code0[b]) /\ code0[b][1].target = succ[b] /\ succ[b] \in Numbers \ Original
          BY <4>1 DEF FollowedByNew
        <5>2. code0[b][1].target \in Original \cup {Return}
          BY <1>1, <5>1 DEF EInv, Began
        <5>3. Return \notin Numbers
          BY <1>1, RelaxAssumption DEF RInv, Shape, Numbers
        <5>. QED
          BY <5>1, <5>2, <5>3
      <4>. QED
        BY <1>1, <4>1 DEF EInv, NewBlocks, AsItWas
    <3>. QED
      BY <3>1 DEF Untouched
  <2>2. /\ Numbers = 0..(numBlocks - 1) /\ numBlocks \in Nat /\ 0 \in Numbers
        /\ size \in [0..(numBlocks - 1) -> Nat] /\ offset \in [0..(numBlocks - 1) -> Nat]
        /\ offset[0] = 0
    BY <1>1, RelaxAssumption DEF RInv, Shape, Numbers, EInv, Sized, Estimated
  <2>3. PICK place : Layout(place, succ, numBlocks)
    BY <1>1 DEF EInv, LaidOut
  <2>4. PICK T \in [0..(numBlocks - 1) -> Nat] :
           /\ T[0] = 0 /\ \A b \in Numbers : T[b] = TrueOffset(b)
           /\ \A b \in 0..(numBlocks - 1) : succ[b] # None => T[succ[b]] = T[b] + size[b]
    BY <1>1, <2>3, TrueOffsets
  <2>5. \A b \in 0..(numBlocks - 1) : succ[b] # None => offset[succ[b]] = offset[b] + size[b]
    BY <1>1, <2>1, <2>2 DEF EInv, Exact
  <2>6. \A b \in 0..(numBlocks - 1) : succ[b] # None => succ[b] \in 0..(numBlocks - 1)
    BY <2>3 DEF Layout
  <2>7. place[0] <= place[n]
    BY <2>2, <2>3 DEF Layout
  <2>8. T[n] - T[0] <= offset[n] - offset[0]
    <3>1. \A b \in 0..(numBlocks - 1) : succ[b] # None => offset[b] + size[b] <= offset[succ[b]]
      BY <2>2, <2>5, <2>6
    <3>2. Widens(numBlocks, succ, size, T, offset)
      BY <2>2, <2>4, <3>1 DEF Widens
    <3>. QED
      BY <2>2, <2>3, <2>7, <3>2, GapsWiden DEF Wider
  <2>9. offset[n] - offset[0] <= T[n] - T[0]
    <3>1. \A b \in 0..(numBlocks - 1) : succ[b] # None => T[b] + size[b] <= T[succ[b]]
      BY <2>2, <2>4, <2>6
    <3>2. Widens(numBlocks, succ, size, offset, T)
      BY <2>2, <2>4, <2>5, <3>1 DEF Widens
    <3>. QED
      BY <2>2, <2>3, <2>7, <3>2, GapsWiden DEF Wider
  <2>10. T[n] \in Nat /\ offset[n] \in Nat
    BY <2>2, <2>4
  <2>. QED
    BY <2>2, <2>4, <2>8, <2>9, <2>10
<1>. QED
  BY <1>1, EstimatesInvariant, PTL
----------------------------------------------------------------------------
\* A distance no longer than the estimate that was checked.
Within(P, d) == -P <= d /\ d < P

LEMMA WordsOfDistance ==
  ASSUME NEW d \in Int
  PROVE  \E q \in Int : \E r \in {0, 1} : d = 2 * q + r /\ r = d % 2
<1>1. d % 2 \in {0, 1} /\ d = 2 * (d \div 2) + (d % 2) /\ d \div 2 \in Int
  OBVIOUS
<1>. QED
  BY <1>1

LEMMA EncodesWithin ==
  ASSUME NEW d \in Int, NEW field, NEW P \in Nat, Within(P, d),
         NEW F \in Nat, F = 2^(field - 1)
  PROVE  /\ P + 2 <= 2 * F => Encodes(field, d)
         /\ P = 2 * F => Encodes(field, d) \/ d - (d % 2) = -P
<1>1. PICK q \in Int, r \in {0, 1} : d = 2 * q + r /\ r = d % 2
  BY WordsOfDistance
<1>2. d - (d % 2) = 2 * q /\ 2 * q = 2 * (q - 1) + 2 /\ q - 1 \in Int
  BY <1>1
<1>3. (q - 1) \in -F..(F - 1) => Encodes(field, d)
  BY <1>2 DEF Encodes
<1>4. -P <= 2 * q + r /\ 2 * q + r < P
  BY <1>1 DEF Within
<1>5. ASSUME P + 2 <= 2 * F PROVE (q - 1) \in -F..(F - 1)
  BY <1>1, <1>4, <1>5
<1>6. ASSUME P = 2 * F PROVE (q - 1) \in -F..(F - 1) \/ 2 * q = -P
  BY <1>1, <1>4, <1>6
<1>. QED
  BY <1>2, <1>3, <1>5, <1>6

\* From a branch at from, b bytes and k - 1 instructions into its block, to dest.
Distance(dest, from, b, k) == dest - (from + b + 2 * (k - 1))
InBlock(s, b, l, k) == k \in 1..l /\ s = b + 2 * l
Apart(tn, td, en, ed, s) ==
  (tn + s <= td /\ td - tn <= ed - en) \/ (td <= tn /\ tn - td <= en - ed)

\* The distance of a branch lies between nothing and its estimate.
LEMMA DistanceWithin ==
  ASSUME NEW tn \in Nat, NEW td \in Nat, NEW en \in Nat, NEW ed \in Nat, NEW b \in Nat,
         NEW s \in Nat, NEW l \in Nat, NEW k, InBlock(s, b, l, k), NEW P \in Nat,
         Apart(tn, td, en, ed, s), Within(P, Distance(ed, en, b, k))
  PROVE  Within(P, Distance(td, tn, b, k)) /\ Distance(td, tn, b, k) \in Int
<1>1. PICK h \in Nat : h = b + 2 * (k - 1) /\ h <= s
  BY DEF InBlock
<1>2. /\ Distance(ed, en, b, k) = ed - (en + h) /\ Distance(td, tn, b, k) = td - (tn + h)
  <2>1. k \in Int
    BY DEF InBlock
  <2>. QED
    BY <1>1, <2>1 DEF Distance
<1>3. -P <= ed - (en + h) /\ ed - (en + h) < P
  BY <1>2 DEF Within
<1>4. CASE tn + s <= td /\ td - tn <= ed - en
  <2>1. 0 <= td - (tn + h) /\ td - (tn + h) <= ed - (en + h)
    BY <1>1, <1>4
  <2>. QED
    BY <1>2, <1>3, <2>1 DEF Within
<1>5. CASE td <= tn /\ tn - td <= en - ed
  <2>1. td - (tn + h) <= 0 /\ ed - (en + h) <= td - (tn + h)
    BY <1>1, <1>5
  <2>2. P # 0
    BY <1>3
  <2>. QED
    BY <1>2, <1>3, <2>1, <2>2 DEF Within
<1>. QED
  BY <1>4, <1>5 DEF Apart

LEMMA BranchReaches ==
  ASSUME RInv, EInv, pc = "done", NEW n \in Numbers, NEW k \in 1..Len(code[n]),
         code[n][k].op \in CondBranches \cup {"RJMPk"},
         NEW bits \in {CondBits, JumpBits},
         bits = IF code[n][k].op = "RJMPk" THEN JumpBits ELSE CondBits
  PROVE  LET d == TrueOffset(code[n][k].target) - (TrueOffset(n) + body[n] + InstSize * (k - 1))
         IN  d \in Int /\ Within(2^(bits - 1), d)
<1>1. PICK place : Layout(place, succ, numBlocks) /\ Scanned(place)
  BY DEF EInv, LaidOut
<1>2. PICK T \in [0..(numBlocks - 1) -> Nat] :
         /\ T[0] = 0 /\ \A b \in Numbers : T[b] = TrueOffset(b)
         /\ \A b \in 0..(numBlocks - 1) : succ[b] # None => T[succ[b]] = T[b] + size[b]
  BY <1>1, TrueOffsets
<1>3. /\ Numbers = 0..(numBlocks - 1) /\ numBlocks \in Nat /\ Numbers \subseteq Nat
      /\ size \in [0..(numBlocks - 1) -> Nat] /\ offset \in [0..(numBlocks - 1) -> Nat]
      /\ body \in [0..(numBlocks - 1) -> Nat]
      /\ Len(code[n]) \in Nat
  BY RelaxAssumption DEF RInv, Shape, Numbers, EInv, Sized
<1>4. code[n][k].target \in Numbers
  <2>1. code[n] \in Seq(Instructions)
    BY DEF RInv, Shape
  <2>2. code[n][k] \in Instructions
    BY <2>1
  <2>3. code[n][k].target \in Nat
    BY <2>2, TargetsAreBlocks
  <2>4. code[n][k].target \in Numbers \cup {Return}
    BY DEF RInv, Shape
  <2>5. Return \notin Nat
    BY RelaxAssumption
  <2>. QED
    BY <2>3, <2>4, <2>5
<1>5. PICK dest \in Numbers : dest = code[n][k].target
  BY <1>4
<1>6. Widens(numBlocks, succ, size, T, offset)
  BY <1>2, <1>3 DEF EInv, Estimated, Widens
<1>7. PICK tn, td, en, ed, b, s, l, P \in Nat :
        /\ tn = T[n] /\ td = T[dest] /\ en = offset[n] /\ ed = offset[dest] /\ b = body[n]
        /\ s = size[n] /\ l = Len(code[n]) /\ P = 2^(bits - 1)
  <2>1. T[n] \in Nat /\ T[dest] \in Nat /\ offset[n] \in Nat /\ offset[dest] \in Nat
    BY <1>2, <1>3, <1>5
  <2>2. body[n] \in Nat /\ size[n] \in Nat /\ Len(code[n]) \in Nat
    BY <1>3
  <2>3. 2^(bits - 1) \in Nat
    BY RangeAssumption
  <2>. QED
    BY <2>1, <2>2, <2>3
<1>8. InBlock(s, b, l, k)
  BY <1>3, <1>7 DEF EInv, Sized, BlockSize, InstSize, InBlock
<1>9. Apart(tn, td, en, ed, s)
  <2>1. PICK p \in 0..(numBlocks - 1), q \in 0..(numBlocks - 1) : p = place[n] /\ q = place[dest]
    BY <1>1, <1>3, <1>5 DEF Layout
  <2>2. CASE q <= p
    <3>1. Wider(size, T, offset, dest, n)
      BY <1>1, <1>3, <1>5, <1>6, <2>1, <2>2, GapsWiden
    <3>. QED
      BY <1>7, <3>1 DEF Wider, Apart
  <2>3. CASE ~(q <= p)
    <3>1. p <= q /\ p # q
      BY <2>3
    <3>2. n # dest
      BY <2>1, <3>1
    <3>3. Wider(size, T, offset, n, dest)
      BY <1>1, <1>3, <1>5, <1>6, <2>1, <3>1, GapsWiden
    <3>. QED
      BY <1>7, <3>2, <3>3 DEF Wider, Apart
  <2>. QED
    BY <2>2, <2>3
<1>10. Within(P, Distance(ed, en, b, k))
  <2>1. Reaching(n)
    BY <1>1 DEF Scanned
  <2>2. IsBlockInRange(n, k, dest)
    BY <1>5, <2>1 DEF Reaching
  <2>3. IsIntN(bits, offset[dest] - InstrOffset(n, k))
    BY <2>2 DEF IsBlockInRange, IsBranchOffsetInRange
  <2>4. offset[dest] - InstrOffset(n, k) = Distance(ed, en, b, k)
    BY <1>7 DEF InstrOffset, InstSize, Distance
  <2>. QED
    BY <1>7, <2>3, <2>4 DEF IsIntN, Within
<1>11. Within(P, Distance(td, tn, b, k)) /\ Distance(td, tn, b, k) \in Int
  <2>1. /\ tn \in Nat /\ td \in Nat /\ en \in Nat /\ ed \in Nat
        /\ b \in Nat /\ s \in Nat /\ l \in Nat /\ P \in Nat
    BY <1>7
  <2>. QED
    BY <1>8, <1>9, <1>10, <2>1, DistanceWithin
<1>12. TrueOffset(code[n][k].target) - (TrueOffset(n) + body[n] + InstSize * (k - 1))
          = Distance(td, tn, b, k)
  <2>1. TrueOffset(code[n][k].target) = td /\ TrueOffset(n) = tn /\ body[n] = b
    BY <1>2, <1>5, <1>7
  <2>. QED
    BY <2>1 DEF InstSize, Distance
<1>. QED
  BY <1>7, <1>11, <1>12

(***************************************************************************)
(* When the pass has finished, no branch has too long a way for its field, *)
(* but for a jump back over the whole of its range.                        *)
(***************************************************************************)
THEOREM RelaxedBranchesReach == Spec => []BranchesReach
<1>1. ASSUME RInv, EInv PROVE BranchesReach
  <2> SUFFICES ASSUME pc = "done", NEW n \in Numbers, NEW k \in 1..Len(code[n])
               PROVE  LET instr == code[n][k]
                          d == TrueOffset(instr.target) - (TrueOffset(n) + body[n] + InstSize * (k - 1))
                      IN  /\ instr.op \in CondBranches => Encodes(CondField, d)
                          /\ instr.op = "RJMPk" =>
                               Encodes(JumpField, d) \/ d - (d % 2) = -(2^(JumpBits - 1))
    BY DEF BranchesReach
  <2>1. PICK d : d = TrueOffset(code[n][k].target) - (TrueOffset(n) + body[n] + InstSize * (k - 1))
    OBVIOUS
  <2>2. ASSUME code[n][k].op \in CondBranches PROVE Encodes(CondField, d)
    <3>1. code[n][k].op # "RJMPk"
      BY <2>2 DEF CondBranches
    <3>2. d \in Int /\ Within(2^(CondBits - 1), d)
      BY <1>1, <2>1, <2>2, <3>1, BranchReaches
    <3>3. PICK P, F \in Nat : P = 2^(CondBits - 1) /\ F = 2^(CondField - 1) /\ P + 2 <= 2 * F
      BY RangeAssumption
    <3>. QED
      BY <3>2, <3>3, EncodesWithin
  <2>3. ASSUME code[n][k].op = "RJMPk"
        PROVE  Encodes(JumpField, d) \/ d - (d % 2) = -(2^(JumpBits - 1))
    <3>1. d \in Int /\ Within(2^(JumpBits - 1), d)
      BY <1>1, <2>1, <2>3, BranchReaches
    <3>2. PICK P, F \in Nat : P = 2^(JumpBits - 1) /\ F = 2^(JumpField - 1) /\ P = 2 * F
      BY RangeAssumption
    <3>. QED
      BY <3>1, <3>2, EncodesWithin
  <2>. QED
    BY <2>1, <2>2, <2>3
<1>. QED
  BY <1>1, EstimatesInvariant, PTL
==============================================================================
