----------------------- MODULE BranchPlacementProofs -----------------------
(***************************************************************************)
(* Block placement over the branch hooks, for every set of blocks, every   *)
(* block and any number of runs: a block keeps where it goes, and what     *)
(* updateTerminator asserts of its successors holds.                       *)
(***************************************************************************)
EXTENDS BranchPlacement, BranchAnalysisProofs, FiniteSetTheorems, WellFoundedInduction
----------------------------------------------------------------------------
(***************************************************************************)
(* Sets of numbers: a bounded one has a greatest element.                  *)
(***************************************************************************)
Less == {p \in Nat \X Nat : p[1] < p[2]}

LEMMA LessIsWellFounded == IsWellFoundedOn(Less, Nat)
<1>1. IsWellFoundedOn(OpToRel(<, Nat), Nat)
  BY NatLessThanWellFounded
<1>2. OpToRel(<, Nat) = Less
  BY DEF OpToRel, Less
<1>. QED
  BY <1>1, <1>2

LEMMA GreatestElement ==
  ASSUME NEW n \in Nat, NEW T \in SUBSET (0..n), T # {}
  PROVE  \E m \in T : \A k \in T : k <= m
<1> DEFINE Rest == {n - k : k \in T}
<1>1. Rest \subseteq Nat /\ Rest # {}
  <2>1. \A k \in T : n - k \in Nat
    OBVIOUS
  <2>. QED
    BY <2>1
<1>2. PICK x \in Rest : \A y \in Rest : ~(<<y, x>> \in Less)
  BY <1>1, LessIsWellFounded, WFMin
<1>3. PICK m \in T : x = n - m
  OBVIOUS
<1>4. ASSUME NEW k \in T PROVE k <= m
  <2>1. n - k \in Rest /\ n - k \in Nat /\ n - m \in Nat
    OBVIOUS
  <2>2. ~(n - k < n - m)
    BY <1>2, <1>3, <2>1 DEF Less
  <2>. QED
    BY <2>2
<1>. QED
  BY <1>4
----------------------------------------------------------------------------
(***************************************************************************)
(* Instructions that never leave their block, and blocks made of them.     *)
(***************************************************************************)
Quiet == {Instr("DBG", None), Instr("BODY", None)}

WellFormed(b) == b \in Seq(Instructions) /\ TerminatorsLast(b) /\ NoDeadCode(b)

LEMMA QuietGoes ==
  ASSUME NEW c \in Seq(Quiet)
  PROVE  /\ WellFormed(c) /\ HasSimpleBranches(c)
         /\ \A v, n, dest : Goes(c, v, n, dest) <=> dest = n
<1>1. c \in Seq(Instructions)
  <2>1. Quiet \subseteq Instructions
    BY DEF Quiet, Instructions
  <2>. QED
    BY <2>1
<1>2. \A k \in 1..Len(c) : c[k].op \in {"DBG", "BODY"}
  <2>1. \A k \in 1..Len(c) : c[k] \in Quiet
    OBVIOUS
  <2>2. \A i \in Quiet : i.op \in {"DBG", "BODY"}
    BY DEF Quiet, Instr
  <2>. QED
    BY <2>1, <2>2
<1>3. TerminatorsLast(c) /\ NoDeadCode(c) /\ HasSimpleBranches(c)
  BY <1>2 DEF TerminatorsLast, NoDeadCode, IsTerminator, HasSimpleBranches, CondBranches
<1>4. ASSUME NEW v, NEW n, NEW dest PROVE Goes(c, v, n, dest) <=> dest = n
  <2>1. \A k \in 1..Len(c) : ~Leaves(c[k], v)
    BY <1>2, WhoLeaves
  <2>. QED
    BY <2>1 DEF Goes, GoesFrom
<1>. QED
  BY <1>1, <1>3, <1>4 DEF WellFormed

\* A block of which every instruction is one analyzeBranch understands.
Understood == {"DBG", "RJMPk"} \cup CondBranches

(***************************************************************************)
(* removeBranch leaves nothing that could leave the block.                 *)
(***************************************************************************)
LEMMA RemovedIsQuiet ==
  ASSUME NEW b \in Seq(Instructions), TerminatorsLast(b),
         \A k \in 1..Len(b) : b[k].op \in Understood \cup {"BODY"}
  PROVE  RemoveBranch(b) \in Seq(Quiet)
<1> DEFINE stops == {k \in 1..Len(b) : b[k].op # "DBG" /\ ~Removable(b[k])}
           last == CHOOSE k \in stops \cup {0} : \A j \in stops : j <= k
           behind == {k \in (last + 1)..Len(b) : b[k].op = "DBG"}
<1>0. RemoveBranch(b) =
        SubSeq(b, 1, last) \o [k \in 1..Cardinality(behind) |-> Instr("DBG", None)]
  BY DEF RemoveBranch
<1>1. last \in stops \cup {0}
  <2>1. stops \cup {0} \in SUBSET (0..Len(b)) /\ stops \cup {0} # {} /\ Len(b) \in Nat
    OBVIOUS
  <2>2. \E m \in stops \cup {0} : \A k \in stops \cup {0} : k <= m
    BY <2>1, GreatestElement
  <2>3. \E m \in stops \cup {0} : \A k \in stops : k <= m
    BY <2>2
  <2> HIDE DEF stops
  <2>. QED
    BY <2>3
<1> HIDE DEF last
<1>2. last \in 0..Len(b)
  BY <1>1
<1>3. last # 0 => b[last].op = "BODY"
  BY <1>1 DEF Removable, Understood
<1>4. ASSUME NEW k \in 1..last PROVE b[k] \in Quiet
  <2>1. last \in 1..Len(b) /\ b[last].op = "BODY" /\ k \in 1..Len(b)
    BY <1>2, <1>3
  <2>2. ~IsTerminator(b[k])
    <3>1. CASE k = last
      BY <2>1, <3>1 DEF IsTerminator
    <3>2. CASE k \in 1..(last - 1)
      BY <2>1, <3>2 DEF TerminatorsLast
    <3>. QED
      BY <2>1, <3>1, <3>2
  <2>3. b[k] \in Instructions /\ b[k].op \in {"DBG", "BODY"}
    BY <2>1, <2>2 DEF IsTerminator
  <2>. QED
    BY <2>3 DEF Instructions, Quiet, Instr, CondBranches
<1>5. SubSeq(b, 1, last) \in Seq(Quiet)
  <2>1. /\ SubSeq(b, 1, last) \in Seq(Instructions)
        /\ Len(SubSeq(b, 1, last)) = last
        /\ \A k \in 1..last : SubSeq(b, 1, last)[k] = b[k]
    BY <1>2, Truncated
  <2>. QED
    BY <1>4, <2>1
<1>6. Cardinality(behind) \in Nat
  <2>1. IsFiniteSet((last + 1)..Len(b))
    BY <1>2, FS_Interval
  <2>2. IsFiniteSet(behind)
    BY <2>1, FS_Subset
  <2>. QED
    BY <2>2, FS_CardinalityType
<1> HIDE DEF stops, behind
<1>7. [k \in 1..Cardinality(behind) |-> Instr("DBG", None)] \in Seq(Quiet)
  <2>1. Instr("DBG", None) \in Quiet
    BY DEF Quiet
  <2> HIDE DEF Quiet
  <2>. QED
    BY <1>6, <2>1
<1>. QED
  BY <1>5, <1>7, <1>0

\* The block ends in a jump to n.
EndsInJumpTo(b, n) == b # << >> /\ b[Len(b)].op = "RJMPk" /\ b[Len(b)].target = n

(***************************************************************************)
(* What insertBranch appends to such a block goes where its arguments say. *)
(***************************************************************************)
LEMMA InsertedGoes ==
  ASSUME NEW c \in Seq(Quiet), NEW t \in Blocks, NEW f \in Blocks \cup {None},
         NEW cond \in {<< >>} \cup {<<x>> : x \in CondCodes}, cond = << >> => f = None
  PROVE  /\ WellFormed(InsertBranch(c, t, f, cond))
         /\ HasSimpleBranches(InsertBranch(c, t, f, cond))
         /\ \A v, n, dest :
              Goes(InsertBranch(c, t, f, cond), v, n, dest) <=>
                dest = IF cond = << >> \/ cond[1] \in v THEN t
                       ELSE IF f = None THEN n ELSE f
         /\ \A n : EndsInJumpTo(InsertBranch(c, t, f, cond), n) =>
                   (cond = << >> /\ n = t) \/ (f # None /\ n = f)
<1> DEFINE b == InsertBranch(c, t, f, cond)
           first == IF cond = << >> THEN "RJMPk" ELSE BrCond[cond[1]]
<1>1. /\ c \in Seq(Instructions)
      /\ \A k \in 1..Len(c) : c[k].op \in {"DBG", "BODY"}
  <2>1. \A k \in 1..Len(c) : c[k] \in Quiet
    OBVIOUS
  <2>2. \A i \in Quiet : i.op \in {"DBG", "BODY"}
    BY DEF Quiet, Instr
  <2>. QED
    BY <2>1, <2>2, QuietGoes DEF WellFormed
<1>2. ASSUME cond # << >>
      PROVE  /\ cond[1] \in CondCodes /\ first \in CondBranches
             /\ TakenOn[first] = cond[1]
  <2>1. PICK x \in CondCodes : cond = <<x>>
    BY <1>2
  <2>2. BrCond[x] \in CondBranches
    BY DEF BrCond, CondCodes, CondBranches
  <2>3. TakenOn[BrCond[x]] = x
    BY <2>2 DEF BrCond, CondCodes, CondBranches, TakenOn
  <2>. QED
    BY <1>2, <2>1, <2>2, <2>3
<1>3. first \in CondBranches \cup {"RJMPk"} /\ Instr(first, t) \in Instructions
  BY <1>2 DEF Instr, Instructions
<1>4. f # None => Instr("RJMPk", f) \in Instructions
  BY DEF Instr, Instructions
<1>5. b = IF f = None THEN Append(c, Instr(first, t))
          ELSE Append(c, Instr(first, t)) \o <<Instr("RJMPk", f)>>
  <2>1. Append(c, Instr(first, t)) \in Seq(Instructions)
    BY <1>1, <1>3
  <2>2. CASE cond = << >>
    BY <2>2 DEF InsertBranch
  <2>3. CASE cond # << >> /\ f = None
    <3>1. Append(c, Instr(first, t)) \o << >> = Append(c, Instr(first, t))
      BY <2>1
    <3>. QED
      BY <2>3, <3>1 DEF InsertBranch
  <2>4. CASE cond # << >> /\ f # None
    BY <2>4 DEF InsertBranch
  <2>. QED
    BY <2>2, <2>3, <2>4
<1>6. /\ b \in Seq(Instructions)
      /\ Len(b) = IF f = None THEN Len(c) + 1 ELSE Len(c) + 2
      /\ \A k \in 1..Len(c) : b[k] = c[k]
      /\ b[Len(c) + 1] = Instr(first, t)
      /\ f # None => b[Len(c) + 2] = Instr("RJMPk", f)
  <2> HIDE DEF b, first
  <2>1. CASE f = None
    BY <1>1, <1>3, <1>5, <2>1
  <2>2. CASE f # None
    BY <1>1, <1>3, <1>4, <1>5, <2>2
  <2>. QED
    BY <2>1, <2>2
<1>7. b[Len(c) + 1].op = first /\ b[Len(c) + 1].target = t
  BY <1>6 DEF Instr
<1>8. f # None => b[Len(c) + 2].op = "RJMPk" /\ b[Len(c) + 2].target = f
  BY <1>6 DEF Instr
<1> HIDE DEF b, first
<1>9. ASSUME NEW k \in 1..Len(b), k \notin 1..Len(c)
      PROVE  k = Len(c) + 1 \/ (k = Len(c) + 2 /\ f # None)
  <2>1. Len(c) \in Nat /\ k \in Int /\ 1 <= k /\ ~(k <= Len(c))
    BY <1>1, <1>6, <1>9
  <2>2. CASE f = None
    <3>1. k <= Len(c) + 1
      BY <1>6, <2>2
    <3>. QED
      BY <2>1, <3>1
  <2>3. CASE f # None
    <3>1. k <= Len(c) + 2
      BY <1>6, <2>3
    <3>. QED
      BY <2>1, <2>3, <3>1
  <2>. QED
    BY <2>2, <2>3
<1>10. WellFormed(b)
  <2>1. ASSUME NEW k \in 1..Len(b), b[k].op = "BODY" PROVE k \in 1..Len(c)
    BY <1>3, <1>7, <1>8, <1>9, <2>1 DEF CondBranches
  <2>2. TerminatorsLast(b)
    BY <1>1, <1>6, <2>1 DEF TerminatorsLast, IsTerminator
  <2>3. ASSUME NEW k \in 1..Len(b), b[k].op \in {"RJMPk", "JMPk", "RET"} PROVE k = Len(b)
    <3>1. k \notin 1..Len(c)
      BY <1>1, <1>6, <2>3
    <3>2. CASE f = None
      BY <1>6, <1>9, <3>1, <3>2
    <3>3. CASE f # None
      <4>1. cond # << >>
        BY <3>3
      <4>2. k # Len(c) + 1
        BY <1>2, <1>7, <2>3, <4>1 DEF CondBranches
      <4>. QED
        BY <1>6, <1>9, <3>1, <3>3, <4>2
    <3>. QED
      BY <3>2, <3>3
  <2>. QED
    BY <1>6, <2>2, <2>3 DEF WellFormed, NoDeadCode
<1>11. ASSUME NEW v, NEW n, NEW dest
       PROVE  Goes(b, v, n, dest) <=>
                dest = IF cond = << >> \/ cond[1] \in v THEN t ELSE IF f = None THEN n ELSE f
  <2>1. \A k \in 1..Len(c) : ~Leaves(b[k], v)
    BY <1>1, <1>6, WhoLeaves
  <2>2. Goes(b, v, n, dest) <=> GoesFrom(b, Len(c) + 1, v, n, dest)
    <3>1. 1 \in 1..(Len(b) + 1) /\ Len(c) + 1 \in 1..(Len(b) + 1)
      BY <1>1, <1>6
    <3>. QED
      BY <1>6, <2>1, <3>1, GoesFromSkip DEF Goes
  <2>3. Len(c) + 1 \in 1..Len(b) /\ Len(c) + 1 + 1 = Len(c) + 2
    BY <1>1, <1>6
  <2>4. GoesFrom(b, Len(c) + 1, v, n, dest) <=>
          IF Leaves(b[Len(c) + 1], v) THEN dest = t ELSE GoesFrom(b, Len(c) + 2, v, n, dest)
    BY <1>6, <1>7, <2>3, GoesFromStep
  <2>5. Leaves(b[Len(c) + 1], v) <=> (cond = << >> \/ cond[1] \in v)
    <3>1. CASE cond = << >>
      BY <1>7, <3>1, WhoLeaves DEF first
    <3>2. CASE cond # << >>
      BY <1>2, <1>7, <3>2, WhoLeaves
    <3>. QED
      BY <3>1, <3>2
  <2>6. CASE f = None
    <3>1. GoesFrom(b, Len(c) + 2, v, n, dest) <=> dest = n
      BY <1>1, <1>6, <2>6, GoesFromEnd
    <3>. QED
      BY <2>2, <2>4, <2>5, <2>6, <3>1
  <2>7. CASE f # None
    <3>1. Len(c) + 2 \in 1..Len(b) /\ Leaves(b[Len(c) + 2], v)
      BY <1>1, <1>6, <1>8, <2>7, WhoLeaves
    <3>2. GoesFrom(b, Len(c) + 2, v, n, dest) <=> dest = f
      BY <1>6, <1>8, <2>7, <3>1, GoesFromStep
    <3>. QED
      BY <2>2, <2>4, <2>5, <2>7, <3>2
  <2>. QED
    BY <2>6, <2>7
<1>12. HasSimpleBranches(b)
  <2>1. \A k \in 1..Len(b) : b[k].op \in {"DBG", "BODY", "RJMPk"} \cup CondBranches
    BY <1>1, <1>3, <1>6, <1>7, <1>8, <1>9
  <2>2. \A k \in 1..Len(b) : b[k].op \in CondBranches => k = Len(c) + 1
    BY <1>1, <1>6, <1>8, <1>9 DEF CondBranches
  <2>. QED
    BY <2>1, <2>2 DEF HasSimpleBranches, CondBranches
<1>13. ASSUME NEW n, EndsInJumpTo(b, n)
       PROVE  (cond = << >> /\ n = t) \/ (f # None /\ n = f)
  <2>1. CASE f = None
    BY <1>1, <1>6, <1>7, <1>13, <1>2, <2>1 DEF EndsInJumpTo, CondBranches
  <2>2. CASE f # None
    BY <1>1, <1>6, <1>8, <1>13, <2>2 DEF EndsInJumpTo
  <2>. QED
    BY <2>1, <2>2
<1>. QED
  BY <1>10, <1>11, <1>12, <1>13 DEF b

\* A block that leaves does not care what is behind it.
LEMMA LeavingIgnoresNext ==
  ASSUME NEW b \in Seq(Instructions), NEW v, \E k \in 1..Len(b) : Leaves(b[k], v),
         NEW m, NEW n, NEW dest
  PROVE  Goes(b, v, m, dest) <=> Goes(b, v, n, dest)
<1>1. Len(b) + 1 \in 1..(Len(b) + 1) /\ (Len(b) + 1) - 1 = Len(b)
  OBVIOUS
<1>. QED
  BY <1>1, GoesEarly

\* A block that does not leave goes to what is behind it.
LEMMA StayingFallsThrough ==
  ASSUME NEW b, NEW v, \A k \in 1..Len(b) : ~Leaves(b[k], v), NEW n
  PROVE  Goes(b, v, n, n)
BY DEF Goes, GoesFrom

\* Every condition holds under some valuation and fails under another.
LEMMA SomeValuation ==
  /\ \E v : v \in Valuations
  /\ \A c \in CondCodes : (\E v \in Valuations : c \in v) /\ (\E v \in Valuations : c \notin v)
<1> DEFINE V == {"EQ", "GE", "SH", "MI"}
           W == {"NE", "LT", "LO", "PL"}
<1>1. V \in Valuations /\ W \in Valuations
  BY DEF Valuations, CondCodes, Opposites
<1>2. \A c \in CondCodes : (c \in V /\ c \notin W) \/ (c \in W /\ c \notin V)
  BY DEF CondCodes
<1>. QED
  BY <1>1, <1>2

\* The reversed condition holds when the condition does not.
LEMMA ReversedCondition ==
  ASSUME NEW c \in CondCodes
  PROVE  /\ ReverseBranchCondition(<<c>>) = <<OppositeCondition[c]>>
         /\ OppositeCondition[c] \in CondCodes
         /\ \A v \in Valuations : OppositeCondition[c] \in v <=> c \notin v
<1>1. <<c, OppositeCondition[c]>> \in Opposites \/ <<OppositeCondition[c], c>> \in Opposites
  BY DEF CondCodes, OppositeCondition, Opposites
<1>2. OppositeCondition[c] \in CondCodes
  BY DEF CondCodes, OppositeCondition
<1>. QED
  BY <1>1, <1>2 DEF Valuations, ReverseBranchCondition
----------------------------------------------------------------------------
(***************************************************************************)
(* The analysis, once more: what placement needs of it besides IInv.       *)
(***************************************************************************)
\* Every instruction visited is one the loop understands.
Visited == \A k \in I..Len(block) : block[k].op \in Understood

\* Without modification: no destination, no branch; a destination that is no
\* condition's comes from a jump.
PlainOutputs ==
  ~allowModify =>
    /\ TBB = None => \A k \in I..Len(block) : block[k].op = "DBG"
    /\ FBB # None \/ (Cond = << >> /\ TBB # None) =>
         \E k \in I..Len(block) : block[k].op = "RJMPk"

AnalysisInv ==
  /\ IInv /\ Visited /\ PlainOutputs /\ NoDeadCode(block)
  /\ pc = "unanalyzable" => block # << >>

\* A call of analyzeBranch starts in the invariant.
LEMMA FreshCall ==
  ASSUME NEW b, WellFormed(b), NEW modify \in BOOLEAN, CallAnalyze(b, modify),
         next' \in Blocks \cup {None}
  PROVE  AnalysisInv'
<1> USE DEF CallAnalyze, WellFormed
<1>1. TypeOK'
  BY DEF TypeOK
<1>2. ControlPreserved'
  BY DEF ControlPreserved
<1>3. OutputsDescribeTail'
  <2>1. \A v, n, dest : GoesFrom(b, Len(b) + 1, v, n, dest) <=> dest = n
    BY GoesFromEnd
  <2>. QED
    BY <2>1 DEF OutputsDescribeTail, Described
<1>4. (StaleEndsInJump /\ OutputsShape /\ RememberedJump)'
  BY DEF StaleEndsInJump, Stale, OutputsShape, RememberedJump
<1>5. IInv'
  BY <1>1, <1>2, <1>3, <1>4 DEF IInv, LoopInvariant
<1>6. (Visited /\ PlainOutputs)'
  BY DEF Visited, PlainOutputs
<1>. QED
  BY <1>5, <1>6 DEF AnalysisInv

\* Cutting a block, or swapping its last two branches, brings in no dead code.
LEMMA NoDeadCodeStep ==
  ASSUME IInv, NoDeadCode(block), Analyze
  PROVE  NoDeadCode(block)'
<1>1. ASSUME NEW i \in 0..Len(block), block' = SubSeq(block, 1, i) PROVE NoDeadCode(block)'
  <2>1. block \in Seq(Instructions)
    BY DEF IInv, TypeOK
  <2>2. Len(block') = i /\ \A k \in 1..i : block'[k] = block[k]
    BY <1>1, <2>1, Truncated
  <2>. QED
    BY <2>1, <2>2 DEF NoDeadCode
<1>2. CASE JumpToLayoutSuccessor \/ JumpElsewhere
  <2>1. At \in 1..Len(block)
    BY <1>2, CurrentInstruction DEF IInv, JumpToLayoutSuccessor, JumpElsewhere
  <2>2. \E i \in 0..Len(block) : block' = SubSeq(block, 1, i)
    BY <1>2, <2>1 DEF JumpToLayoutSuccessor, JumpElsewhere
  <2>. QED
    BY <1>1, <2>2
<1>3. CASE SwapBranches
  <2> DEFINE jncc == BrCond[OppositeCondition[CondFromBranchOpc[Cur.op]]]
  <2>1. /\ At \in 1..Len(block) /\ At + 1 = I /\ Cur.op \in CondBranches
        /\ allowModify /\ unCondBr # 0 /\ Cond = << >>
    BY <1>3, CurrentInstruction DEF IInv, SwapBranches, SwapsBranches
  <2>2. /\ unCondBr = Len(block) /\ I <= Len(block)
        /\ \A k \in I..(Len(block) - 1) : block[k].op = "DBG"
    BY <2>1 DEF IInv, LoopInvariant, RememberedJump
  <2>3. Len(block) \in Nat /\ block \in Seq(Instructions)
    BY DEF IInv, TypeOK
  <2>4. block' = Swapped(jncc) /\ jncc \in CondBranches
    BY <1>3, <2>1, OppositeBranch DEF SwapBranches
  <2> HIDE DEF jncc
  <2>5. Len(block') = Len(block)
    BY <2>3, <2>4 DEF Swapped
  <2>6. ASSUME NEW k \in 1..Len(block'), block'[k].op \in {"RJMPk", "JMPk", "RET"}
        PROVE  k = Len(block')
    <3>1. CASE k < At
      <4>1. block'[k] = block[k] /\ At \in (k + 1)..Len(block)
        BY <2>1, <2>3, <2>4, <2>5, <3>1 DEF Swapped
      <4>2. block[At].op = "DBG"
        BY <2>5, <2>6, <4>1 DEF NoDeadCode
      <4>. QED
        BY <2>1, <4>2 DEF Cur, CondBranches
    <3>2. CASE k >= At /\ k < unCondBr - 1
      <4>1. block'[k] = block[k + 1] /\ k + 1 \in I..(Len(block) - 1)
        BY <2>1, <2>2, <2>3, <2>4, <2>5, <3>2 DEF Swapped
      <4>. QED
        BY <2>2, <2>6, <4>1
    <3>3. CASE k >= At /\ k = unCondBr - 1
      <4>1. block'[k] = Instr(jncc, block[unCondBr].target)
        BY <2>1, <2>2, <2>3, <2>4, <2>5, <3>3 DEF Swapped
      <4>. QED
        BY <2>4, <2>6, <4>1 DEF Instr, CondBranches
    <3>. QED
      BY <2>1, <2>2, <2>3, <2>5, <3>1, <3>2, <3>3
  <2>. QED
    BY <2>3, <2>5, <2>6 DEF NoDeadCode
<1>4. CASE UNCHANGED block
  BY <1>4 DEF NoDeadCode
<1>. QED
  BY <1>2, <1>3, <1>4
  DEF Analyze, ReachBegin, SkipDebugValue, StopAtNonTerminator, GiveUpOnTerminator, JumpUnmodified,
      FirstConditional, RepeatedConditional, GiveUpOnConditional, ReturnWith

(***************************************************************************)
(* The analysis adds no conditional branch, and gives up only on a block   *)
(* with two of them or with another terminator.                            *)
(***************************************************************************)
LEMMA SimpleStep ==
  ASSUME IInv, HasSimpleBranches(block), Analyze
  PROVE  HasSimpleBranches(block)' /\ (pc' = "unanalyzable" => pc = "unanalyzable")
<1>1. block \in Seq(Instructions) /\ I \in 1..(Len(block) + 1)
  BY DEF IInv, TypeOK
<1>2. ASSUME NEW i \in 0..Len(block), block' = SubSeq(block, 1, i) PROVE HasSimpleBranches(block)'
  <2>1. Len(block') = i /\ \A k \in 1..i : block'[k] = block[k]
    BY <1>1, <1>2, Truncated
  <2>. QED
    BY <1>1, <2>1 DEF HasSimpleBranches
<1>3. Turn => At \in 1..Len(block) /\ At + 1 = I
  BY CurrentInstruction DEF IInv
<1>4. CASE JumpToLayoutSuccessor \/ JumpElsewhere
  <2>1. At \in 1..Len(block)
    BY <1>3, <1>4 DEF JumpToLayoutSuccessor, JumpElsewhere
  <2>2. \E i \in 0..Len(block) : block' = SubSeq(block, 1, i)
    BY <1>4, <2>1 DEF JumpToLayoutSuccessor, JumpElsewhere
  <2>3. UNCHANGED pc
    BY <1>4 DEF JumpToLayoutSuccessor, JumpElsewhere, Continue, Restart
  <2>. QED
    BY <1>2, <2>2, <2>3
<1>5. CASE SwapBranches
  <2> DEFINE jncc == BrCond[OppositeCondition[CondFromBranchOpc[Cur.op]]]
  <2>1. /\ At \in 1..Len(block) /\ At + 1 = I /\ Cur.op \in CondBranches
        /\ allowModify /\ unCondBr # 0 /\ Cond = << >>
    BY <1>3, <1>5 DEF SwapBranches, SwapsBranches
  <2>2. /\ unCondBr = Len(block) /\ I <= Len(block) /\ Len(block) \in Nat
        /\ \A k \in I..(Len(block) - 1) : block[k].op = "DBG"
    BY <1>1, <2>1 DEF IInv, LoopInvariant, RememberedJump
  <2>3. block' = Swapped(jncc) /\ jncc \in CondBranches /\ UNCHANGED pc
    BY <1>5, <2>1, OppositeBranch DEF SwapBranches, Restart
  <2> HIDE DEF jncc
  <2>4. Len(block') = Len(block)
    BY <2>2, <2>3 DEF Swapped
  <2>5. ASSUME NEW k \in 1..Len(block')
        PROVE  /\ block'[k].op \notin {"JMPk", "RET"}
               /\ block'[k].op \in CondBranches => k = unCondBr - 1
    <3>1. CASE k < At
      <4>1. block'[k] = block[k] /\ k \in 1..Len(block) /\ k # At
        BY <2>1, <2>2, <2>3, <2>4, <3>1 DEF Swapped
      <4>. QED
        BY <2>1, <4>1 DEF HasSimpleBranches, Cur
    <3>2. CASE k >= At /\ k < unCondBr - 1
      <4>1. block'[k] = block[k + 1] /\ k + 1 \in I..(Len(block) - 1)
        BY <2>1, <2>2, <2>3, <2>4, <3>2 DEF Swapped
      <4>. QED
        BY <2>2, <4>1 DEF CondBranches
    <3>3. CASE k >= At /\ k = unCondBr - 1
      <4>1. block'[k] = Instr(jncc, block[unCondBr].target)
        BY <2>1, <2>2, <2>3, <2>4, <3>3 DEF Swapped
      <4>. QED
        BY <2>3, <3>3, <4>1 DEF Instr, CondBranches
    <3>4. CASE k = unCondBr
      <4>1. block'[k] = Instr("RJMPk", Cur.target)
        BY <2>1, <2>2, <2>3, <2>4, <3>4 DEF Swapped
      <4>. QED
        BY <4>1 DEF Instr, CondBranches
    <3>. QED
      BY <2>1, <2>2, <2>4, <3>1, <3>2, <3>3, <3>4
  <2>. QED
    BY <2>3, <2>5 DEF HasSimpleBranches
<1>6. ~GiveUpOnTerminator
  BY <1>3 DEF GiveUpOnTerminator, HasSimpleBranches, Cur
<1>7. ~GiveUpOnConditional
  <2>1. SUFFICES ASSUME GiveUpOnConditional PROVE FALSE
    OBVIOUS
  <2>2. At \in 1..Len(block) /\ At + 1 = I /\ block[At].op \in CondBranches
    BY <1>3, <2>1 DEF GiveUpOnConditional, Cur
  <2>3. PICK k \in I..Len(block) : block[k].op \in CondBranches
    BY <2>1 DEF GiveUpOnConditional, IInv, LoopInvariant, OutputsShape
  <2>4. k \in 1..Len(block) /\ k # At
    BY <1>1, <2>2
  <2>. QED
    BY <2>2, <2>3, <2>4 DEF HasSimpleBranches
<1>8. CASE UNCHANGED block /\ (pc' = pc \/ pc' = "success")
  BY <1>8 DEF HasSimpleBranches
<1>. QED
  BY <1>4, <1>5, <1>6, <1>7, <1>8
  DEF Analyze, ReachBegin, SkipDebugValue, StopAtNonTerminator, JumpUnmodified,
      FirstConditional, RepeatedConditional, ReturnWith, Continue

LEMMA AnalysisStep ==
  ASSUME AnalysisInv, Analyze
  PROVE  AnalysisInv' /\ UNCHANGED inputs
<1>1. IInv' /\ NoDeadCode(block)'
  BY AnalyzeInvariant, NoDeadCodeStep DEF AnalysisInv
<1>2. Turn => At \in 1..Len(block) /\ At + 1 = I
  BY CurrentInstruction DEF AnalysisInv, IInv
<1>3. block \in Seq(Instructions) /\ I \in 1..(Len(block) + 1)
  BY DEF AnalysisInv, IInv, TypeOK
<1>4. UNCHANGED inputs
  BY DEF Analyze, ReachBegin, SkipDebugValue, StopAtNonTerminator, GiveUpOnTerminator,
     JumpUnmodified, JumpToLayoutSuccessor, JumpElsewhere, SwapBranches, FirstConditional,
     RepeatedConditional, GiveUpOnConditional, ReturnWith, Continue, Restart
<1>5. CASE ReachBegin \/ StopAtNonTerminator \/ GiveUpOnTerminator \/ GiveUpOnConditional
  <2>1. UNCHANGED <<inputs, block, I, unCondBr, outputs>>
    BY <1>5 DEF ReachBegin, StopAtNonTerminator, GiveUpOnTerminator, GiveUpOnConditional, ReturnWith
  <2>2. pc' = "unanalyzable" => Turn
    BY <1>5 DEF ReachBegin, StopAtNonTerminator, GiveUpOnTerminator, GiveUpOnConditional, ReturnWith
  <2>3. pc' = "unanalyzable" => block # << >>
    BY <1>2, <1>3, <2>2
  <2>4. (Visited /\ PlainOutputs)'
    BY <2>1 DEF AnalysisInv, Visited, PlainOutputs, inputs, outputs
  <2>. QED
    BY <1>1, <1>4, <2>1, <2>3, <2>4 DEF AnalysisInv
<1>6. CASE SkipDebugValue \/ JumpUnmodified \/ FirstConditional \/ RepeatedConditional
  <2>1. /\ Turn /\ I' = At /\ UNCHANGED <<block, pc, allowModify>>
        /\ Cur.op \in Understood
    BY <1>6 DEF SkipDebugValue, JumpUnmodified, FirstConditional, RepeatedConditional, Continue,
       inputs, Understood
  <2>2. \A k \in At..Len(block) : k = At \/ k \in I..Len(block)
    BY <1>2, <1>3, <2>1
  <2>3. Visited'
    BY <2>1, <2>2 DEF AnalysisInv, Visited, Cur
  <2>4. I..Len(block) \subseteq At..Len(block) /\ At \in At..Len(block)
    BY <1>2, <1>3, <2>1
  <2>5. PlainOutputs'
    <3>1. CASE SkipDebugValue
      BY <2>1, <2>2, <2>4, <3>1 DEF AnalysisInv, PlainOutputs, SkipDebugValue, outputs, Cur
    <3>2. CASE JumpUnmodified
      <4>1. Cur.target # None
        BY <2>1, <3>2, CurrentInstruction, BlocksAssumption
        DEF AnalysisInv, IInv, JumpUnmodified
      <4>. QED
        BY <2>1, <2>4, <3>2, <4>1 DEF PlainOutputs, JumpUnmodified, Cur
    <3>3. CASE FirstConditional
      <4>1. Cur.target # None
        BY <2>1, <3>3, CurrentInstruction, BlocksAssumption
        DEF AnalysisInv, IInv, FirstConditional
      <4>2. Cond' # << >> /\ FBB' = TBB /\ TBB' = Cur.target /\ Cond = << >>
        BY <3>3 DEF FirstConditional
      <4>. QED
        BY <2>1, <2>4, <4>1, <4>2 DEF AnalysisInv, PlainOutputs
    <3>4. CASE RepeatedConditional
      <4>1. TBB # None /\ UNCHANGED outputs
        BY <3>4 DEF RepeatedConditional, AnalysisInv, IInv, LoopInvariant, OutputsShape
      <4>. QED
        BY <2>1, <2>4, <4>1 DEF AnalysisInv, PlainOutputs, outputs
    <3>. QED
      BY <1>6, <3>1, <3>2, <3>3, <3>4
  <2>. QED
    BY <1>1, <1>4, <2>1, <2>3, <2>5 DEF AnalysisInv
<1>7. CASE JumpToLayoutSuccessor \/ JumpElsewhere \/ SwapBranches
  <2>1. Turn /\ allowModify /\ UNCHANGED <<allowModify, pc>>
    BY <1>7 DEF JumpToLayoutSuccessor, JumpElsewhere, SwapBranches, SwapsBranches, Continue, Restart,
       inputs
  <2>2. pc' = "scan"
    BY <2>1 DEF Turn
  <2>3. Visited'
    <3>1. CASE JumpToLayoutSuccessor \/ SwapBranches
      <4>1. I' = Len(block') + 1 /\ block' \in Seq(Instructions)
        BY <1>1, <3>1 DEF JumpToLayoutSuccessor, SwapBranches, Restart, IInv, TypeOK
      <4>. QED
        BY <4>1 DEF Visited
    <3>2. CASE JumpElsewhere
      <4>1. I' = At /\ block' = SubSeq(block, 1, At) /\ Cur.op = "RJMPk"
        BY <3>2 DEF JumpElsewhere, Continue
      <4>2. Len(block') = At /\ block'[At] = block[At]
        BY <1>2, <1>3, <2>1, <4>1, Truncated
      <4>3. \A k \in At..At : k = At
        BY <1>2, <2>1
      <4>. QED
        BY <4>1, <4>2, <4>3 DEF Visited, Understood, Cur
    <3>. QED
      BY <1>7, <3>1, <3>2
  <2>. QED
    BY <1>1, <1>4, <2>1, <2>2, <2>3 DEF AnalysisInv, PlainOutputs
<1>. QED
  BY <1>5, <1>6, <1>7 DEF Analyze
----------------------------------------------------------------------------
(***************************************************************************)
(* The invariant of placement.                                             *)
(***************************************************************************)
Destinations == Blocks \cup {None, Return}

\* Block b in front of n goes where the block went before placement.
Agrees(b, n) ==
  \A v \in Valuations, dest \in Destinations :
    Goes(b, v, n, dest) <=> Goes(origin.block, v, origin.next, dest)

\* A null block is the layout successor.
Or(dest, n) == IF dest = None THEN n ELSE dest

\* The block and the outputs as an analysis left them while the layout
\* successor was p; it may be another one now.
AnalyzedWith(p) ==
  /\ TypeOK /\ Agrees(block, p)
  /\ pc = "success" =>
       /\ \A k \in 1..Len(block) : block[k].op \in Understood \cup {"BODY"}
       /\ Cond = << >> => FBB = None
       /\ Cond # << >> => TBB # None
       /\ \A v \in Valuations, dest \in Destinations :
            Goes(origin.block, v, origin.next, dest) <=>
              dest = IF Cond = << >> \/ Cond[1] \in v THEN Or(TBB, p) ELSE Or(FBB, p)

\* What updateTerminator relies on, of an analysis without modification.
UpdateReady(p) ==
  /\ AnalyzedWith(p)
  /\ pc = "success" =>
       /\ TBB = None => block \in Seq(Quiet)
       /\ FBB # None \/ (Cond = << >> /\ TBB # None) =>
            \E k \in 1..Len(block) : block[k].op = "RJMPk"
  /\ pc = "unanalyzable" => Agrees(block, next)

OriginInv ==
  /\ origin.block \in Seq(Instructions) /\ origin.next \in Blocks \cup {None}
  /\ NeverFallsOff(origin.block, origin.next)
  /\ succs = SuccessorsOf(origin.block, origin.next)

PlacementInv ==
  /\ OriginInv
  /\ stage \in Stages /\ next \in Blocks \cup {None}
  /\ WellFormed(block)
  /\ stage \in {"place", "redo", "optimize", "reorder"} => AnalysisInv /\ Agrees(block, next)
  /\ stage \in {"update", "redone"} => \E p \in Blocks \cup {None} : UpdateReady(p)
  /\ stage = "idle" => Agrees(block, next)
  /\ stage \in {"update", "redone", "idle"} => pc # "scan"
  /\ stage \notin {"optimize", "idle"} => ~allowModify
  /\ HasSimpleBranches(origin.block) \/ stage = "reorder" => HasSimpleBranches(block)
  /\ StaysAnalyzable

\* Where a block went before placement.
LEMMA OriginGoesSomewhere ==
  ASSUME OriginInv, NEW v \in Valuations
  PROVE  /\ ~Goes(origin.block, v, origin.next, None)
         /\ \A dest \in Blocks : Goes(origin.block, v, origin.next, dest) => dest \in succs
BY DEF OriginInv, NeverFallsOff, SuccessorsOf

LEMMA AnalysisEnds ==
  ASSUME AnalysisInv, pc # "scan", Agrees(block, next)
  PROVE  AnalyzedWith(next) /\ (~allowModify => UpdateReady(next))
<1>1. TypeOK /\ block \in Seq(Instructions) /\ I \in 1..(Len(block) + 1)
  BY DEF AnalysisInv, IInv, TypeOK
<1>2. ASSUME pc = "success"
      PROVE  /\ \A k \in 1..(I - 1) : block[k].op \in {"BODY", "DBG"}
             /\ \A k \in 1..Len(block) : block[k].op \in Understood \cup {"BODY"}
  <2>1. I = 1 \/ block[I - 1].op = "BODY"
    BY <1>2 DEF AnalysisInv, IInv, LoopInvariant
  <2>2. ASSUME NEW k \in 1..(I - 1) PROVE block[k].op \in {"BODY", "DBG"}
    <3>1. I - 1 \in 1..Len(block) /\ k \in 1..Len(block) /\ TerminatorsLast(block)
      BY <1>1 DEF AnalysisInv, IInv, LoopInvariant
    <3>2. block[I - 1].op = "BODY"
      BY <2>1, <3>1
    <3>3. CASE k = I - 1
      BY <3>2, <3>3
    <3>4. CASE k \in 1..((I - 1) - 1)
      BY <3>1, <3>2, <3>4 DEF TerminatorsLast, IsTerminator
    <3>. QED
      BY <1>1, <3>3, <3>4
  <2>3. \A k \in 1..Len(block) : k \in 1..(I - 1) \/ k \in I..Len(block)
    BY <1>1
  <2>. QED
    BY <2>2, <2>3 DEF AnalysisInv, Visited, Understood
<1>3. ASSUME pc = "success", NEW v \in Valuations, NEW dest \in Destinations
      PROVE  Goes(origin.block, v, origin.next, dest) <=>
               dest = IF Cond = << >> \/ Cond[1] \in v THEN Or(TBB, next) ELSE Or(FBB, next)
  <2>1. Described(TBB, FBB, Cond, v, next, dest) <=> Goes(block, v, next, dest)
    BY <1>3, ExactWhereItStops DEF AnalysisInv, IInv, LoopInvariant, Stale, Destinations
  <2>2. Goes(block, v, next, dest) <=> Goes(origin.block, v, origin.next, dest)
    BY DEF Agrees
  <2>. QED
    BY <2>1, <2>2 DEF Described, Or
<1>4. AnalyzedWith(next)
  BY <1>1, <1>2, <1>3 DEF AnalyzedWith, AnalysisInv, IInv, LoopInvariant, OutputsShape
<1>5. ASSUME ~allowModify, pc = "success", TBB = None PROVE block \in Seq(Quiet)
  <2>1. \A k \in 1..Len(block) : k \in 1..(I - 1) \/ k \in I..Len(block)
    BY <1>1
  <2>2. \A k \in 1..Len(block) : block[k].op \in {"BODY", "DBG"}
    BY <1>2, <1>5, <2>1 DEF AnalysisInv, PlainOutputs
  <2>3. \A i \in Instructions : i.op \in {"BODY", "DBG"} => i \in Quiet
    BY DEF Instructions, Quiet, Instr, CondBranches
  <2>4. \A k \in 1..Len(block) : block[k] \in Quiet
    BY <1>1, <2>2, <2>3
  <2>. QED
    BY <1>1, <2>4
<1>6. ASSUME ~allowModify, FBB # None \/ (Cond = << >> /\ TBB # None)
      PROVE  \E k \in 1..Len(block) : block[k].op = "RJMPk"
  <2>1. I..Len(block) \subseteq 1..Len(block)
    BY <1>1
  <2>. QED
    BY <1>6, <2>1 DEF AnalysisInv, PlainOutputs
<1>. QED
  BY <1>4, <1>5, <1>6 DEF UpdateReady

LEMMA UpdatingIsReady ==
  ASSUME PlacementInv, Updating
  PROVE  \E p \in Blocks \cup {None} : UpdateReady(p)
<1>1. CASE stage = "reorder"
  BY <1>1, AnalysisEnds DEF PlacementInv, Updating
<1>2. CASE stage \in {"update", "redone"}
  BY <1>2 DEF PlacementInv
<1>. QED
  BY <1>1, <1>2 DEF Updating

\* A block updateTerminator may leave: it goes, in front of the new layout
\* successor, where it should, and has no conditional branch more.
Fits(b) ==
  WellFormed(b) /\ Agrees(b, next) /\ (HasSimpleBranches(block) => HasSimpleBranches(b))

\* updateTerminator may leave any block that goes where it should.
LEMMA UpdatedKeepsInv ==
  ASSUME PlacementInv, Updating, NEW b, Fits(b), Updated(b)
  PROVE  PlacementInv'
<1>1. /\ block' = b /\ UNCHANGED <<next, origin, succs>>
      /\ stage' \in {"optimize", "redo", "idle"}
      /\ WellFormed(b)
  BY DEF Updated, CallAnalyze, SetBlock, Fits
<1>2. Agrees(block, next)'
  BY <1>1 DEF Agrees, Fits
<1>3. OriginInv' /\ (next \in Blocks \cup {None})' /\ WellFormed(block)'
  BY <1>1 DEF PlacementInv, OriginInv
<1>4. HasSimpleBranches(origin.block)' => HasSimpleBranches(block)'
  BY <1>1 DEF PlacementInv, Fits
<1>5. CASE stage' \in {"optimize", "redo"}
  <2>1. PICK modify \in BOOLEAN : CallAnalyze(b, modify) /\ (modify => stage' = "optimize")
    BY <1>5 DEF Updated
  <2>2. AnalysisInv'
    BY <1>1, <1>3, <2>1, FreshCall
  <2>3. pc' = "scan" /\ (stage' # "optimize" => ~allowModify')
    BY <2>1 DEF CallAnalyze
  <2>. QED
    BY <1>2, <1>3, <1>4, <1>5, <2>2, <2>3 DEF PlacementInv, Stages, StaysAnalyzable
<1>6. CASE stage' = "idle"
  <2>1. stage = "reorder" /\ UNCHANGED pc /\ pc # "scan"
    BY <1>6 DEF Updated, SetBlock, Updating
  <2>2. pc # "unanalyzable"
    BY <2>1 DEF PlacementInv, StaysAnalyzable
  <2>. QED
    BY <1>2, <1>3, <1>4, <1>6, <2>1, <2>2 DEF PlacementInv, Stages, StaysAnalyzable
<1>. QED
  BY <1>1, <1>5, <1>6

(***************************************************************************)
(* The successors, read off the outputs: a fall-through has one, and one   *)
(* side of a conditional branch without a second destination is p.         *)
(***************************************************************************)
LEMMA SuccessorsByOutputs ==
  ASSUME OriginInv, NEW p \in Blocks \cup {None}, AnalyzedWith(p), pc = "success"
  PROVE  /\ succs # {}
         /\ Cond = << >> /\ TBB = None => p \in Blocks /\ succs = {p}
         /\ Cond # << >> /\ FBB = None => p \in Blocks /\ succs = {TBB, p}
<1> DEFINE Goal(v) == IF Cond = << >> \/ Cond[1] \in v THEN Or(TBB, p) ELSE Or(FBB, p)
<1>1. \A v \in Valuations, dest \in Destinations :
        Goes(origin.block, v, origin.next, dest) <=> dest = Goal(v)
  BY DEF AnalyzedWith
<1>2. TBB \in Blocks \cup {None} /\ FBB \in Blocks \cup {None}
  BY DEF AnalyzedWith, TypeOK
<1>3. \A v \in Valuations : Goal(v) \in Blocks
  <2>1. \A v : Goal(v) \in Blocks \cup {None}
    BY <1>2 DEF Or
  <2>2. \A v \in Valuations : Goal(v) # None
    BY <1>1, OriginGoesSomewhere DEF Destinations
  <2>. QED
    BY <2>1, <2>2
<1>4. \A dest \in Blocks : dest \in succs <=> \E v \in Valuations : dest = Goal(v)
  BY <1>1 DEF OriginInv, SuccessorsOf, Destinations
<1>5. succs \subseteq Blocks
  BY DEF OriginInv, SuccessorsOf
<1>6. succs # {}
  BY <1>3, <1>4, SomeValuation
<1>7. ASSUME Cond = << >>, TBB = None PROVE p \in Blocks /\ succs = {p}
  <2>1. \A v : Goal(v) = p
    BY <1>7 DEF Or
  <2>2. p \in Blocks
    BY <1>3, <2>1, SomeValuation
  <2> HIDE DEF Goal
  <2>. QED
    BY <1>4, <1>5, <1>6, <2>1, <2>2
<1>8. ASSUME Cond # << >>, FBB = None PROVE p \in Blocks /\ succs = {TBB, p}
  <2>1. TBB # None /\ \A v : Goal(v) = IF Cond[1] \in v THEN TBB ELSE p
    BY <1>8 DEF Or, AnalyzedWith
  <2>2. Cond[1] \in CondCodes
    BY <1>8 DEF AnalyzedWith, TypeOK
  <2>3. PICK v \in Valuations : Cond[1] \in v
    BY <2>2, SomeValuation
  <2>4. PICK w \in Valuations : Cond[1] \notin w
    BY <2>2, SomeValuation
  <2>5. Goal(v) = TBB /\ Goal(w) = p
    BY <2>1, <2>3, <2>4
  <2>6. p \in Blocks /\ TBB \in Blocks
    BY <1>3, <2>5
  <2>7. \A u \in Valuations : Goal(u) = TBB \/ Goal(u) = p
    BY <2>1
  <2> HIDE DEF Goal
  <2>. QED
    BY <1>4, <1>5, <2>5, <2>6, <2>7
<1>. QED
  BY <1>6, <1>7, <1>8
----------------------------------------------------------------------------
(***************************************************************************)
(* updateTerminator, case by case: the block it leaves goes, in front of   *)
(* its new layout successor, where it should.                              *)
(***************************************************************************)
\* A block left alone because it leaves for its destinations by itself.
LEMMA JumpFits ==
  ASSUME WellFormed(block), NEW p, Agrees(block, p), \E k \in 1..Len(block) : block[k].op = "RJMPk"
  PROVE  Fits(block)
<1>1. \A v : \E k \in 1..Len(block) : Leaves(block[k], v)
  BY WhoLeaves
<1>2. \A v, dest : Goes(block, v, p, dest) <=> Goes(block, v, next, dest)
  BY <1>1, LeavingIgnoresNext DEF WellFormed
<1>. QED
  BY <1>2 DEF Fits, Agrees

\* New branches behind what removeBranch leaves: every condition decides as
\* the outputs of the analysis say.
LEMMA InsertedFits ==
  ASSUME NEW c \in Seq(Quiet), NEW t \in Blocks, NEW f \in Blocks \cup {None},
         NEW cond \in {<< >>} \cup {<<x>> : x \in CondCodes}, cond = << >> => f = None,
         \A v \in Valuations, dest \in Destinations :
           Goes(origin.block, v, origin.next, dest) <=>
             dest = IF cond = << >> \/ cond[1] \in v THEN t ELSE Or(f, next)
  PROVE  Fits(InsertBranch(c, t, f, cond))
BY InsertedGoes DEF Fits, Agrees, Or

LEMMA QuietFits ==
  ASSUME NEW c \in Seq(Quiet),
         \A v \in Valuations, dest \in Destinations :
           Goes(origin.block, v, origin.next, dest) <=> dest = next
  PROVE  Fits(c)
BY QuietGoes DEF Fits, Agrees

LEMMA UpdateJumpFits ==
  ASSUME PlacementInv, NEW p \in Blocks \cup {None}, UpdateReady(p), Updates,
         Cond = << >>, TBB # None
  PROVE  Fits(IF IsLayoutSuccessor(TBB) THEN RemoveBranch(block) ELSE block)
<1>1. pc = "success"
  BY DEF Updates
<1>2. \A v \in Valuations, dest \in Destinations :
        Goes(origin.block, v, origin.next, dest) <=> dest = TBB
  BY <1>1 DEF UpdateReady, AnalyzedWith, Or
<1>3. CASE IsLayoutSuccessor(TBB)
  <2>1. RemoveBranch(block) \in Seq(Quiet)
    BY <1>1, RemovedIsQuiet DEF PlacementInv, WellFormed, UpdateReady, AnalyzedWith
  <2>. QED
    BY <1>2, <1>3, <2>1, QuietFits DEF IsLayoutSuccessor
<1>4. CASE ~IsLayoutSuccessor(TBB)
  BY <1>1, <1>4, JumpFits DEF PlacementInv, UpdateReady, AnalyzedWith
<1>. QED
  BY <1>3, <1>4

LEMMA UpdateFallThroughFits ==
  ASSUME PlacementInv, NEW p \in Blocks \cup {None}, UpdateReady(p), Updates,
         Cond = << >>, TBB = None, NEW dest \in succs
  PROVE  Fits(IF IsLayoutSuccessor(dest) THEN block ELSE InsertBranch(block, dest, None, Cond))
<1>1. pc = "success" /\ AnalyzedWith(p) /\ OriginInv
  BY DEF Updates, UpdateReady, PlacementInv
<1>2. p \in Blocks /\ dest = p
  BY <1>1, SuccessorsByOutputs
<1>3. \A v \in Valuations, d \in Destinations :
        Goes(origin.block, v, origin.next, d) <=> d = dest
  BY <1>1, <1>2 DEF AnalyzedWith, Or
<1>4. block \in Seq(Quiet)
  BY <1>1 DEF UpdateReady
<1>5. CASE IsLayoutSuccessor(dest)
  BY <1>3, <1>4, <1>5, QuietFits DEF IsLayoutSuccessor
<1>6. CASE ~IsLayoutSuccessor(dest)
  BY <1>2, <1>3, <1>4, <1>6, InsertedFits
<1>. QED
  BY <1>5, <1>6

\* What the outputs of a conditional block say, forwards and reversed.
LEMMA ConditionalOutputs ==
  ASSUME OriginInv, NEW p \in Blocks \cup {None}, AnalyzedWith(p), pc = "success", Cond # << >>
  PROVE  /\ TBB \in Blocks /\ FBB \in Blocks \cup {None} /\ Or(FBB, p) \in Blocks
         /\ Cond \in {<<x>> : x \in CondCodes}
         /\ ReverseBranchCondition(Cond) \in {<<x>> : x \in CondCodes}
         /\ \A v \in Valuations, dest \in Destinations :
              /\ Goes(origin.block, v, origin.next, dest) <=>
                   dest = IF Cond[1] \in v THEN TBB ELSE Or(FBB, p)
              /\ Goes(origin.block, v, origin.next, dest) <=>
                   dest = IF ReverseBranchCondition(Cond)[1] \in v THEN Or(FBB, p) ELSE TBB
<1>1. TBB \in Blocks /\ FBB \in Blocks \cup {None}
  BY DEF AnalyzedWith, TypeOK
<1>2. PICK c \in CondCodes : Cond = <<c>>
  BY DEF AnalyzedWith, TypeOK
<1>3. /\ ReverseBranchCondition(Cond) = <<OppositeCondition[c]>> /\ OppositeCondition[c] \in CondCodes
      /\ \A v \in Valuations : OppositeCondition[c] \in v <=> c \notin v
  BY <1>2, ReversedCondition
<1>4. \A v \in Valuations, dest \in Destinations :
        Goes(origin.block, v, origin.next, dest) <=> dest = IF c \in v THEN TBB ELSE Or(FBB, p)
  BY <1>1, <1>2, BlocksAssumption DEF AnalyzedWith, Or
<1>5. Or(FBB, p) \in Blocks
  <2>1. CASE FBB = None
    BY <2>1, SuccessorsByOutputs DEF Or
  <2>2. CASE FBB # None
    BY <1>1, <2>2 DEF Or
  <2>. QED
    BY <2>1, <2>2
<1>. QED
  BY <1>1, <1>2, <1>3, <1>4, <1>5

LEMMA UpdateTwoWayFits ==
  ASSUME PlacementInv, NEW p \in Blocks \cup {None}, UpdateReady(p), Updates,
         Cond # << >>, FBB # None
  PROVE  Fits(IF IsLayoutSuccessor(TBB)
                THEN InsertBranch(RemoveBranch(block), FBB, None, ReverseBranchCondition(Cond))
              ELSE IF IsLayoutSuccessor(FBB)
                THEN InsertBranch(RemoveBranch(block), TBB, None, Cond)
              ELSE block)
<1>1. pc = "success" /\ AnalyzedWith(p) /\ OriginInv /\ WellFormed(block) /\ Or(FBB, p) = FBB
  BY DEF Updates, UpdateReady, PlacementInv, Or
<1>2. RemoveBranch(block) \in Seq(Quiet)
  BY <1>1, RemovedIsQuiet DEF WellFormed, AnalyzedWith
<1>3. CASE IsLayoutSuccessor(TBB)
  <2>1. Or(None, next) = TBB
    BY <1>3 DEF Or, IsLayoutSuccessor
  <2>2. Fits(InsertBranch(RemoveBranch(block), FBB, None, ReverseBranchCondition(Cond)))
    BY <1>1, <1>2, <2>1, ConditionalOutputs, InsertedFits
  <2>. QED
    BY <1>3, <2>2
<1>4. CASE ~IsLayoutSuccessor(TBB) /\ IsLayoutSuccessor(FBB)
  <2>1. Or(None, next) = FBB
    BY <1>4 DEF Or, IsLayoutSuccessor
  <2>2. Fits(InsertBranch(RemoveBranch(block), TBB, None, Cond))
    BY <1>1, <1>2, <2>1, ConditionalOutputs, InsertedFits
  <2>. QED
    BY <1>4, <2>2
<1>5. CASE ~IsLayoutSuccessor(TBB) /\ ~IsLayoutSuccessor(FBB)
  BY <1>1, <1>5, JumpFits DEF UpdateReady, AnalyzedWith
<1>. QED
  BY <1>3, <1>4, <1>5

LEMMA UpdateDegenerateFits ==
  ASSUME PlacementInv, NEW p \in Blocks \cup {None}, UpdateReady(p), OneWay, succs \subseteq {TBB}
  PROVE  LET stripped == RemoveBranch(block)
         IN  Fits(IF ~CanFallThrough THEN InsertBranch(stripped, TBB, None, << >>)
                  ELSE IF IsLayoutSuccessor(TBB) THEN stripped
                  ELSE InsertBranch(stripped, TBB, None, Cond))
<1>1. /\ pc = "success" /\ AnalyzedWith(p) /\ OriginInv /\ WellFormed(block)
      /\ Cond # << >> /\ FBB = None /\ Or(FBB, p) = p
  BY DEF OneWay, Updates, UpdateReady, PlacementInv, Or
<1>2. RemoveBranch(block) \in Seq(Quiet)
  BY <1>1, RemovedIsQuiet DEF WellFormed, AnalyzedWith
<1>3. p = TBB
  BY <1>1, SuccessorsByOutputs
<1>4. /\ TBB \in Blocks
      /\ \A v \in Valuations, dest \in Destinations :
           Goes(origin.block, v, origin.next, dest) <=> dest = TBB
  BY <1>1, <1>3, ConditionalOutputs
<1>5. CASE ~CanFallThrough
  <2>1. Fits(InsertBranch(RemoveBranch(block), TBB, None, << >>))
    BY <1>2, <1>4, InsertedFits
  <2>. QED
    BY <1>5, <2>1
<1>6. CASE CanFallThrough
  <2>1. next = TBB /\ IsLayoutSuccessor(TBB)
    BY <1>4, <1>6, BlocksAssumption DEF CanFallThrough, IsLayoutSuccessor
  <2>2. Fits(RemoveBranch(block))
    BY <1>2, <1>4, <2>1, QuietFits
  <2>. QED
    BY <1>6, <2>1, <2>2
<1>. QED
  BY <1>5, <1>6

LEMMA UpdateConditionalFits ==
  ASSUME PlacementInv, NEW p \in Blocks \cup {None}, UpdateReady(p), OneWay,
         NEW fallThrough \in succs \ {TBB}
  PROVE  Fits(IF IsLayoutSuccessor(TBB)
                THEN InsertBranch(RemoveBranch(block), fallThrough, None,
                                  ReverseBranchCondition(Cond))
              ELSE IF ~IsLayoutSuccessor(fallThrough)
                THEN InsertBranch(RemoveBranch(block), TBB, fallThrough, Cond)
              ELSE block)
<1>1. /\ pc = "success" /\ AnalyzedWith(p) /\ OriginInv /\ WellFormed(block)
      /\ Cond # << >> /\ FBB = None /\ Or(FBB, p) = p
  BY DEF OneWay, Updates, UpdateReady, PlacementInv, Or
<1>2. RemoveBranch(block) \in Seq(Quiet)
  BY <1>1, RemovedIsQuiet DEF WellFormed, AnalyzedWith
<1>3. p \in Blocks /\ fallThrough = p
  BY <1>1, SuccessorsByOutputs
<1>4. CASE IsLayoutSuccessor(TBB)
  <2>1. Or(None, next) = TBB
    BY <1>4 DEF Or, IsLayoutSuccessor
  <2>2. Fits(InsertBranch(RemoveBranch(block), fallThrough, None, ReverseBranchCondition(Cond)))
    BY <1>1, <1>2, <1>3, <2>1, ConditionalOutputs, InsertedFits
  <2>. QED
    BY <1>4, <2>2
<1>5. CASE ~IsLayoutSuccessor(TBB) /\ ~IsLayoutSuccessor(fallThrough)
  <2>1. Or(fallThrough, next) = p
    BY <1>3, BlocksAssumption DEF Or
  <2>2. Fits(InsertBranch(RemoveBranch(block), TBB, fallThrough, Cond))
    BY <1>1, <1>2, <1>3, <2>1, ConditionalOutputs, InsertedFits
  <2>. QED
    BY <1>5, <2>2
<1>6. CASE ~IsLayoutSuccessor(TBB) /\ IsLayoutSuccessor(fallThrough)
  <2>1. next = p
    BY <1>3, <1>6 DEF IsLayoutSuccessor
  <2>2. Fits(block)
    BY <1>1, <2>1 DEF Fits, AnalyzedWith
  <2>. QED
    BY <1>6, <2>2
<1>. QED
  BY <1>4, <1>5, <1>6

\* Nothing is done to a block with no successors or that is not understood:
\* the layout left it its successor, or it needs none.
LEMMA UpdateNothingFits ==
  ASSUME PlacementInv, NEW p \in Blocks \cup {None}, UpdateReady(p), UpdateNothing
  PROVE  Fits(block)
<1>1. pc # "success"
  BY SuccessorsByOutputs, UpdateReady(p) DEF UpdateNothing, UpdateReady, PlacementInv
<1>2. pc = "unanalyzable"
  BY <1>1 DEF UpdateNothing, Updating, UpdateReady, AnalyzedWith, TypeOK
<1>. QED
  BY <1>2 DEF UpdateReady, Fits, PlacementInv
----------------------------------------------------------------------------
(***************************************************************************)
(* The layout, and optimizeBranches.                                       *)
(***************************************************************************)
\* A block the analysis gave up on keeps its layout successor, or does not
\* fall through whatever its successor is.
LEMMA PlaceUnanalyzable ==
  ASSUME PlacementInv, AnalysisInv, Agrees(block, next), pc = "unanalyzable",
         NEW n, CanFallThrough => n = next
  PROVE  Agrees(block, n)
<1>1. CASE CanFallThrough
  BY <1>1
<1>2. CASE ~CanFallThrough
  <2>1. block \in Seq(Instructions) /\ block # << >> /\ next \in Blocks \cup {None} /\ OriginInv
    BY DEF AnalysisInv, PlacementInv, WellFormed
  <2>2. ASSUME NEW v \in Valuations PROVE \E k \in 1..Len(block) : Leaves(block[k], v)
    <3>1. CASE next \in Blocks /\ next \in succs
      <4>1. Len(block) \in 1..Len(block) /\ block[Len(block)].op \in {"RJMPk", "JMPk", "RET"}
        BY <1>2, <2>1, <3>1, BlocksAssumption DEF CanFallThrough
      <4>. QED
        BY <4>1, WhoLeaves
    <3>2. CASE next = None \/ next \notin succs
      <4>1. SUFFICES ASSUME \A k \in 1..Len(block) : ~Leaves(block[k], v) PROVE FALSE
        OBVIOUS
      <4>2. Goes(block, v, next, next)
        BY <4>1, StayingFallsThrough
      <4>3. Goes(origin.block, v, origin.next, next)
        BY <2>1, <4>2 DEF Agrees, Destinations
      <4>. QED
        BY <2>1, <3>2, <4>3, OriginGoesSomewhere
    <3>. QED
      BY <2>1, <3>1, <3>2
  <2>. QED
    BY <2>1, <2>2, LeavingIgnoresNext DEF Agrees
<1>. QED
  BY <1>1, <1>2

LEMMA PlaceKeepsInv ==
  ASSUME PlacementInv, Place
  PROVE  PlacementInv'
<1>1. AnalysisInv /\ Agrees(block, next) /\ ~allowModify /\ pc # "scan" /\ stage \in {"place", "redo"}
  BY DEF PlacementInv, Place
<1>2. UpdateReady(next) /\ next \in Blocks \cup {None}
  BY <1>1, AnalysisEnds DEF PlacementInv
<1>3. /\ UNCHANGED <<allowModify, block0, block, I, unCondBr, outputs, pc, origin, succs>>
      /\ next' \in Blocks \cup {None}
      /\ stage' \in {"update", "redone"}
      /\ pc = "unanalyzable" /\ CanFallThrough => next' = next
  BY DEF Place
<1>4. TypeOK'
  BY <1>1, <1>3 DEF AnalysisInv, IInv, TypeOK, outputs
<1>5. pc = "unanalyzable" => Agrees(block, next')
  BY <1>1, <1>3, PlaceUnanalyzable
<1>6. (pc = "unanalyzable" => Agrees(block, next))'
  BY <1>3, <1>5 DEF Agrees
<1>7. \A p : Agrees(block, p) => Agrees(block, p)'
  BY <1>3 DEF Agrees
<1>8. \A p : UpdateReady(p) => UpdateReady(p)'
  BY <1>3, <1>4, <1>6, <1>7 DEF UpdateReady, AnalyzedWith, outputs
<1>9. \E p \in Blocks \cup {None} : UpdateReady(p)'
  BY <1>2, <1>8
<1>. QED
  BY <1>1, <1>3, <1>9 DEF PlacementInv, OriginInv, Stages, StaysAnalyzable

LEMMA ReorderKeepsInv ==
  ASSUME PlacementInv, Reorder
  PROVE  PlacementInv'
<1> DEFINE b == InsertBranch(RemoveBranch(block), FBB, TBB, ReverseBranchCondition(Cond))
<1>1. /\ AnalysisInv /\ Agrees(block, next) /\ pc = "success" /\ OriginInv /\ WellFormed(block)
      /\ TBB # None /\ FBB # None /\ Cond # << >> /\ next \in Blocks \cup {None}
  BY DEF PlacementInv, Reorder, TwoWay
<1>2. AnalyzedWith(next) /\ Or(FBB, next) = FBB /\ Or(TBB, next) = TBB
  BY <1>1, AnalysisEnds DEF Or
<1>3. RemoveBranch(block) \in Seq(Quiet)
  BY <1>1, <1>2, RemovedIsQuiet DEF WellFormed, AnalyzedWith
<1>4. Fits(b)
  BY <1>1, <1>2, <1>3, ConditionalOutputs, InsertedFits
<1>5. HasSimpleBranches(b)
  BY <1>1, <1>2, <1>3, ConditionalOutputs, InsertedGoes
<1>6. /\ CallAnalyze(b, FALSE) /\ stage' = "reorder"
      /\ UNCHANGED <<next, origin, succs>>
  BY DEF Reorder
<1> HIDE DEF b
<1>7. AnalysisInv'
  BY <1>1, <1>4, <1>6, FreshCall DEF Fits
<1>8. block' = b /\ ~allowModify' /\ pc' = "scan"
  BY <1>6 DEF CallAnalyze
<1>9. (Agrees(block, next) /\ WellFormed(block) /\ OriginInv)'
  BY <1>1, <1>4, <1>6, <1>8 DEF Agrees, Fits, OriginInv
<1>. QED
  BY <1>6, <1>7, <1>8, <1>9, <1>5 DEF PlacementInv, Stages, StaysAnalyzable
----------------------------------------------------------------------------
LEMMA PlacementStarts == PlacementInit => PlacementInv
<1> SUFFICES ASSUME PlacementInit PROVE PlacementInv
  OBVIOUS
<1>1. Init
  BY DEF PlacementInit, Init, InitAny
<1>2. IInv
  BY <1>1, InitInvariant
<1>3. block \in Seq(Instructions) /\ I = Len(block) + 1
  BY <1>2 DEF PlacementInit, InitAny, IInv, TypeOK
<1>4. AnalysisInv
  BY <1>2, <1>3 DEF PlacementInit, InitAny, AnalysisInv, Visited, PlainOutputs
<1>. QED
  BY <1>2, <1>3, <1>4
  DEF PlacementInit, InitAny, PlacementInv, OriginInv, Stages, WellFormed, Agrees, IInv,
      LoopInvariant, StaysAnalyzable

LEMMA PlacementStep ==
  ASSUME PlacementInv, [PlacementNext]_placementVars
  PROVE  PlacementInv'
<1>1. CASE AnalyzeStep
  <2>1. AnalysisInv /\ Agrees(block, next) /\ Analyze
        /\ stage \in {"place", "redo", "optimize", "reorder"}
    BY <1>1 DEF PlacementInv, AnalyzeStep, Stages, Analyze, Turn, ReachBegin, SkipDebugValue,
       StopAtNonTerminator, GiveUpOnTerminator, JumpUnmodified, JumpToLayoutSuccessor,
       JumpElsewhere, SwapBranches, FirstConditional, RepeatedConditional, GiveUpOnConditional
  <2>2. AnalysisInv' /\ UNCHANGED inputs /\ UNCHANGED <<stage, origin, succs>>
    BY <1>1, <2>1, AnalysisStep DEF AnalyzeStep
  <2>3. Agrees(block, next)'
    BY <2>1, <2>2 DEF Agrees, Destinations, AnalysisInv, IInv, ControlPreserved, inputs
  <2>4. WellFormed(block)'
    BY <2>2 DEF AnalysisInv, IInv, LoopInvariant, TypeOK, WellFormed
  <2>5. pc = "scan"
    BY <2>1 DEF Analyze, Turn, ReachBegin, SkipDebugValue,
       StopAtNonTerminator, GiveUpOnTerminator, JumpUnmodified, JumpToLayoutSuccessor,
       JumpElsewhere, SwapBranches, FirstConditional, RepeatedConditional, GiveUpOnConditional
  <2>6. HasSimpleBranches(block) => HasSimpleBranches(block)' /\ pc' # "unanalyzable"
    BY <2>1, <2>5, SimpleStep DEF AnalysisInv
  <2>7. (HasSimpleBranches(origin.block) \/ stage = "reorder") => HasSimpleBranches(block)
    BY DEF PlacementInv
  <2>8. (HasSimpleBranches(origin.block) \/ stage = "reorder")' =>
          HasSimpleBranches(block)' /\ pc' # "unanalyzable"
    BY <2>2, <2>6, <2>7
  <2>9. StaysAnalyzable'
    BY <2>8 DEF StaysAnalyzable
  <2>. QED
    BY <2>1, <2>2, <2>3, <2>4, <2>8, <2>9 DEF PlacementInv, OriginInv, inputs
<1>2. CASE Place
  BY <1>2, PlaceKeepsInv
<1>3. CASE UpdateNothing
  <2>1. PICK p \in Blocks \cup {None} : UpdateReady(p)
    BY <1>3, UpdatingIsReady DEF UpdateNothing
  <2>. QED
    BY <1>3, <2>1, UpdateNothingFits, UpdatedKeepsInv DEF UpdateNothing, Fits
<1>4. CASE UpdateJump \/ UpdateFallThrough \/ UpdateTwoWay \/ UpdateDegenerate \/ UpdateConditional
  <2>1. Updates /\ Updating
    BY <1>4 DEF UpdateJump, UpdateFallThrough, UpdateTwoWay, UpdateDegenerate, UpdateConditional,
       OneWay, Updates
  <2>2. PICK p \in Blocks \cup {None} : UpdateReady(p)
    BY <2>1, UpdatingIsReady
  <2>3. SUFFICES \E b : Fits(b) /\ Updated(b)
    BY <2>1, UpdatedKeepsInv DEF Fits
  <2>4. CASE UpdateJump
    BY <2>2, <2>4, UpdateJumpFits DEF UpdateJump
  <2>5. CASE UpdateFallThrough
    BY <2>2, <2>5, UpdateFallThroughFits DEF UpdateFallThrough
  <2>6. CASE UpdateTwoWay
    BY <2>2, <2>6, UpdateTwoWayFits DEF UpdateTwoWay
  <2>7. CASE UpdateDegenerate
    BY <2>2, <2>7, UpdateDegenerateFits DEF UpdateDegenerate
  <2>8. CASE UpdateConditional
    BY <2>2, <2>8, UpdateConditionalFits DEF UpdateConditional
  <2>. QED
    BY <1>4, <2>4, <2>5, <2>6, <2>7, <2>8
<1>5. CASE Reorder
  BY <1>5, ReorderKeepsInv
<1>6. CASE KeepOrder
  BY <1>6 DEF KeepOrder, PlacementInv, OriginInv, Stages, WellFormed, Agrees, StaysAnalyzable, vars,
     inputs
<1>7. CASE PlaceAgain
  <2>1. /\ CallAnalyze(block, FALSE) /\ stage' = "place" /\ UNCHANGED <<block, next, origin, succs>>
        /\ ~allowModify' /\ pc' = "scan" /\ Agrees(block, next) /\ WellFormed(block)
    BY <1>7 DEF PlaceAgain, CallAnalyze, PlacementInv
  <2>2. AnalysisInv'
    BY <2>1, FreshCall DEF PlacementInv
  <2>. QED
    BY <1>7, <2>1, <2>2 DEF PlaceAgain, PlacementInv, OriginInv, Stages, WellFormed, Agrees, StaysAnalyzable
<1>8. CASE UNCHANGED placementVars
  <2>1. UNCHANGED <<vars, stage, origin, succs>>
    BY <1>8 DEF placementVars
  <2>2. IInv => IInv'
    BY <2>1, StutterInvariant
  <2>3. AnalysisInv => AnalysisInv'
    BY <2>1, <2>2 DEF AnalysisInv, Visited, PlainOutputs, vars, inputs, outputs
  <2>4. \A n : Agrees(block, n) => Agrees(block, n)'
    BY <2>1 DEF Agrees, vars
  <2>5. TypeOK => TypeOK'
    BY <2>1 DEF TypeOK, vars, inputs, outputs
  <2>6. \A p : UpdateReady(p) => UpdateReady(p)'
    BY <2>1, <2>4, <2>5 DEF UpdateReady, AnalyzedWith, Agrees, vars, inputs, outputs
  <2>. QED
    BY <2>1, <2>3, <2>4, <2>6 DEF PlacementInv, OriginInv, WellFormed, StaysAnalyzable, vars, inputs
<1>. QED
  BY <1>1, <1>2, <1>3, <1>4, <1>5, <1>6, <1>7, <1>8 DEF PlacementNext

(***************************************************************************)
(* The inductive invariant of placement over the analysis.                 *)
(***************************************************************************)
THEOREM PlacementInvariant == PlacementSpec => []PlacementInv
BY PlacementStarts, PlacementStep, PTL DEF PlacementSpec

(***************************************************************************)
(* MachineBlockPlacement with updateTerminator and the SNES hooks changes  *)
(* no destination, for every set of blocks and every block, whatever       *)
(* layouts it chooses and however often it runs.                           *)
(***************************************************************************)
THEOREM PlacementIsSafe == PlacementSpec => []PlacementKeepsControl
<1>1. PlacementInv => PlacementKeepsControl
  BY DEF PlacementInv, PlacementKeepsControl, Agrees, Destinations, Stages
<1>. QED
  BY <1>1, PlacementInvariant, PTL

(***************************************************************************)
(* The asserts of updateTerminator on the successors, and those of         *)
(* insertBranch, never fail.                                               *)
(***************************************************************************)
THEOREM AssertsHold == PlacementSpec => []UpdateAsserts
<1>1. ASSUME PlacementInv, Updates
      PROVE  UpdateAsserts
  <2>1. PICK p \in Blocks \cup {None} : UpdateReady(p)
    BY <1>1, UpdatingIsReady DEF Updates
  <2>2. AnalyzedWith(p) /\ pc = "success" /\ OriginInv
    BY <1>1, <2>1 DEF UpdateReady, Updates, PlacementInv
  <2>3. Cond = << >> /\ TBB = None => succs = {p}
    BY <2>2, SuccessorsByOutputs
  <2>4. Cond # << >> /\ FBB = None => succs = {TBB, p}
    BY <2>2, SuccessorsByOutputs
  <2>5. TBB # None => MayInsert(TBB, FBB, Cond)
    BY <2>2 DEF AnalyzedWith, MayInsert
  <2>. QED
    BY <2>3, <2>4, <2>5 DEF UpdateAsserts, OneWay
<1>2. ASSUME ~Updates PROVE UpdateAsserts
  BY <1>2 DEF UpdateAsserts, OneWay
<1>. QED
  BY <1>1, <1>2, PlacementInvariant, PTL

(***************************************************************************)
(* optimizeBranches calls updateTerminator without asking whether the      *)
(* block it edited can be analyzed: it always can, and so can, for ever,   *)
(* every block that had one conditional branch at most.                    *)
(***************************************************************************)
THEOREM AlwaysAnalyzable == PlacementSpec => []StaysAnalyzable
BY PlacementInvariant, PTL DEF PlacementInv
----------------------------------------------------------------------------
(***************************************************************************)
(* Tidiness.  The modifying analysis of optimizeBranches takes away a jump *)
(* to the layout successor once it has looked at the end of the block, and *)
(* updateTerminator adds none.                                             *)
(***************************************************************************)
TidyPlacement ==
  /\ NoJumpToNext
  /\ stage = "optimize" =>
       /\ allowModify /\ TidyTail
       /\ I <= Len(block) \/ pc # "scan" => ~EndsInJumpTo(block, next)
  /\ stage = "reorder" => ~EndsInJumpTo(block, next)

\* The last instruction, once the loop has looked at it.
LEMMA LookedAtEnd ==
  ASSUME IInv, IInv', allowModify, Analyze,
         I <= Len(block) => ~EndsInJumpTo(block, next)
  PROVE  (I <= Len(block) \/ pc # "scan" => ~EndsInJumpTo(block, next))'
<1>1. block \in Seq(Instructions) /\ block' \in Seq(Instructions) /\ I \in 1..(Len(block) + 1)
  BY DEF IInv, TypeOK
<1>2. CASE JumpToLayoutSuccessor \/ SwapBranches
  <2>1. I' = Len(block') + 1 /\ pc' = "scan"
    BY <1>2 DEF JumpToLayoutSuccessor, SwapBranches, Restart, Turn
  <2>. QED
    BY <1>1, <2>1
<1>3. CASE JumpElsewhere
  <2>1. /\ At \in 1..Len(block) /\ block' = SubSeq(block, 1, At) /\ Cur.target # next
        /\ next' = next
    BY <1>1, <1>3, CurrentInstruction DEF JumpElsewhere, Continue, inputs, Turn, IInv, TypeOK
  <2>2. Len(block') = At /\ block'[At] = Cur
    BY <1>1, <2>1, Truncated DEF Cur
  <2>. QED
    BY <2>1, <2>2 DEF EndsInJumpTo
<1>4. CASE JumpUnmodified
  BY <1>4 DEF JumpUnmodified
<1>5. CASE ReachBegin
  <2>1. block' = block /\ next' = next /\ I = 1
    BY <1>5 DEF ReachBegin, ReturnWith, inputs
  <2>2. block = << >> \/ I <= Len(block)
    BY <1>1, <2>1
  <2>. QED
    BY <2>1, <2>2 DEF EndsInJumpTo
<1>6. CASE \/ SkipDebugValue \/ FirstConditional \/ RepeatedConditional
           \/ StopAtNonTerminator \/ GiveUpOnTerminator \/ GiveUpOnConditional
  <2>1. block' = block /\ next' = next /\ Turn /\ Cur.op # "RJMPk"
    BY <1>6 DEF SkipDebugValue, FirstConditional, RepeatedConditional, StopAtNonTerminator,
       GiveUpOnTerminator, GiveUpOnConditional, Continue, ReturnWith, inputs, CondBranches
  <2>2. I <= Len(block) \/ At = Len(block)
    BY <1>1 DEF At
  <2>. QED
    BY <2>1, <2>2 DEF EndsInJumpTo, Cur
<1>. QED
  BY <1>2, <1>3, <1>4, <1>5, <1>6 DEF Analyze

\* No update leaves a jump to the layout successor that was not there.
LEMMA UpdatesAreTidy ==
  ASSUME PlacementInv,
         \/ UpdateNothing \/ UpdateJump \/ UpdateFallThrough
         \/ UpdateTwoWay \/ UpdateDegenerate \/ UpdateConditional
  PROVE  \E b : Updated(b) /\ (b = block \/ ~EndsInJumpTo(b, next))
<1>1. CASE UpdateNothing
  BY <1>1 DEF UpdateNothing
<1>2. CASE UpdateJump \/ UpdateFallThrough \/ UpdateTwoWay \/ UpdateDegenerate \/ UpdateConditional
  <2>1. Updates /\ Updating /\ pc = "success" /\ OriginInv
    BY <1>2 DEF UpdateJump, UpdateFallThrough, UpdateTwoWay, UpdateDegenerate, UpdateConditional,
       OneWay, Updates, PlacementInv
  <2>2. PICK p \in Blocks \cup {None} : UpdateReady(p)
    BY <2>1, UpdatingIsReady
  <2>3. AnalyzedWith(p) /\ TBB \in Blocks \cup {None} /\ FBB \in Blocks \cup {None}
        /\ Cond \in {<< >>} \cup {<<x>> : x \in CondCodes}
    BY <2>2 DEF UpdateReady, AnalyzedWith, TypeOK
  <2>4. RemoveBranch(block) \in Seq(Quiet)
    BY <2>1, <2>3, RemovedIsQuiet DEF PlacementInv, WellFormed, AnalyzedWith
  <2>5. \A c \in Seq(Quiet) : ~EndsInJumpTo(c, next)
    <3>1. \A i \in Quiet : i.op # "RJMPk"
      BY DEF Quiet, Instr
    <3>. QED
      BY <3>1 DEF EndsInJumpTo
  <2>6. Cond # << >> => TBB \in Blocks /\ ReverseBranchCondition(Cond) \in {<<x>> : x \in CondCodes}
    BY <2>1, <2>3, ConditionalOutputs
  <2>7. succs \subseteq Blocks
    BY <2>1 DEF OriginInv, SuccessorsOf
  <2>8. CASE UpdateJump
    BY <2>4, <2>5, <2>8 DEF UpdateJump
  <2>9. CASE UpdateFallThrough
    <3>1. PICK dest \in succs :
            Updated(IF IsLayoutSuccessor(dest) THEN block ELSE InsertBranch(block, dest, None, Cond))
      BY <2>9 DEF UpdateFallThrough
    <3>2. block \in Seq(Quiet) /\ Cond = << >> /\ dest \in Blocks
      BY <2>1, <2>2, <2>7, <2>9 DEF UpdateFallThrough, UpdateReady
    <3>3. ~IsLayoutSuccessor(dest) => dest # next
      BY <3>2, BlocksAssumption DEF IsLayoutSuccessor
    <3>4. ~IsLayoutSuccessor(dest) => ~EndsInJumpTo(InsertBranch(block, dest, None, Cond), next)
      BY <3>2, <3>3, InsertedGoes
    <3>. QED
      BY <3>1, <3>4
  <2>10. CASE UpdateTwoWay
    <3>1. TBB \in Blocks /\ FBB \in Blocks /\ Cond # << >>
          /\ ReverseBranchCondition(Cond) # << >>
      BY <2>3, <2>6, <2>10 DEF UpdateTwoWay
    <3>2. ~EndsInJumpTo(InsertBranch(RemoveBranch(block), FBB, None, ReverseBranchCondition(Cond)), next)
      BY <2>4, <2>6, <3>1, InsertedGoes
    <3>3. ~EndsInJumpTo(InsertBranch(RemoveBranch(block), TBB, None, Cond), next)
      BY <2>3, <2>4, <3>1, InsertedGoes
    <3>. QED
      BY <2>10, <3>2, <3>3 DEF UpdateTwoWay
  <2>11. CASE UpdateDegenerate
    <3>1. TBB \in Blocks /\ Cond # << >> /\ FBB = None
      BY <2>6, <2>11 DEF UpdateDegenerate, OneWay
    <3>2. TBB \in succs
      BY <2>1, <2>3, <3>1, SuccessorsByOutputs
    <3>3. ~CanFallThrough => TBB # next
      BY <2>1, <3>1, <3>2, BlocksAssumption DEF CanFallThrough
    <3>4. ~CanFallThrough => ~EndsInJumpTo(InsertBranch(RemoveBranch(block), TBB, None, << >>), next)
      BY <2>4, <3>1, <3>3, InsertedGoes
    <3>5. ~EndsInJumpTo(InsertBranch(RemoveBranch(block), TBB, None, Cond), next)
      BY <2>3, <2>4, <3>1, InsertedGoes
    <3>. QED
      BY <2>4, <2>5, <2>11, <3>4, <3>5 DEF UpdateDegenerate
  <2>12. CASE UpdateConditional
    <3>1. PICK fallThrough \in succs \ {TBB} :
            Updated(IF IsLayoutSuccessor(TBB)
                      THEN InsertBranch(RemoveBranch(block), fallThrough, None,
                                        ReverseBranchCondition(Cond))
                    ELSE IF ~IsLayoutSuccessor(fallThrough)
                      THEN InsertBranch(RemoveBranch(block), TBB, fallThrough, Cond)
                    ELSE block)
      BY <2>12 DEF UpdateConditional
    <3>2. TBB \in Blocks /\ Cond # << >> /\ fallThrough \in Blocks
          /\ ReverseBranchCondition(Cond) # << >>
          /\ ReverseBranchCondition(Cond) \in {<< >>} \cup {<<x>> : x \in CondCodes}
      BY <2>6, <2>7, <2>12 DEF UpdateConditional, OneWay
    <3>3. ~EndsInJumpTo(InsertBranch(RemoveBranch(block), fallThrough, None,
                                     ReverseBranchCondition(Cond)), next)
      BY <2>4, <3>2, InsertedGoes
    <3>4. ~IsLayoutSuccessor(fallThrough) => fallThrough # next
      BY <3>2, BlocksAssumption DEF IsLayoutSuccessor
    <3>5. ~IsLayoutSuccessor(fallThrough) =>
            ~EndsInJumpTo(InsertBranch(RemoveBranch(block), TBB, fallThrough, Cond), next)
      BY <2>3, <2>4, <3>2, <3>4, InsertedGoes
    <3>. QED
      BY <3>1, <3>3, <3>5
  <2>. QED
    BY <1>2, <2>8, <2>9, <2>10, <2>11, <2>12
<1>. QED
  BY <1>1, <1>2

LEMMA TidyPlacementStep ==
  ASSUME PlacementInv, PlacementInv', TidyPlacement, [PlacementNext]_placementVars
  PROVE  TidyPlacement'
<1>1. CASE AnalyzeStep
  <2>1. Analyze /\ UNCHANGED stage /\ stage \in {"place", "redo", "optimize", "reorder"}
        /\ UNCHANGED inputs
    BY <1>1, AnalysisStep DEF PlacementInv, AnalyzeStep, Stages, Analyze, Turn, ReachBegin, SkipDebugValue,
       StopAtNonTerminator, GiveUpOnTerminator, JumpUnmodified, JumpToLayoutSuccessor,
       JumpElsewhere, SwapBranches, FirstConditional, RepeatedConditional, GiveUpOnConditional
  <2>2. IInv /\ IInv'
    BY <2>1 DEF PlacementInv, AnalysisInv
  <2>3. CASE stage = "optimize"
    <3>1. TidyTail'
      BY <2>1, <2>2, <2>3, TidyStep DEF TidyPlacement, Next
    <3>2. (I <= Len(block) \/ pc # "scan" => ~EndsInJumpTo(block, next))'
      BY <2>1, <2>2, <2>3, LookedAtEnd DEF TidyPlacement
    <3>. QED
      BY <2>1, <2>3, <3>1, <3>2 DEF TidyPlacement, NoJumpToNext, inputs
  <2>4. CASE stage = "reorder"
    <3>1. block' = block
      BY <2>1, <2>4 DEF PlacementInv, Analyze, ReachBegin, SkipDebugValue,
       StopAtNonTerminator, GiveUpOnTerminator, JumpUnmodified, JumpToLayoutSuccessor,
       JumpElsewhere, SwapBranches, SwapsBranches, FirstConditional, RepeatedConditional,
       GiveUpOnConditional, ReturnWith
    <3>. QED
      BY <2>1, <2>4, <3>1 DEF TidyPlacement, NoJumpToNext, EndsInJumpTo, inputs
  <2>5. CASE stage \in {"place", "redo"}
    BY <2>1, <2>5 DEF TidyPlacement, NoJumpToNext
  <2>. QED
    BY <2>1, <2>3, <2>4, <2>5
<1>2. CASE Place
  BY <1>2 DEF Place, TidyPlacement, NoJumpToNext
<1>3. CASE \/ UpdateNothing \/ UpdateJump \/ UpdateFallThrough
           \/ UpdateTwoWay \/ UpdateDegenerate \/ UpdateConditional
  <2>1. PICK b : Updated(b) /\ (b = block \/ ~EndsInJumpTo(b, next))
    BY <1>3, UpdatesAreTidy
  <2>2. CASE stage = "reorder"
    <3>1. stage' = "idle" /\ block' = b /\ next' = next
      BY <2>1, <2>2 DEF Updated, SetBlock
    <3>2. ~EndsInJumpTo(b, next)
      BY <2>1, <2>2 DEF TidyPlacement
    <3>. QED
      BY <3>1, <3>2 DEF TidyPlacement, NoJumpToNext, EndsInJumpTo
  <2>3. CASE stage # "reorder"
    <3>1. PICK modify \in BOOLEAN :
            CallAnalyze(b, modify) /\ stage' = IF modify THEN "optimize" ELSE "redo"
      BY <2>1, <2>3 DEF Updated
    <3>2. stage' # "idle" /\ stage' # "reorder"
      BY <3>1
    <3>3. stage' = "optimize" => allowModify'
      BY <3>1 DEF CallAnalyze
    <3>4. I' = Len(block') + 1 /\ pc' = "scan" /\ TBB' = None /\ FBB' = None /\ block' = b
      BY <3>1 DEF CallAnalyze
    <3>5. stage' = "optimize" => b \in Seq(Instructions)
      BY <3>4 DEF PlacementInv, WellFormed
    <3>6. stage' = "optimize" => TidyTail' /\ ~(I' <= Len(block'))
      BY <3>4, <3>5 DEF TidyTail
    <3>. QED
      BY <3>2, <3>3, <3>4, <3>6 DEF TidyPlacement, NoJumpToNext
  <2>. QED
    BY <2>2, <2>3
<1>4. CASE Reorder
  <2> DEFINE b == InsertBranch(RemoveBranch(block), FBB, TBB, ReverseBranchCondition(Cond))
  <2>1. /\ AnalysisInv /\ Agrees(block, next) /\ pc = "success" /\ OriginInv /\ WellFormed(block)
        /\ TBB # None /\ FBB # None /\ Cond # << >> /\ next \in Blocks \cup {None}
        /\ stage = "optimize"
    BY <1>4 DEF PlacementInv, Reorder, TwoWay
  <2>2. AnalyzedWith(next) /\ TBB \in Blocks /\ FBB \in Blocks
    BY <2>1, AnalysisEnds DEF AnalyzedWith, TypeOK
  <2>3. RemoveBranch(block) \in Seq(Quiet)
    BY <2>1, <2>2, RemovedIsQuiet DEF WellFormed, AnalyzedWith
  <2>4. TBB # next
    BY <2>1 DEF TidyPlacement, TidyTail, Stale
  <2>5. ReverseBranchCondition(Cond) \in {<<x>> : x \in CondCodes}
    BY <2>1, <2>2, ConditionalOutputs
  <2>6. ReverseBranchCondition(Cond) # << >>
    BY <2>5
  <2>7. ~EndsInJumpTo(b, next)
    BY <2>2, <2>3, <2>4, <2>5, <2>6, InsertedGoes
  <2>8. block' = b /\ next' = next /\ stage' = "reorder"
    BY <1>4 DEF Reorder, CallAnalyze
  <2> HIDE DEF b
  <2>. QED
    BY <2>7, <2>8 DEF TidyPlacement, NoJumpToNext, EndsInJumpTo
<1>5. CASE KeepOrder
  <2>1. /\ stage = "optimize" /\ pc # "scan" /\ stage' = "idle" /\ block' = block /\ next' = next
    BY <1>5 DEF KeepOrder, vars, inputs
  <2>. QED
    BY <2>1 DEF TidyPlacement, NoJumpToNext, EndsInJumpTo
<1>6. CASE PlaceAgain
  BY <1>6 DEF PlaceAgain, TidyPlacement, NoJumpToNext
<1>7. CASE UNCHANGED placementVars
  BY <1>7 DEF placementVars, vars, inputs, outputs, TidyPlacement, TidyTail, Stale, NoJumpToNext,
     EndsInJumpTo
<1>. QED
  BY <1>1, <1>2, <1>3, <1>4, <1>5, <1>6, <1>7 DEF PlacementNext

(***************************************************************************)
(* After every run of placement the block does not end in a jump to its    *)
(* layout successor, whichever branches updateTerminator built on the way. *)
(***************************************************************************)
THEOREM NoNeedlessJump == PlacementSpec => []NoJumpToNext
<1>1. PlacementInit => TidyPlacement
  BY DEF PlacementInit, TidyPlacement, NoJumpToNext
<1>2. TidyPlacement => NoJumpToNext
  BY DEF TidyPlacement
<1>. QED
  BY <1>1, <1>2, TidyPlacementStep, PlacementInvariant, PTL DEF PlacementSpec
----------------------------------------------------------------------------
(***************************************************************************)
(* Types.  Between two runs the block stands beside the iterators of the   *)
(* last analysis: they fit it because the updateTerminator that ends a run *)
(* leaves the block alone, no side of a reordered branch being the layout  *)
(* successor.                                                              *)
(***************************************************************************)
NeverGoesNext == \A v \in Valuations : ~Goes(block, v, next, next)

TypedPlacement ==
  /\ stage = "idle" => TypeOK
  /\ stage = "reorder" => NeverGoesNext

\* What the update after optimizeBranches does to the block.
LEMMA ReorderedStays ==
  ASSUME PlacementInv, TypedPlacement, stage = "reorder",
         \/ UpdateNothing \/ UpdateJump \/ UpdateFallThrough
         \/ UpdateTwoWay \/ UpdateDegenerate \/ UpdateConditional
  PROVE  Updated(block)
<1>1. CASE UpdateNothing
  BY <1>1 DEF UpdateNothing
<1>2. CASE UpdateJump \/ UpdateFallThrough \/ UpdateTwoWay \/ UpdateDegenerate \/ UpdateConditional
  <2>1. Updates /\ Updating /\ pc = "success"
    BY <1>2 DEF UpdateJump, UpdateFallThrough, UpdateTwoWay, UpdateDegenerate, UpdateConditional,
       OneWay, Updates
  <2>2. UpdateReady(next) /\ Agrees(block, next) /\ next \in Destinations
    BY <2>1, AnalysisEnds DEF PlacementInv, Updating, Destinations
  <2>3. \A v \in Valuations :
          ~(next = IF Cond = << >> \/ Cond[1] \in v THEN Or(TBB, next) ELSE Or(FBB, next))
    BY <2>1, <2>2 DEF UpdateReady, AnalyzedWith, Agrees, TypedPlacement, NeverGoesNext
  <2>4. Cond # << >> => Cond[1] \in CondCodes
    BY <2>2 DEF UpdateReady, AnalyzedWith, TypeOK
  <2>5. TBB # None /\ TBB # next
    BY <2>3, <2>4, SomeValuation DEF Or
  <2>6. Cond # << >> => FBB # None /\ FBB # next
    BY <2>3, <2>4, SomeValuation DEF Or
  <2>. QED
    BY <1>2, <2>5, <2>6
    DEF UpdateJump, UpdateFallThrough, UpdateTwoWay, UpdateDegenerate, UpdateConditional,
        OneWay, IsLayoutSuccessor
<1>. QED
  BY <1>1, <1>2

LEMMA TypedPlacementStep ==
  ASSUME PlacementInv, PlacementInv', TidyPlacement, TypedPlacement, [PlacementNext]_placementVars
  PROVE  TypedPlacement'
<1>1. CASE AnalyzeStep
  <2>1. Analyze /\ UNCHANGED stage /\ stage \in {"place", "redo", "optimize", "reorder"}
        /\ UNCHANGED inputs
    BY <1>1, AnalysisStep DEF PlacementInv, AnalyzeStep, Stages, Analyze, Turn, ReachBegin, SkipDebugValue,
       StopAtNonTerminator, GiveUpOnTerminator, JumpUnmodified, JumpToLayoutSuccessor,
       JumpElsewhere, SwapBranches, FirstConditional, RepeatedConditional, GiveUpOnConditional
  <2>2. stage = "reorder" => block' = block
    BY <2>1 DEF PlacementInv, Analyze, ReachBegin, SkipDebugValue,
       StopAtNonTerminator, GiveUpOnTerminator, JumpUnmodified, JumpToLayoutSuccessor,
       JumpElsewhere, SwapBranches, SwapsBranches, FirstConditional, RepeatedConditional,
       GiveUpOnConditional, ReturnWith
  <2>. QED
    BY <2>1, <2>2 DEF TypedPlacement, NeverGoesNext, inputs
<1>2. CASE Place
  BY <1>2 DEF Place, TypedPlacement
<1>3. CASE \/ UpdateNothing \/ UpdateJump \/ UpdateFallThrough
           \/ UpdateTwoWay \/ UpdateDegenerate \/ UpdateConditional
  <2>1. CASE stage = "reorder"
    <3>1. stage' = "idle" /\ UNCHANGED vars
      BY <1>3, <2>1, ReorderedStays DEF Updated, SetBlock, vars, outputs, inputs
    <3>2. TypeOK
      BY <2>1 DEF PlacementInv, AnalysisInv, IInv
    <3>. QED
      BY <3>1, <3>2 DEF TypedPlacement, TypeOK, vars, inputs, outputs
  <2>2. CASE stage # "reorder"
    <3>1. stage' \in {"optimize", "redo"}
      BY <1>3, <2>2, UpdatesAreTidy DEF Updated
    <3>. QED
      BY <3>1 DEF TypedPlacement
  <2>. QED
    BY <2>1, <2>2
<1>4. CASE Reorder
  <2>1. /\ AnalysisInv /\ Agrees(block, next) /\ pc = "success"
        /\ TBB # None /\ FBB # None /\ Cond # << >> /\ next \in Blocks \cup {None}
        /\ stage = "optimize"
    BY <1>4 DEF PlacementInv, Reorder, TwoWay
  <2>2. AnalyzedWith(next) /\ Or(FBB, next) = FBB /\ Or(TBB, next) = TBB
    BY <2>1, AnalysisEnds DEF Or
  <2>3. TBB # next /\ FBB # next
    BY <2>1 DEF TidyPlacement, TidyTail, Stale
  <2>4. \A v \in Valuations : ~Goes(origin.block, v, origin.next, next)
    BY <2>1, <2>2, <2>3 DEF AnalyzedWith, Destinations
  <2>5. stage' = "reorder" /\ UNCHANGED <<next, origin>>
    BY <1>4 DEF Reorder
  <2>6. Agrees(block, next)'
    BY <2>5 DEF PlacementInv
  <2>. QED
    BY <2>1, <2>4, <2>5, <2>6 DEF TypedPlacement, NeverGoesNext, Agrees, Destinations
<1>5. CASE KeepOrder
  <2>1. TypeOK /\ stage' = "idle" /\ UNCHANGED vars
    BY <1>5 DEF KeepOrder, PlacementInv, AnalysisInv, IInv
  <2>. QED
    BY <2>1 DEF TypedPlacement, TypeOK, vars, inputs, outputs
<1>6. CASE PlaceAgain
  BY <1>6 DEF PlaceAgain, TypedPlacement
<1>7. CASE UNCHANGED placementVars
  BY <1>7 DEF placementVars, vars, inputs, outputs, TypedPlacement, NeverGoesNext, TypeOK
<1>. QED
  BY <1>1, <1>2, <1>3, <1>4, <1>5, <1>6, <1>7 DEF PlacementNext

(***************************************************************************)
(* Placement keeps the types of the analysis, also between two runs, when  *)
(* the block is one no analysis has looked at since its last update.       *)
(***************************************************************************)
THEOREM PlacementTypes == PlacementSpec => []PlacementTypeOK
<1>1. PlacementInit => TidyPlacement /\ TypedPlacement
  BY DEF PlacementInit, TidyPlacement, NoJumpToNext, TypedPlacement
<1>2. ASSUME PlacementInv, TypedPlacement
      PROVE  PlacementTypeOK
  <2>1. TypeOK
    BY <1>2 DEF PlacementInv, TypedPlacement, AnalysisInv, IInv, UpdateReady, AnalyzedWith, Stages
  <2>2. succs \subseteq Blocks /\ stage \in Stages
    BY <1>2 DEF PlacementInv, OriginInv, SuccessorsOf
  <2>. QED
    BY <2>1, <2>2 DEF PlacementTypeOK
<1>. QED
  BY <1>1, <1>2, TidyPlacementStep, TypedPlacementStep, PlacementInvariant, PTL DEF PlacementSpec
============================================================================
