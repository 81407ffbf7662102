-------------------------- MODULE BranchAnalysis --------------------------
(***************************************************************************)
(* SNESInstrInfo::analyzeBranch, one step per turn of its loop.  The loop  *)
(* walks the terminators of a block bottom-up; with AllowModify it deletes *)
(* dead and redundant branches, swaps a conditional branch that targets    *)
(* the layout successor, and starts over after such an edit.               *)
(***************************************************************************)
EXTENDS SNESBranches

CONSTANTS
  InitBlocks  \* the blocks analyzeBranch may be called on

\* The terminators of a machine basic block come after its body.
TerminatorsLast(b) ==
  \A k \in 1..Len(b) : b[k].op = "BODY" => \A j \in 1..(k-1) : ~IsTerminator(b[j])

ASSUME InitBlocksAssumption ==
  /\ InitBlocks \subseteq Seq(Instructions)
  /\ \A b \in InitBlocks : TerminatorsLast(b)

VARIABLES
  allowModify, \* the parameter AllowModify
  next,        \* the layout successor of the block, None at the function's end
  block0,      \* history: the block as the caller handed it over
  block,       \* the instructions of MBB
  I,           \* the iterator: instructions I..Len(block) have been visited
  unCondBr,    \* UnCondBrIter, 0 being MBB.end()
  TBB, FBB,    \* output parameters
  Cond,        \* output parameter
  pc           \* "scan" in the loop, then what the function returned

inputs == <<allowModify, next, block0>>
outputs == <<TBB, FBB, Cond>>
vars == <<inputs, block, I, unCondBr, outputs, pc>>

\* No instruction that can run follows one that always leaves the block.
NoDeadCode(b) ==
  \A k \in 1..Len(b) :
    b[k].op \in {"RJMPk", "JMPk", "RET"} => \A j \in (k+1)..Len(b) : b[j].op = "DBG"

\* The callers pass null and empty output parameters.
InitAny ==
  /\ allowModify \in BOOLEAN
  /\ next \in Blocks \cup {None}
  /\ block0 \in InitBlocks
  /\ block = block0
  /\ I = Len(block) + 1
  /\ unCondBr = 0
  /\ TBB = None /\ FBB = None /\ Cond = << >>
  /\ pc = "scan"

\* Without AllowModify the callers' blocks have no dead branches: JumpUnmodified
\* would report the jump's target under a dead branch's condition.
Init == InitAny /\ (allowModify \/ NoDeadCode(block0))
----------------------------------------------------------------------------
\* A turn of the loop looks at the instruction before the iterator.
At == I - 1
Cur == block[At]

Turn == pc = "scan" /\ I # 1

\* continue: the instruction has been dealt with.
Continue == I' = At /\ UNCHANGED <<inputs, pc>>

\* Mutant: only the iterator is reset.
RestartKeepsJump == I' = Len(block') + 1 /\ UNCHANGED <<unCondBr, inputs, pc>>

\* continue after I = MBB.end(), UnCondBrIter = MBB.end().
Restart == I' = Len(block') + 1 /\ unCondBr' = 0 /\ UNCHANGED <<inputs, pc>>

ReturnWith(what) == pc' = what /\ UNCHANGED <<inputs, block, I, unCondBr, outputs>>

ReachBegin == pc = "scan" /\ I = 1 /\ ReturnWith("success")

SkipDebugValue ==
  /\ Turn /\ Cur.op = "DBG"
  /\ Continue /\ UNCHANGED <<block, unCondBr, outputs>>

StopAtNonTerminator == Turn /\ Cur.op = "BODY" /\ ReturnWith("success")

\* A terminator that is no branch, or a branch with no condition code.
GiveUpOnTerminator == Turn /\ Cur.op \in {"RET", "JMPk"} /\ ReturnWith("unanalyzable")

\* Mutant: the dead code behind the jump is erased without AllowModify too.
JumpAlwaysErases ==
  /\ Turn /\ Cur.op = "RJMPk" /\ ~allowModify
  /\ block' = SubSeq(block, 1, At)
  /\ unCondBr' = At
  /\ TBB' = Cur.target
  /\ Continue /\ UNCHANGED <<FBB, Cond>>

JumpUnmodified ==
  /\ Turn /\ Cur.op = "RJMPk" /\ ~allowModify
  /\ unCondBr' = At
  /\ TBB' = Cur.target
  /\ Continue /\ UNCHANGED <<block, FBB, Cond>>

\* Mutant: the jump itself is not erased.
JumpNotErased ==
  /\ Turn /\ Cur.op = "RJMPk" /\ allowModify
  /\ Cur.target = next
  /\ block' = SubSeq(block, 1, At)
  /\ TBB' = None /\ FBB' = None /\ Cond' = << >>
  /\ Restart

\* Mutant: the condition of the deleted branches is kept.
JumpKeepsCond ==
  /\ Turn /\ Cur.op = "RJMPk" /\ allowModify
  /\ Cur.target = next
  /\ block' = SubSeq(block, 1, At - 1)
  /\ TBB' = None /\ FBB' = None /\ UNCHANGED Cond
  /\ Restart

\* Everything behind the jump goes, and so does a jump to the next block.
JumpToLayoutSuccessor ==
  /\ Turn /\ Cur.op = "RJMPk" /\ allowModify
  /\ Cur.target = next
  /\ block' = SubSeq(block, 1, At - 1)
  /\ TBB' = None /\ FBB' = None /\ Cond' = << >>
  /\ Restart

\* Mutant: what follows the jump stays.
JumpKeepsDeadCode ==
  /\ Turn /\ Cur.op = "RJMPk" /\ allowModify
  /\ Cur.target # next
  /\ unCondBr' = At
  /\ TBB' = Cur.target /\ FBB' = None /\ Cond' = << >>
  /\ Continue /\ UNCHANGED block

JumpElsewhere ==
  /\ Turn /\ Cur.op = "RJMPk" /\ allowModify
  /\ Cur.target # next
  /\ block' = SubSeq(block, 1, At)
  /\ unCondBr' = At
  /\ TBB' = Cur.target /\ FBB' = None /\ Cond' = << >>
  /\ Continue

\* jCC next; jmp L2 becomes jnCC L2; jmp next, both built where the jump was.
SwapsBranches == allowModify /\ unCondBr # 0 /\ Cur.target = next

\* Mutant: the two new branches in the wrong order.
SwappedJumpFirst(jncc) ==
  SubSeq(block, 1, At - 1) \o SubSeq(block, At + 1, unCondBr - 1)
    \o <<Instr("RJMPk", Cur.target), Instr(jncc, block[unCondBr].target)>>

Swapped(jncc) ==
  [k \in 1..Len(block) |->
     IF k < At THEN block[k]
     ELSE IF k < unCondBr - 1 THEN block[k + 1]
     ELSE IF k = unCondBr - 1 THEN Instr(jncc, block[unCondBr].target)
     ELSE IF k = unCondBr THEN Instr("RJMPk", Cur.target)
     ELSE block[k]]

\* Mutant: the new branch keeps the condition of the old one.
SwapKeepsCondition ==
  /\ Turn /\ Cur.op \in CondBranches /\ Cond = << >>
  /\ SwapsBranches
  /\ block' = Swapped(Cur.op)
  /\ Restart /\ UNCHANGED outputs

SwapBranches ==
  /\ Turn /\ Cur.op \in CondBranches /\ Cond = << >>
  /\ SwapsBranches
  /\ block' = Swapped(BrCond[OppositeCondition[CondFromBranchOpc[Cur.op]]])
  /\ Restart /\ UNCHANGED outputs

\* Mutant: TBB is overwritten before FBB is taken from it.
FirstConditionalOverwrites ==
  /\ Turn /\ Cur.op \in CondBranches /\ Cond = << >>
  /\ ~SwapsBranches
  /\ TBB' = Cur.target
  /\ FBB' = TBB'
  /\ Cond' = <<CondFromBranchOpc[Cur.op]>>
  /\ Continue /\ UNCHANGED <<block, unCondBr>>

FirstConditional ==
  /\ Turn /\ Cur.op \in CondBranches /\ Cond = << >>
  /\ ~SwapsBranches
  /\ FBB' = TBB
  /\ TBB' = Cur.target
  /\ Cond' = <<CondFromBranchOpc[Cur.op]>>
  /\ Continue /\ UNCHANGED <<block, unCondBr>>

\* A further conditional branch is only understood if it repeats the first.
Repeats == Cur.target = TBB /\ Cond[1] = CondFromBranchOpc[Cur.op]

RepeatedConditional ==
  /\ Turn /\ Cur.op \in CondBranches /\ Cond # << >>
  /\ Repeats
  /\ Continue /\ UNCHANGED <<block, unCondBr, outputs>>

GiveUpOnConditional ==
  /\ Turn /\ Cur.op \in CondBranches /\ Cond # << >>
  /\ ~Repeats
  /\ ReturnWith("unanalyzable")

Returned == pc # "scan" /\ UNCHANGED vars

Analyze ==
  \/ ReachBegin \/ SkipDebugValue \/ StopAtNonTerminator \/ GiveUpOnTerminator
  \/ JumpUnmodified \/ JumpToLayoutSuccessor \/ JumpElsewhere
  \/ SwapBranches \/ FirstConditional \/ RepeatedConditional \/ GiveUpOnConditional

Next == Analyze \/ Returned

Spec == Init /\ [][Next]_vars /\ WF_vars(Analyze)
----------------------------------------------------------------------------
TypeOK ==
  /\ allowModify \in BOOLEAN
  /\ next \in Blocks \cup {None}
  /\ block0 \in Seq(Instructions)
  /\ block \in Seq(Instructions)
  /\ I \in 1..(Len(block) + 1)
  /\ unCondBr \in 0..Len(block)
  /\ TBB \in Blocks \cup {None} /\ FBB \in Blocks \cup {None}
  /\ Cond \in {<< >>} \cup {<<c>> : c \in CondCodes}
  /\ pc \in {"scan", "success", "unanalyzable"}

(***************************************************************************)
(* However the analysis edits the block, at every turn of the loop the     *)
(* block passes control, under every condition, where it passed it before. *)
(***************************************************************************)
ControlPreserved ==
  \A v \in Valuations, dest \in Blocks \cup {None, Return} :
    Goes(block, v, next, dest) <=> Goes(block0, v, next, dest)

(***************************************************************************)
(* Why: what holds at every turn of the loop.                              *)
(***************************************************************************)
\* After SwapBranches the outputs still describe the old block; the jump to
\* the layout successor it put at the end makes the next turn reset them.
Stale == pc = "scan" /\ I = Len(block) + 1 /\ TBB # None

StaleEndsInJump ==
  Stale => /\ allowModify /\ Cond = << >>
           /\ Len(block) > 0 /\ block[Len(block)] = Instr("RJMPk", next)

\* The instructions already visited go where the outputs say.
OutputsDescribeTail ==
  (pc # "unanalyzable" /\ ~Stale) =>
    \A v \in Valuations, dest \in Blocks \cup {None, Return} :
      Described(TBB, FBB, Cond, v, next, dest) <=> GoesFrom(block, I, v, next, dest)

OutputsShape ==
  /\ Cond = << >> => FBB = None
  /\ Cond # << >> => TBB # None
  /\ Cond # << >> => \E k \in I..Len(block) : block[k].op \in CondBranches

\* The jump remembered by a modifying analysis ends the block, does not go to
\* the layout successor, and until a condition is met is preceded by debug
\* values only.
RememberedJump ==
  (allowModify /\ unCondBr # 0) =>
    /\ unCondBr = Len(block) /\ I <= Len(block)
    /\ block[unCondBr].op = "RJMPk" /\ block[unCondBr].target # next
    /\ Cond = << >> => /\ TBB = block[unCondBr].target
                       /\ \A k \in I..(Len(block) - 1) : block[k].op = "DBG"

LoopInvariant ==
  /\ StaleEndsInJump /\ OutputsDescribeTail /\ OutputsShape /\ RememberedJump
  /\ TerminatorsLast(block)
  /\ allowModify \/ NoDeadCode(block)
  /\ pc = "success" => I = 1 \/ block[I - 1].op = "BODY"

(***************************************************************************)
(* On success TBB, FBB and Cond describe exactly where the block goes: the *)
(* four cases of the comment of TargetInstrInfo::analyzeBranch.            *)
(***************************************************************************)
OutputsDescribeBlock ==
  pc = "success" =>
    \A v \in Valuations, dest \in Blocks \cup {None, Return} :
      Described(TBB, FBB, Cond, v, next, dest) <=> Goes(block, v, next, dest)

(***************************************************************************)
(* What a modifying analysis hands back on success holds no jump to the    *)
(* layout successor, nothing behind a jump, and no two-way branch one of   *)
(* whose sides could have been a fall-through.                             *)
(***************************************************************************)
ModifiedBlockIsTidy ==
  (pc = "success" /\ allowModify) =>
    /\ \A k \in 1..Len(block) :
         block[k].op = "RJMPk" => k = Len(block) /\ block[k].target # next
    /\ FBB # None => TBB # next /\ FBB # next

(***************************************************************************)
(* What analyzeBranch accepts, insertBranch accepts: its asserts hold for  *)
(* the outputs of every successful analysis that found a branch, and the   *)
(* asserts on a second conditional branch hold whenever one is met.        *)
(***************************************************************************)
OutputsCanBeInserted ==
  /\ pc = "success" /\ TBB # None => MayInsert(TBB, FBB, Cond)
  /\ pc = "success" /\ TBB = None => FBB = None /\ Cond = << >>
  /\ pc = "scan" /\ Cond # << >> => TBB # None

(***************************************************************************)
(* An edit never lengthens the block, so starting over cannot go on for    *)
(* ever: an iteration that starts over either shortened the block or left  *)
(* a jump to the layout successor at its end, which the next turn deletes. *)
(***************************************************************************)
RestartsMakeProgress ==
  [][(pc = "scan" /\ I' > I) =>
       \/ Len(block') < Len(block)
       \/ /\ Len(block') = Len(block)
          /\ block'[Len(block)] = Instr("RJMPk", next)
          /\ block[Len(block)] # Instr("RJMPk", next)]_vars

\* The loop ends.
Terminates == <>(pc # "scan")

(***************************************************************************)
(* The loop implements what its callers rely on (AnalyzePromise): while it *)
(* runs, each edit is one the caller allowed and could not tell from the   *)
(* block before it, nothing is edited in the turn that returns, and the    *)
(* outputs handed over are insertable and true of the block left behind.   *)
(***************************************************************************)
Promise == INSTANCE AnalyzePromise WITH
  answer <- CASE pc = "scan" -> [status |-> "pending", tbb |-> None, fbb |-> None, cond |-> << >>]
              [] pc = "success" -> [status |-> pc, tbb |-> TBB, fbb |-> FBB, cond |-> Cond]
              [] OTHER -> [status |-> pc, tbb |-> None, fbb |-> None, cond |-> << >>]

ImplementsPromise == Promise!Spec
============================================================================
