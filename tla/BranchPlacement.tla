-------------------------- MODULE BranchPlacement --------------------------
(***************************************************************************)
(* One block through MachineBlockPlacement, the main client of the         *)
(* target's branch hooks: the block gets a new layout successor, its       *)
(* branches are brought up to date by MachineBasicBlock::updateTerminator, *)
(* then optimizeBranches analyzes it with AllowModify and may exchange the *)
(* sides of a two-way branch.  Placement may run any number of times.      *)
(* Every analysis is a run of BranchAnalysis.  No block is a landing pad:  *)
(* the target has no exceptions.                                           *)
(***************************************************************************)
EXTENDS BranchAnalysis

VARIABLES
  stage,   \* what placement does with the block, one of Stages
  origin,  \* history: the block and its layout successor before placement
  succs    \* the CFG successors of the block

placementVars == <<vars, stage, origin, succs>>

Stages ==
  {"idle",      \* between two runs of placement
   "place",     \* analyzing before the layout is fixed
   "update",    \* in updateTerminator, after the new layout
   "redo",      \* analyzing before the layout redone after tail merging
   "redone",    \* in updateTerminator, after the redone layout
   "optimize",  \* in optimizeBranches, analyzing with AllowModify
   "reorder"}   \* in updateTerminator, after optimizeBranches

\* The CFG successors a block with these branches has.
SuccessorsOf(b, fallThrough) ==
  {dest \in Blocks : \E v \in Valuations : Goes(b, v, fallThrough, dest)}

\* Control never runs off the end of the function.
NeverFallsOff(b, fallThrough) ==
  \A v \in Valuations : ~Goes(b, v, fallThrough, None)

PlacementInit ==
  /\ InitAny
  /\ ~allowModify /\ NoDeadCode(block)
  /\ NeverFallsOff(block, next)
  /\ stage = "place"
  /\ origin = [block |-> block, next |-> next]
  /\ succs = SuccessorsOf(block, next)

\* analyzeBranch is called: null outputs, the iterator at the end.
CallAnalyze(b, modify) ==
  /\ allowModify' = modify
  /\ block0' = b /\ block' = b
  /\ I' = Len(b) + 1 /\ unCondBr' = 0
  /\ TBB' = None /\ FBB' = None /\ Cond' = << >>
  /\ pc' = "scan"

\* The caller edits the block and forgets the outputs of the analysis.
SetBlock(b) ==
  /\ block' = b
  /\ UNCHANGED <<I, unCondBr, outputs, pc>>

AnalyzeStep ==
  /\ Analyze
  /\ UNCHANGED <<stage, origin, succs>>
----------------------------------------------------------------------------
\* isLayoutSuccessor(dest)
IsLayoutSuccessor(dest) == dest # None /\ dest = next

\* MachineBasicBlock::canFallThrough, from the analysis at hand.
CanFallThrough ==
  /\ next # None /\ next \in succs
  /\ IF pc = "success"
       THEN TBB = None \/ TBB = next \/ FBB = next \/ (Cond # << >> /\ FBB = None)
       ELSE block[Len(block)].op \notin {"RJMPk", "JMPk", "RET"}

\* Placement chooses the block's layout successor.  buildCFGChains keeps the
\* one of a block it can neither analyze nor be sure it does not fall through.
Place ==
  /\ stage \in {"place", "redo"} /\ pc # "scan"
  /\ \E n \in Blocks \cup {None} :
       /\ pc = "unanalyzable" /\ CanFallThrough => n = next
       /\ next' = n
  /\ stage' = IF stage = "place" THEN "update" ELSE "redone"
  /\ UNCHANGED <<allowModify, block0, block, I, unCondBr, outputs, pc, origin, succs>>

\* Mutant: optimizeBranches does not allow modification.
UpdatedThenPlain(b) ==
  /\ \/ stage # "reorder" /\ stage' = "optimize" /\ CallAnalyze(b, FALSE)
     \/ stage = "update" /\ stage' = "redo" /\ CallAnalyze(b, FALSE)
     \/ stage = "reorder" /\ stage' = "idle" /\ SetBlock(b) /\ UNCHANGED inputs
  /\ UNCHANGED <<next, origin, succs>>

\* updateTerminator ends; the layout's update is followed by
\* optimizeBranches, whose own update ends the run, or, if tail merging
\* changed the function, by a second layout.
Updated(b) ==
  /\ \/ stage # "reorder" /\ stage' = "optimize" /\ CallAnalyze(b, TRUE)
     \/ stage = "update" /\ stage' = "redo" /\ CallAnalyze(b, FALSE)
     \/ stage = "reorder" /\ stage' = "idle" /\ SetBlock(b) /\ UNCHANGED inputs
  /\ UNCHANGED <<next, origin, succs>>

Updating == stage \in {"update", "redone", "reorder"} /\ pc # "scan"

\* No successors, or (the callers' guard) branches that cannot be analyzed.
UpdateNothing ==
  /\ Updating /\ (succs = {} \/ pc = "unanalyzable")
  /\ Updated(block)

Updates == Updating /\ succs # {} /\ pc = "success"

UpdateJump ==
  /\ Updates /\ Cond = << >> /\ TBB # None
  /\ Updated(IF IsLayoutSuccessor(TBB) THEN RemoveBranch(block) ELSE block)

UpdateFallThrough ==
  /\ Updates /\ Cond = << >> /\ TBB = None
  /\ \E dest \in succs :
       Updated(IF IsLayoutSuccessor(dest) THEN block ELSE InsertBranch(block, dest, None, Cond))

UpdateTwoWay ==
  /\ Updates /\ Cond # << >> /\ FBB # None
  /\ Updated(IF IsLayoutSuccessor(TBB)
               THEN InsertBranch(RemoveBranch(block), FBB, None, ReverseBranchCondition(Cond))
             ELSE IF IsLayoutSuccessor(FBB)
               THEN InsertBranch(RemoveBranch(block), TBB, None, Cond)
             ELSE block)

OneWay == Updates /\ Cond # << >> /\ FBB = None

\* Both sides of the conditional branch are one block.
UpdateDegenerate ==
  /\ OneWay /\ succs \subseteq {TBB}
  /\ LET stripped == RemoveBranch(block)
     IN  Updated(IF ~CanFallThrough THEN InsertBranch(stripped, TBB, None, << >>)
                 ELSE IF IsLayoutSuccessor(TBB) THEN stripped
                 ELSE InsertBranch(stripped, TBB, None, Cond))

\* Mutant: a branch to the new layout successor is retargeted, not reversed.
UpdateNotReversed ==
  /\ OneWay
  /\ \E fallThrough \in succs \ {TBB} :
       Updated(IF IsLayoutSuccessor(TBB)
                 THEN InsertBranch(RemoveBranch(block), fallThrough, None, Cond)
               ELSE IF ~IsLayoutSuccessor(fallThrough)
                 THEN InsertBranch(RemoveBranch(block), TBB, fallThrough, Cond)
               ELSE block)

\* Mutant: the branch makes way for a jump to the other side.
UpdateDropsBranch ==
  /\ OneWay
  /\ \E fallThrough \in succs \ {TBB} :
       Updated(IF IsLayoutSuccessor(TBB)
                 THEN InsertBranch(RemoveBranch(block), fallThrough, None, << >>)
               ELSE IF ~IsLayoutSuccessor(fallThrough)
                 THEN InsertBranch(RemoveBranch(block), TBB, fallThrough, Cond)
               ELSE block)

UpdateConditional ==
  /\ OneWay
  /\ \E fallThrough \in succs \ {TBB} :
       Updated(IF IsLayoutSuccessor(TBB)
                 THEN InsertBranch(RemoveBranch(block), fallThrough, None,
                                   ReverseBranchCondition(Cond))
               ELSE IF ~IsLayoutSuccessor(fallThrough)
                 THEN InsertBranch(RemoveBranch(block), TBB, fallThrough, Cond)
               ELSE block)

TwoWay == pc = "success" /\ TBB # None /\ Cond # << >> /\ FBB # None

\* optimizeBranches puts the likelier side first; the probabilities are left
\* open, so that it may for any two-way branch.
Reorder ==
  /\ stage = "optimize" /\ TwoWay
  /\ CallAnalyze(InsertBranch(RemoveBranch(block), FBB, TBB, ReverseBranchCondition(Cond)),
                 FALSE)
  /\ stage' = "reorder"
  /\ UNCHANGED <<next, origin, succs>>

KeepOrder ==
  /\ stage = "optimize" /\ pc # "scan"
  /\ stage' = "idle"
  /\ UNCHANGED <<vars, origin, succs>>

PlaceAgain ==
  /\ stage = "idle"
  /\ CallAnalyze(block, FALSE)
  /\ stage' = "place"
  /\ UNCHANGED <<next, origin, succs>>

PlacementNext ==
  \/ AnalyzeStep \/ Place \/ UpdateNothing \/ UpdateJump \/ UpdateFallThrough
  \/ UpdateTwoWay \/ UpdateDegenerate \/ UpdateConditional
  \/ Reorder \/ KeepOrder \/ PlaceAgain

PlacementSpec ==
  PlacementInit /\ [][PlacementNext]_placementVars /\ WF_placementVars(PlacementNext)
----------------------------------------------------------------------------
PlacementTypeOK ==
  /\ TypeOK
  /\ stage \in Stages
  /\ succs \subseteq Blocks

(***************************************************************************)
(* Between the choice of the layout and the end of updateTerminator the    *)
(* block may go astray; at every other moment it goes, under every         *)
(* condition, where it went before the first placement.                    *)
(***************************************************************************)
PlacementKeepsControl ==
  stage \notin {"update", "redone"} =>
    \A v \in Valuations, dest \in Blocks \cup {None, Return} :
      Goes(block, v, next, dest) <=> Goes(origin.block, v, origin.next, dest)

(***************************************************************************)
(* The asserts of updateTerminator and of insertBranch hold: one           *)
(* fall-through successor at most, and a destination for every branch.     *)
(***************************************************************************)
UpdateAsserts ==
  /\ (Updates /\ Cond = << >> /\ TBB = None) => \A d, e \in succs : d = e
  /\ OneWay => \A d, e \in succs \ {TBB} : d = e
  /\ (Updates /\ TBB # None) => MayInsert(TBB, FBB, Cond)

(***************************************************************************)
(* After a whole run the block has at most one branch that is not needed:  *)
(* it never ends in a jump to its layout successor.                        *)
(***************************************************************************)
NoJumpToNext ==
  (stage = "idle" /\ Len(block) > 0) =>
    ~(block[Len(block)].op = "RJMPk" /\ block[Len(block)].target = next)

(***************************************************************************)
(* A block that is analyzable because it has one conditional branch at     *)
(* most stays so under every sequence of updates and modifying analyses,   *)
(* and the one call of updateTerminator its callers do not guard, the one  *)
(* of optimizeBranches, never meets its assert "UpdateTerminators requires *)
(* analyzable predecessors!".                                              *)
(***************************************************************************)
HasSimpleBranches(b) ==
  /\ \A k \in 1..Len(b) : b[k].op \notin {"JMPk", "RET"}
  /\ \A j, k \in 1..Len(b) : b[j].op \in CondBranches /\ b[k].op \in CondBranches => j = k

StaysAnalyzable ==
  pc = "unanalyzable" => stage # "reorder" /\ ~HasSimpleBranches(origin.block)

\* Every run of placement comes to its end.
PlacementEnds == []<>(stage = "idle")
============================================================================
