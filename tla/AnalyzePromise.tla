-------------------------- MODULE AnalyzePromise --------------------------
(***************************************************************************)
(* What the callers of analyzeBranch rely on, with no loop, no iterator    *)
(* and no output parameter that is half filled in: the block is rewritten  *)
(* any number of times, if the caller allows it, and then one answer is    *)
(* given about the block as it stands.  The comment of                     *)
(* TargetInstrInfo::analyzeBranch, read as a specification.                *)
(***************************************************************************)
EXTENDS SNESBranches

CONSTANT InitBlocks  \* the blocks it may be called on

VARIABLES
  allowModify, \* the caller lets the block be modified
  next,        \* the layout successor of the block
  block,       \* its instructions
  answer       \* what has been answered

vars == <<allowModify, next, block, answer>>

Conditions == {<< >>} \cup {<<c>> : c \in CondCodes}

Answer(status, tbb, fbb, cond) ==
  [status |-> status, tbb |-> tbb, fbb |-> fbb, cond |-> cond]

Pending == Answer("pending", None, None, << >>)
Unanalyzable == Answer("unanalyzable", None, None, << >>)

\* Under every condition both blocks pass control to the same place.
SameControl(b, c) ==
  \A v \in Valuations, dest \in Blocks \cup {None, Return} :
    Goes(b, v, next, dest) <=> Goes(c, v, next, dest)

\* Every instruction that is not a terminator is where it was.
SameBody(b, c) ==
  \A k \in 1..Len(b) : b[k].op = "BODY" => k <= Len(c) /\ c[k] = b[k]

Init ==
  /\ allowModify \in BOOLEAN
  /\ next \in Blocks \cup {None}
  /\ block \in InitBlocks
  /\ answer = Pending

Rewrite ==
  /\ answer = Pending /\ allowModify
  /\ block' \in Seq(Instructions) /\ Len(block') <= Len(block)
  /\ SameControl(block, block') /\ SameBody(block, block')
  /\ UNCHANGED <<allowModify, next, answer>>

\* The answer can be given to insertBranch, and is true of the block.
Succeed ==
  /\ answer = Pending
  /\ \E tbb, fbb \in Blocks \cup {None}, cond \in Conditions :
       /\ answer' = Answer("success", tbb, fbb, cond)
       /\ IF tbb = None THEN fbb = None /\ cond = << >> ELSE MayInsert(tbb, fbb, cond)
       /\ \A v \in Valuations, dest \in Blocks \cup {None, Return} :
            Described(tbb, fbb, cond, v, next, dest) <=> Goes(block, v, next, dest)
  /\ UNCHANGED <<allowModify, next, block>>

GiveUp ==
  /\ answer = Pending
  /\ answer' = Unanalyzable
  /\ UNCHANGED <<allowModify, next, block>>

Next == Rewrite \/ Succeed \/ GiveUp

Spec == Init /\ [][Next]_vars
============================================================================
