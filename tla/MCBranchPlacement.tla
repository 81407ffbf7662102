------------------------ MODULE MCBranchPlacement ------------------------
(***************************************************************************)
(* BranchPlacement on small blocks over two condition pairs.  The names of *)
(* the targets are interchangeable, in the specification and in every      *)
(* property, so of the blocks that differ only by a renaming one is        *)
(* enough: the one that names B1 first, then B2, then B3.  (A SYMMETRY set *)
(* would be unsound with the liveness property.)                           *)
(***************************************************************************)
EXTENDS BranchPlacement

CONSTANTS B1, B2, B3, MaxTerminators, MCOpcodes

MCBlockNames == <<B1, B2, B3>>

NamedInOrder(b) ==
  \A m \in 2..3, k \in 1..Len(b) :
    b[k].target = MCBlockNames[m] => \E j \in 1..(k-1) : b[j].target = MCBlockNames[m-1]

MCBlocks ==
  LET instrs == {i \in Instructions : i.op \in MCOpcodes}
  IN  {b \in UNION {[1..n -> instrs] : n \in 0..MaxTerminators} : NamedInOrder(b)}
============================================================================
