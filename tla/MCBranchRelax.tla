--------------------------- MODULE MCBranchRelax ---------------------------
(***************************************************************************)
(* BranchRelax on every function of four blocks whose branches are tidy,   *)
(* over a few distributions of bytes, with ranges scaled down.             *)
(***************************************************************************)
EXTENDS BranchRelax

CONSTANT Profiles  \* the bodies' bytes, block by block

\* A branch, to a block that is not the next one (nor the first).
Targets(n) == 1..3 \ {n + 1}

Jump(t) == Instr("RJMPk", t)
Branch(t) == Instr("BREQk", t)

\* What block n may end in.
Ends(n) ==
  {<<Jump(t)>> : t \in Targets(n)}
    \cup {<<Branch(p[1]), Jump(p[2])>> : p \in {q \in Targets(n) \X Targets(n) : q[1] # q[2]}}
    \cup IF n = 3 THEN {<<Instr("RET", Return)>>}
                  ELSE {<< >>} \cup {<<Branch(t)>> : t \in Targets(n)}

MCFunctions ==
  {[code |-> [n \in 0..3 |-> c[n + 1]], body |-> [n \in 0..3 |-> b[n + 1]]] :
     c \in Ends(0) \X Ends(1) \X Ends(2) \X Ends(3), b \in Profiles}

MCProfiles == {<<2, 10, 2, 10>>, <<10, 2, 10, 2>>, <<0, 8, 0, 6>>, <<5, 6, 13, 0>>}
============================================================================
