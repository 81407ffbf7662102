-------------------------- MODULE MCCallSequence --------------------------
(***************************************************************************)
(* CallSequence on every signature of up to MaxArgs arguments of these     *)
(* types.  An i8 passed on the stack is left out: it takes one byte of the *)
(* offsets, and two of the stack.                                          *)
(***************************************************************************)
EXTENDS CallSequence

CONSTANTS MaxArgs, MCSizes

MCTypes == {<< >>} \cup {<<n>> : n \in MCSizes}

\* The pieces of the first n arguments.
PiecesUpTo(s, n) == Len(FlattenSeq([m \in 1..n |-> PiecesOf(m, s[m])]))

NoByteOnStack(s) == \A n \in 1..Len(s) : s[n] = <<1>> => PiecesUpTo(s, n) <= 3

\* Eight arguments, all of them on the stack: 60, 62 and 64 bytes, around the
\* largest offset that fits.
LongSignatures == {[n \in 1..8 |-> <<IF n = 8 THEN last ELSE 8>>] : last \in {4, 6, 8}}

MCSignatures ==
  {s \in UNION {[1..n -> MCTypes] : n \in 0..MaxArgs} : NoByteOnStack(s)} \cup LongSignatures

\* What the theorems of CallSequenceProofs assume is so here.
ASSUME MCAssumption ==
  StackIsLarge /\ WordsOnStack /\ ("wide" \in Returns \/ ScalarArguments)
============================================================================
