-------------------------------- MODULE Loop --------------------------------
(***************************************************************************)
(* A loop over the elements of a sequence, from the first to the last: the *)
(* FoldLeft of the community modules, as a function on the number of turns  *)
(* so that a proof can go by induction on them.                             *)
(***************************************************************************)
EXTENDS Naturals, Sequences

CONSTANTS
  Start,      \* the value before the loop
  Body(_, _)  \* the value after a turn, from the one before it and the element

Run(s) ==
  LET after[i \in 0 .. Len(s)] == IF i = 0 THEN Start ELSE Body(after[i - 1], s[i])
  IN after[Len(s)]
=============================================================================
