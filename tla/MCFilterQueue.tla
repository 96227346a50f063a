--------------------------- MODULE MCFilterQueue ---------------------------
(* Instances of FilterQueue for TLC. *)
EXTENDS FilterQueue

CONSTANTS s1, n1, n2, n3, e1, e2

\* n1 rejects e1 and takes e2; n2 takes both; n3 takes e1 and throws on e2.
MCVerdict == [n \in Nodes |-> [e \in Events |->
  CASE n = n1 /\ e = e1 -> "miss"
    [] n = n3 /\ e = e2 -> "throw"
    [] OTHER -> "match"]]
=============================================================================
