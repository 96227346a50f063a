---------------------------- MODULE MCBotSession ----------------------------
(* Instances of BotSession for TLC. *)
EXTENDS BotSession, TLC

CONSTANTS c1, c2, c3, c4, q1, q2, k1, k2

\* Calls, accounts and keys are interchangeable: the specification compares
\* them only for equality and starts from one value for all.
Symmetry == Permutations(Calls) \cup Permutations(Accounts) \cup Permutations(Keys)
=============================================================================
