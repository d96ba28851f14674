------------------------------ MODULE MCTurns ------------------------------
(***************************************************************************)
(* Instances of Turns for TLC.                                             *)
(***************************************************************************)
EXTENDS Turns, TLC

CONSTANTS s1, t1, t2, c1, c2, m1, m2

\* The run on sessions and steering leaves the handlers unsubscribed.
NobodyReads == \A c \in Conns : req[c] # "streaming"

Symmetry == Permutations(Turns) \cup Permutations(Conns) \cup Permutations(Steers)

\* A terminal frame is larger than a delta; the cap holds the terminal frame
\* and every steering frame that may follow it, and trims the rest.
MCFrameSize == [k \in Kinds |-> IF k \in Terminal THEN 2 ELSE 1]
=============================================================================
