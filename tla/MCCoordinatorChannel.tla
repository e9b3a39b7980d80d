------------------------ MODULE MCCoordinatorChannel ------------------------
(* Finite instances of CoordinatorChannel for TLC.                         *)
EXTENDS CoordinatorChannel

CONSTANTS w1, w2, m1, m2, m3

\* With chunks of 2 bytes: m1 fills one chunk, m2 and m3 are of the same length
\* and take a full chunk and a shorter one each.
MCTotal == [m \in Messages |-> IF m = m1 THEN 2 ELSE 3]

=============================================================================
