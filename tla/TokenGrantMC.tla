---------------------------- MODULE TokenGrantMC ----------------------------
(* Instances of TokenGrant for TLC. *)
EXTENDS TokenGrant, TLC

CONSTANTS t1, t2, d1, m1, m2

OneReceiver == [t \in Tx |-> m1]
TwoReceivers == [t \in Tx |-> IF t = t2 THEN m2 ELSE m1]

\* The job starts every three minutes: a run has marked and listed its rows
\* before the next one begins, and only the loops overlap.
StartsApart ==
  \A r, q \in Runs : r # q => ~(pc[r] \in {"mark", "list"} /\ pc[q] \in {"mark", "list"})

\* Rows of the same kind and the same receiver are alike, and so are runs.
Symmetric == Permutations(Tx \ DirectTx) \cup Permutations(Runs)
=============================================================================
