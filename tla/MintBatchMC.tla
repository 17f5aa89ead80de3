---------------------------- MODULE MintBatchMC ----------------------------
(* Instances of MintBatch for TLC. *)
EXTENDS MintBatch

CONSTANTS catch1, trophy1, catches, trophies, picture

\* A fishing result and the trophy it won, each in the collection of its kind.
KindOf == [c \in Content |-> IF c = trophy1 THEN trophies ELSE catches]
WonWith == [c \in Content |-> IF c = trophy1 THEN catch1 ELSE NoContent]

\* The worst case for the temporary files: whoever mints uses the same name.
OneImage == [c \in Content |-> picture]

\* Activations of the hourly job: each visits every collection.
AllCollections == [r \in Runs |-> Collections]
=============================================================================
