--------------------------- MODULE CommentSpendMC ---------------------------
(* Instances of CommentSpend for TLC. *)
EXTENDS CommentSpend

CONSTANTS alice, bob, k1, k2, k3, k4

\* alice comments on bob's post twice; bob comments on hers and on his own.
AuthorOf == [c \in Comments |-> IF c \in {k1, k2} THEN alice ELSE bob]
OwnerOf == [c \in Comments |-> IF c = k3 THEN alice ELSE bob]
Affordable == [c \in Comments |-> IF c = k1 THEN 2 ELSE 1]
OneIsFree == [c \in Comments |-> CASE c = k1 -> 2 [] c = k4 -> 0 [] OTHER -> 1]

\* The system takes tokens back from alice, or from nobody.
TakenFromAlice == [m \in Member |-> IF m = alice THEN 1 ELSE 0]
NothingTaken == [m \in Member |-> 0]

\* k2 replies to k3, and k4 to k2, which is one level too deep.
Thread == [c \in Comments |-> CASE c = k2 -> k3 [] c = k4 -> k2 [] OTHER -> Nobody]
NoReply == [c \in Comments |-> Nobody]
=============================================================================
