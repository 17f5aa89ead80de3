------------------------------ MODULE TipLedger ------------------------------
(***************************************************************************)
(* What tipping promises: every member has a purse, the system fills it    *)
(* and may take back what it has filled in, and a comment moves its tokens *)
(* from its author's purse to the owner's, once.  Before it does they must *)
(* have been found there; a member that makes one comment at a time spends *)
(* nothing else in between, so it lacks at most what the system has taken  *)
(* back meanwhile.                                                         *)
(***************************************************************************)
EXTENDS Integers

CONSTANTS
  Member,
  Comments,
  Author,    \* [Comments -> Member]
  Owner,     \* [Comments -> Member]
  Quantity,  \* [Comments -> Nat]
  Patient    \* members that make one comment at a time

VARIABLES
  purse,    \* [Member -> Int], tokens at a member's disposal
  allowed,  \* comments that may move their tokens
  tipped    \* comments whose tokens have moved

vars == <<purse, allowed, tipped>>

Init ==
  /\ purse = [m \in Member |-> 0]
  /\ allowed = {}
  /\ tipped = {}

Fill(m) ==
  /\ purse' = [purse EXCEPT ![m] = @ + 1]
  /\ UNCHANGED <<allowed, tipped>>

TakeBack(m) ==
  /\ purse' = [purse EXCEPT ![m] = @ - 1]
  /\ UNCHANGED <<allowed, tipped>>

\* A patient member has no other comment that may move tokens, and has enough.
Allow(c) ==
  /\ c \notin allowed \cup tipped
  /\ Author[c] \in Patient =>
       /\ Quantity[c] <= purse[Author[c]]
       /\ \A d \in allowed : Author[d] # Author[c]
  /\ allowed' = allowed \cup {c}
  /\ UNCHANGED <<purse, tipped>>

\* Tokens that go from a member to itself leave the purse as it is.
Tip(c) ==
  /\ c \in allowed
  /\ purse' = [m \in Member |->
                 purse[m] + (IF m = Owner[c] THEN Quantity[c] ELSE 0)
                          - (IF m = Author[c] THEN Quantity[c] ELSE 0)]
  /\ allowed' = allowed \ {c}
  /\ tipped' = tipped \cup {c}

\* Comments are refused after all.
Refuse ==
  /\ \E cs \in SUBSET allowed : allowed' = allowed \ cs
  /\ UNCHANGED <<purse, tipped>>

Next ==
  \/ \E m \in Member : Fill(m) \/ TakeBack(m)
  \/ \E c \in Comments : Allow(c) \/ Tip(c)
  \/ Refuse

Spec == Init /\ [][Next]_vars
=============================================================================
