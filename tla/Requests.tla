------------------------------ MODULE Requests ------------------------------
(***************************************************************************)
(* What every HTTP request of this server has in common, for the modules   *)
(* that serve several kinds of them (Cart, SocialGraph, Members,           *)
(* FishingReview and TimelineRead).  A request runs from await to await.   *)
(* An exception of a statement it awaits ends it (Nest answers with an     *)
(* error).  Work it has started without await, its chores, may still run   *)
(* when it has answered; an exception there is an unhandled rejection,     *)
(* which ends the process, and with it everything under way.               *)
(***************************************************************************)
EXTENDS Naturals

CONSTANTS
  Reqs,        \* the requests; a row that a request inserts has its name
  MaxMishaps   \* bound: how many statements throw or processes die

ASSUME MishapsAssumption == MaxMishaps \in Nat

VARIABLES
  pc,       \* [Reqs -> the step that comes next]
  call,     \* [Reqs -> what it asks for]
  chores,   \* [Reqs -> work it has started and does not await]
  before,   \* history: [Reqs -> the requests that were over when it arrived]
  broken,   \* history: requests that an exception or the process' death ended
  mishaps

requestVars == <<pc, call, chores, before, broken, mishaps>>

NoCall == [op |-> "none"]

\* Earlier: the calls of the requests that were over before the others start.
RequestsInit(Earlier) ==
  /\ pc = [r \in Reqs |-> IF r \in DOMAIN Earlier THEN "done" ELSE "idle"]
  /\ call = [r \in Reqs |-> IF r \in DOMAIN Earlier THEN Earlier[r] ELSE NoCall]
  /\ chores = [r \in Reqs |-> {}]
  /\ before = [r \in Reqs |-> {}]
  /\ broken = {}
  /\ mishaps = 0

Over(r) == pc[r] = "done"
Underway(r) == pc[r] \notin {"idle", "done"}

\* Neither of the two was over when the other arrived.
Overlap(r, s) ==
  /\ r # s
  /\ pc[r] # "idle" /\ pc[s] # "idle"
  /\ r \notin before[s] /\ s \notin before[r]

\* Request r arrives, asks for c, and goes on at step l.
Arrive(r, c, l) ==
  /\ pc[r] = "idle"
  /\ pc' = [pc EXCEPT ![r] = l]
  /\ call' = [call EXCEPT ![r] = c]
  /\ before' = [before EXCEPT ![r] = {s \in Reqs : Over(s)}]
  /\ UNCHANGED <<chores, broken, mishaps>>

Goto(r, l) ==
  /\ pc' = [pc EXCEPT ![r] = l]
  /\ UNCHANGED <<call, chores, before, broken, mishaps>>

\* The handler of r returns, or has returned, with chores W left to do.
Leave(r, W) ==
  /\ chores' = [chores EXCEPT ![r] = W]
  /\ pc' = [pc EXCEPT ![r] = IF W = {} THEN "done" ELSE "chores"]
  /\ UNCHANGED <<call, before, broken, mishaps>>

\* Chore w of r is done, and leaves chores W to do.
FinishChore(r, w, W) ==
  LET left == (chores[r] \ {w}) \cup W
  IN /\ chores' = [chores EXCEPT ![r] = left]
     /\ pc' = [pc EXCEPT ![r] = IF pc[r] = "chores" /\ left = {} THEN "done" ELSE pc[r]]
     /\ UNCHANGED <<call, before, broken, mishaps>>

\* The exception that a request meets in the ordinary course of things.
Refuse(r) ==
  /\ pc' = [pc EXCEPT ![r] = "done"]
  /\ broken' = broken \cup {r}
  /\ UNCHANGED <<call, chores, before, mishaps>>

\* A statement that r awaits throws.
Throw(r) ==
  /\ pc[r] \notin {"idle", "done", "chores"}
  /\ mishaps < MaxMishaps
  /\ mishaps' = mishaps + 1
  /\ pc' = [pc EXCEPT ![r] = "done"]
  /\ broken' = broken \cup {r}
  /\ UNCHANGED <<call, chores, before>>

\* The process is gone, and with it whatever was under way.
ProcessEnds ==
  /\ pc' = [r \in Reqs |-> IF Underway(r) THEN "done" ELSE pc[r]]
  /\ chores' = [r \in Reqs |-> {}]
  /\ broken' = broken \cup {r \in Reqs : Underway(r)}
  /\ UNCHANGED <<call, before, mishaps>>

\* It dies, of the rejection of a chore or of anything else, and is restarted.
Die ==
  /\ \E r \in Reqs : Underway(r)
  /\ mishaps < MaxMishaps
  /\ mishaps' = mishaps + 1
  /\ pc' = [r \in Reqs |-> IF Underway(r) THEN "done" ELSE pc[r]]
  /\ chores' = [r \in Reqs |-> {}]
  /\ broken' = broken \cup {r \in Reqs : Underway(r)}
  /\ UNCHANGED <<call, before>>
=============================================================================
