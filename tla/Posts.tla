-------------------------------- MODULE Posts --------------------------------
(***************************************************************************)
(* Posts: PostController, PostService and PostDao.  The reward for a post  *)
(* is a RequestGrant of TokenGrant.  modify calls checkOwnPost without     *)
(* await: the post is saved whatever the check finds, and what the check   *)
(* finds amiss is an unhandled rejection.  Images and comment of a post    *)
(* are one text.                                                           *)
(***************************************************************************)
EXTENDS Members

CONSTANTS
  Post,     \* ids of posts
  Author,   \* [Post -> Member]: who registers it
  OldPost   \* those that are there from the start

ASSUME AuthorAssumption == Author \in [Post -> Member]
ASSUME OldPostAssumption == OldPost \subseteq Post

VARIABLES
  post,   \* [Post -> "none", "live" or, with deletedAt set, "deleted"]
  text    \* [Post -> the request that wrote it]

postVars == <<post, text>>

PostCalls == [op : {"post", "edit", "deletePost"}, by : Member, on : Post]
PostSteps == {"reward", "savePost"}

PostsTypeOK ==
  /\ post \in [Post -> {"none", "live", "deleted"}]
  /\ text \in [Post -> Reqs \cup {Unwritten}]

PostsInit ==
  /\ post = [p \in Post |-> IF p \in OldPost THEN "live" ELSE "none"]
  /\ text = [p \in Post |-> Unwritten]

\* findById skips what is deleted.
FindPost(p) == post[p] = "live"

-----------------------------------------------------------------------------
\* POST /post
RegisterPost(r) ==
  \E p \in Post :
    /\ post[p] = "none"
    /\ Arrive(r, [op |-> "post", by |-> Author[p], on |-> p], "reward")
    /\ post' = [post EXCEPT ![p] = "live"]
    /\ text' = [text EXCEPT ![p] = r]

\* giveTokenFromTokenMaster
RewardPost(r) ==
  /\ pc[r] = "reward"
  /\ Goto(r, "done")
  /\ UNCHANGED postVars

\* PATCH /post/:id: the check begins, and nobody awaits it.
EditPost(r) ==
  \E p \in Post, m \in Member :
    /\ post[p] # "none"
    /\ pc[r] = "idle"
    /\ pc' = [pc EXCEPT ![r] = "savePost"]
    /\ call' = [call EXCEPT ![r] = [op |-> "edit", by |-> m, on |-> p]]
    /\ before' = [before EXCEPT ![r] = {s \in Reqs : Over(s)}]
    /\ chores' = [chores EXCEPT ![r] = {"checkOwnPost"}]
    /\ UNCHANGED <<broken, mishaps, postVars>>

\* save: the row is there, deleted or not, and is updated.
SavePost(r) ==
  /\ pc[r] = "savePost"
  /\ text' = [text EXCEPT ![call[r].on] = r]
  /\ Leave(r, chores[r])
  /\ UNCHANGED post

\* Mutant: a deleted post is nobody's.
CheckOwnPostIfAny(r) ==
  /\ "checkOwnPost" \in chores[r]
  /\ IF FindPost(call[r].on) => Author[call[r].on] = call[r].by
     THEN FinishChore(r, "checkOwnPost", {})
     ELSE ProcessEnds
  /\ UNCHANGED postVars

\* checkOwnPost throws for a post of somebody else, and fails on none at all.
CheckOwnPost(r) ==
  /\ "checkOwnPost" \in chores[r]
  /\ IF FindPost(call[r].on) /\ Author[call[r].on] = call[r].by
     THEN FinishChore(r, "checkOwnPost", {})
     ELSE ProcessEnds
  /\ UNCHANGED postVars

\* DELETE /post/:id: one update, of a post of the member's own.
DeletePost(r) ==
  \E p \in Post :
    /\ post[p] # "none"
    /\ Arrive(r, [op |-> "deletePost", by |-> Author[p], on |-> p], "done")
    /\ post' = [post EXCEPT ![p] = "deleted"]
    /\ UNCHANGED text

PostStep(r) ==
  \/ RegisterPost(r) \/ RewardPost(r)
  \/ EditPost(r) \/ SavePost(r) \/ CheckOwnPost(r)
  \/ DeletePost(r)

-----------------------------------------------------------------------------
\* A post has a text of somebody else than its author only while the check is
\* still out, or because the process died before the check could end it.
ForeignEditEndsServer ==
  \A p \in Post :
    LET r == text[p]
    IN (r # Unwritten /\ call[r].by # Author[p]) =>
         "checkOwnPost" \in chores[r] \/ r \in broken
=============================================================================
