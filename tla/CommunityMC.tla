----------------------------- MODULE CommunityMC -----------------------------
(***************************************************************************)
(* Three requests, after two of the past: ann follows bob, and a fishing   *)
(* result of bob's was rejected.                                           *)
(***************************************************************************)
EXTENDS Community, TLC

CONSTANTS ann, bob, oldFollow, oldResult, p1, p2

Authors == p1 :> bob @@ p2 :> bob
Past ==
  oldFollow :> [op |-> "add", kind |-> "follow", by |-> ann, to |-> bob]
    @@ oldResult :> [op |-> "register", by |-> bob]

\* 29 February of a leap year, and of another year.
SomeDates == {<<2024, 2, 29>>, <<2023, 2, 29>>}

\* What meets: saves of a member; posts and goods for them; follows, blocks and goods
\* of a member who may withdraw; what appears and how it is read; results, their review
\* and their readers.
OfMember == [op : {"profile", "angler", "withdrawal"}, by : Member]
OfPost ==
  [op : {"post", "edit", "deletePost"}, by : Member, on : Post]
    \cup [op : {"add", "remove"}, kind : {"good"}, by : Member, to : {p1}]
OfFollow ==
  {c \in FollowRequests \cup BlockRequests \cup ReportRequests : c.by = ann}
    \cup [op : {"withdrawal"}, by : Member]
Reviews == {c \in FishingCalls : c.op = "review"}
OfReader ==
  [op : {"view", "check"}, by : {ann}]
    \cup [op : {"add", "remove"}, kind : {"follow"}, by : {ann}, to : {bob}]
    \cup [op : {"post", "deletePost"}, by : {bob}, on : Post]
    \cup Reviews
OfResult ==
  [op : {"register"}, by : Member] \cup [op : {"modify"}, by : Member, on : Reqs]
    \cup Reviews
    \cup [op : {"view", "check"}, by : {ann}]
SomeMixes == {OfMember, OfPost, OfFollow, OfReader, OfResult}

AnyRequest == Permutations(Reqs \ {oldFollow, oldResult})
=============================================================================
