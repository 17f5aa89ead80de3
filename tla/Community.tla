------------------------------ MODULE Community ------------------------------
(***************************************************************************)
(* Members, posts, goods, follows, blocks and reports, fishing results and *)
(* timelines together, in one process and over one database: a good is for *)
(* a post that its author may delete, a timeline shows what is posted or   *)
(* approved and whom one follows, and an unhandled rejection of one        *)
(* request ends all of them.                                               *)
(***************************************************************************)
EXTENDS TimelineRead

CONSTANTS
  OldRow,     \* requests of the past whose rows of follow or good are there
  OldResult,  \* requests of the past whose fishing results are there, rejected
  OldCall,    \* [OldRow \cup OldResult -> what they asked for]
  Mixes       \* bound: sets of calls; a behaviour takes its calls from one of them

ASSUME OldAssumption ==
  /\ OldRow \subseteq Reqs /\ OldResult \subseteq Reqs /\ IsFiniteSet(OldRow)
  /\ OldCall \in [OldRow \cup OldResult -> SocialCalls \cup FishingCalls]
  /\ \A r \in OldRow : OldCall[r].op = "add"
  /\ \A r \in OldResult : OldCall[r].op = "register"

vars == <<requestVars, memberVars, postVars, socialVars, fishingVars, timelineVars>>

Calls == MemberCalls \cup PostCalls \cup SocialCalls \cup FishingCalls \cup TimelineCalls
Steps == {"idle", "chores", "done"}
           \cup MemberSteps \cup PostSteps \cup SocialSteps \cup FishingSteps \cup TimelineSteps
Chores == {"checkOwnPost", "saveNotice", "deleteNotice", "findAgain", "deleteRow",
           "saveReviewStatus", "log"}

TypeOK ==
  /\ pc \in [Reqs -> Steps]
  /\ call \in [Reqs -> Calls \cup {NoCall}]
  /\ chores \in [Reqs -> SUBSET Chores]
  /\ before \in [Reqs -> SUBSET Reqs]
  /\ broken \subseteq Reqs
  /\ mishaps \in 0..MaxMishaps
  /\ MembersTypeOK
  /\ PostsTypeOK
  /\ SocialTypeOK
  /\ FishingTypeOK
  /\ TimelineTypeOK

Init ==
  /\ RequestsInit(OldCall)
  /\ MembersInit
  /\ PostsInit
  /\ SocialInit(OldRow)
  /\ FishingInit(OldResult)
  /\ TimelineInit

-----------------------------------------------------------------------------
OfMembers(r) ==
  MemberStep(r) /\ UNCHANGED <<postVars, socialVars, fishingVars, timelineVars>>

OfPosts(r) ==
  PostStep(r) /\ UNCHANGED <<memberVars, socialVars, fishingVars, timelineVars>>

OfSocialGraph(r) ==
  SocialStep(r) /\ UNCHANGED <<memberVars, postVars, fishingVars, timelineVars>>

OfFishing(r) ==
  FishingStep(r) /\ UNCHANGED <<memberVars, postVars, socialVars, timelineVars>>

OfTimeline(r) ==
  TimelineStep(r) /\ UNCHANGED <<memberVars, postVars, socialVars, fishingVars>>

Mishap ==
  /\ Die \/ \E r \in Reqs : Throw(r)
  /\ UNCHANGED <<memberVars, postVars, socialVars, fishingVars, timelineVars>>

\* Nothing is under way, and nothing more need arrive.
Stop == (\A r \in Reqs : ~ Underway(r)) /\ UNCHANGED vars

InOneMix ==
  \E M \in Mixes : \A r \in Reqs \ DOMAIN OldCall : call'[r] \in M \cup {NoCall}

Next ==
  \/ \E r \in Reqs :
       /\ OfMembers(r) \/ OfPosts(r) \/ OfSocialGraph(r) \/ OfFishing(r) \/ OfTimeline(r)
       /\ InOneMix
  \/ Mishap
  \/ Stop

Spec == Init /\ [][Next]_vars
=============================================================================
