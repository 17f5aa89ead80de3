--------------------------- MODULE CommunityProofs ---------------------------
(***************************************************************************)
(* Theorems about Community, for any members, posts, dates and past, any   *)
(* mixes of requests, any number of them and any number of mishaps.        *)
(***************************************************************************)
EXTENDS Community, FiniteSetTheorems, TLAPS

-----------------------------------------------------------------------------
(* What a step does to the requests.                                       *)

Base ==
  /\ pc \in [Reqs -> Steps]
  /\ call \in [Reqs -> Calls \cup {NoCall}]
  /\ chores \in [Reqs -> SUBSET Chores]
  /\ before \in [Reqs -> SUBSET Reqs]
  /\ broken \subseteq Reqs
  /\ mishaps \in 0..MaxMishaps

(* It arrives, goes on, works off a chore or breaks off: nobody else does.  *)
Moves(r) ==
  /\ \A q \in Reqs : q # r =>
       pc'[q] = pc[q] /\ call'[q] = call[q] /\ chores'[q] = chores[q] /\ before'[q] = before[q]
  /\ broken \subseteq broken' /\ broken' \subseteq broken \cup {r}
  /\ pc'[r] # "idle"
  /\ pc[r] # "idle" => call'[r] = call[r] /\ before'[r] = before[r]
  /\ pc[r] = "idle" => before'[r] = {s \in Reqs : Over(s)} /\ broken' = broken
  /\ pc[r] = "done" => pc'[r] = "done"

(* The process ends, and everything that is under way breaks off.           *)
Ends ==
  /\ UNCHANGED <<call, before>>
  /\ \A q \in Reqs :
       /\ chores'[q] = {}
       /\ IF Underway(q) THEN pc'[q] = "done" /\ q \in broken' ELSE pc'[q] = pc[q]
  /\ broken \subseteq broken'

LEMMA BaseArrive ==
  ASSUME Base, NEW r \in Reqs, NEW c \in Calls, NEW l \in Steps \ {"idle"}, Arrive(r, c, l)
  PROVE  /\ Base' /\ Moves(r) /\ pc[r] = "idle" /\ pc'[r] = l /\ call'[r] = c
         /\ chores'[r] = chores[r]
  BY DEF Base, Moves, Arrive

LEMMA BaseGoto ==
  ASSUME Base, NEW r \in Reqs, NEW l \in Steps \ {"idle"}, Goto(r, l), pc[r] \notin {"idle", "done"}
  PROVE  Base' /\ Moves(r) /\ pc'[r] = l /\ call'[r] = call[r] /\ chores'[r] = chores[r]
         /\ broken' = broken
  BY DEF Base, Moves, Goto

LEMMA BaseRefuse ==
  ASSUME Base, NEW r \in Reqs, Refuse(r), pc[r] # "idle"
  PROVE  Base' /\ Moves(r) /\ pc'[r] = "done" /\ call'[r] = call[r] /\ chores'[r] = chores[r]
         /\ r \in broken'
  BY DEF Base, Moves, Refuse, Steps

LEMMA BaseLeave ==
  ASSUME Base, NEW r \in Reqs, NEW W \in SUBSET Chores, Leave(r, W), pc[r] \notin {"idle", "done"}
  PROVE  /\ Base' /\ Moves(r) /\ pc'[r] = (IF W = {} THEN "done" ELSE "chores")
         /\ call'[r] = call[r] /\ chores'[r] = W /\ broken' = broken
  BY DEF Base, Moves, Leave, Steps

LEMMA BaseFinish ==
  ASSUME Base, NEW r \in Reqs, NEW w \in chores[r], NEW W \in SUBSET Chores,
         FinishChore(r, w, W), pc[r] # "idle"
  PROVE  /\ Base' /\ Moves(r) /\ call'[r] = call[r] /\ broken' = broken
         /\ chores'[r] = (chores[r] \ {w}) \cup W
         /\ pc'[r] = (IF pc[r] = "chores" /\ chores'[r] = {} THEN "done" ELSE pc[r])
  BY DEF Base, Moves, FinishChore, Steps

LEMMA BaseEnds ==
  ASSUME Base, ProcessEnds
  PROVE  Base' /\ Ends
  BY DEF Base, Ends, ProcessEnds, Underway, Steps

LEMMA BaseDie ==
  ASSUME Base, Die
  PROVE  Base' /\ Ends
  BY MishapsAssumption DEF Base, Ends, Die, Underway, Steps

LEMMA BaseThrow ==
  ASSUME Base, NEW r \in Reqs, Throw(r)
  PROVE  Base' /\ Moves(r) /\ pc'[r] = "done" /\ call'[r] = call[r] /\ chores'[r] = chores[r]
         /\ r \in broken' /\ pc[r] \notin {"idle", "done", "chores"}
  BY MishapsAssumption DEF Base, Moves, Throw, Steps

-----------------------------------------------------------------------------
(* The steps and the chores that the handler of an operation has.          *)

MemberOps == {"profile", "angler", "withdrawal"}
PostOps == {"post", "edit", "deletePost"}
SocialOps == {"add", "remove"}
FishingOps == {"register", "modify", "review"}
TimelineOps == {"view", "check"}
AllOps == MemberOps \cup PostOps \cup SocialOps \cup FishingOps \cup TimelineOps

Fits(o, l) ==
  \/ o = "none" /\ l = "idle"
  \/ o \in AllOps /\ l = "done"
  \/ o \in MemberOps /\ l \in MemberSteps
  \/ o = "post" /\ l = "reward"
  \/ o = "edit" /\ l \in {"savePost", "chores"}
  \/ o \in SocialOps /\ l \in SocialSteps \cup {"chores"}
  \/ o \in {"register", "modify"} /\ l \in {"masters", "chores"}
  \/ o = "register" /\ l = "insertResult"
  \/ o = "modify" /\ l \in {"latest", "updateResult"}
  \/ o = "review" /\ l = "decide"
  \/ o \in TimelineOps /\ l \in TimelineSteps

ChoresOf(o) ==
  IF o = "edit" THEN {"checkOwnPost"}
  ELSE IF o \in SocialOps THEN {"saveNotice", "deleteNotice", "findAgain", "deleteRow"}
  ELSE IF o \in {"register", "modify"} THEN {"saveReviewStatus", "log"}
  ELSE {}

(* Only what broke off while a chore was out is done and has chores.        *)
ShapeOf(o, l, W, b) ==
  /\ Fits(o, l)
  /\ W \subseteq ChoresOf(o)
  /\ W # {} => l \in {"savePost", "chores"} \/ (l = "done" /\ b)

Shape == \A r \in Reqs : ShapeOf(call[r].op, pc[r], chores[r], r \in broken)

LEMMA ShapeMoves ==
  ASSUME Base, Shape, NEW r \in Reqs, Moves(r),
         ShapeOf(call'[r].op, pc'[r], chores'[r], r \in broken')
  PROVE  Shape'
<1>1. \A q \in Reqs : q # r => (q \in broken' <=> q \in broken)
  BY DEF Moves
<1> QED
  BY <1>1 DEF Moves, Shape, ShapeOf

LEMMA ShapeEnds ==
  ASSUME Shape, Ends
  PROVE  Shape'
<1> SUFFICES ASSUME NEW q \in Reqs
             PROVE  ShapeOf(call'[q].op, pc'[q], chores'[q], q \in broken')
  BY DEF Shape
<1>1. Fits(call[q].op, pc[q])
  BY DEF Shape, ShapeOf
<1>2. pc[q] # "idle" => Fits(call[q].op, "done")
  BY <1>1 DEF Fits, AllOps, MemberOps, PostOps, SocialOps, FishingOps, TimelineOps
<1> QED
  BY <1>1, <1>2 DEF Ends, ShapeOf, Underway

-----------------------------------------------------------------------------
(* A request keeps its shape and belongs to one of the operations O.        *)
Acts(r, O) ==
  /\ Moves(r)
  /\ call'[r].op \in O
  /\ ShapeOf(call'[r].op, pc'[r], chores'[r], r \in broken')

LEMMA ActsArrive ==
  ASSUME Base, Shape, NEW r \in Reqs, NEW c \in Calls, NEW l \in Steps \ {"idle"},
         Arrive(r, c, l), NEW O, c.op \in O, Fits(c.op, l)
  PROVE  Base' /\ Acts(r, O)
<1>1. chores[r] = {}
  BY DEF Shape, ShapeOf, Arrive
<1> QED
  BY <1>1, BaseArrive DEF Acts, ShapeOf

LEMMA ActsGoto ==
  ASSUME Base, Shape, NEW r \in Reqs, NEW l \in Steps \ {"idle"}, Goto(r, l),
         pc[r] \notin {"idle", "done", "savePost", "chores"}, NEW O, call[r].op \in O,
         Fits(call[r].op, l)
  PROVE  Base' /\ Acts(r, O)
<1>1. chores[r] = {}
  BY DEF Shape, ShapeOf
<1> QED
  BY <1>1, BaseGoto DEF Acts, ShapeOf

LEMMA DoneFits ==
  ASSUME Shape, NEW r \in Reqs, pc[r] # "idle"
  PROVE  call[r].op \in AllOps /\ Fits(call[r].op, "done")
  BY DEF Shape, ShapeOf, Fits, AllOps, MemberOps, PostOps, SocialOps, FishingOps, TimelineOps

LEMMA ActsRefuse ==
  ASSUME Base, Shape, NEW r \in Reqs, Refuse(r), pc[r] # "idle", NEW O, call[r].op \in O
  PROVE  Base' /\ Acts(r, O)
  BY BaseRefuse, DoneFits DEF Acts, ShapeOf, Shape

LEMMA ActsThrow ==
  ASSUME Base, Shape, NEW r \in Reqs, Throw(r)
  PROVE  Base' /\ Acts(r, AllOps)
  BY BaseThrow, DoneFits DEF Acts, ShapeOf, Shape

LEMMA ActsLeave ==
  ASSUME Base, Shape, NEW r \in Reqs, NEW W \in SUBSET Chores, Leave(r, W),
         pc[r] \notin {"idle", "done"}, NEW O, call[r].op \in O,
         W \subseteq ChoresOf(call[r].op), Fits(call[r].op, "chores")
  PROVE  Base' /\ Acts(r, O)
  BY BaseLeave, DoneFits DEF Acts, ShapeOf

LEMMA ActsFinish ==
  ASSUME Base, Shape, NEW r \in Reqs, NEW w \in chores[r], NEW W \in SUBSET Chores,
         FinishChore(r, w, W), NEW O, call[r].op \in O, W \subseteq ChoresOf(call[r].op)
  PROVE  Base' /\ Acts(r, O)
<1>1. /\ Fits(call[r].op, pc[r]) /\ chores[r] \subseteq ChoresOf(call[r].op)
      /\ pc[r] \in {"savePost", "chores"} \/ (pc[r] = "done" /\ r \in broken)
  BY DEF Shape, ShapeOf
<1> QED
  BY <1>1, BaseFinish, DoneFits DEF Acts, ShapeOf

-----------------------------------------------------------------------------
(* Members                                                                  *)

LEMMA MemberActs ==
  ASSUME Base, Shape, MembersTypeOK, NEW r \in Reqs, MemberStep(r)
  PROVE  Base' /\ MembersTypeOK' /\ Acts(r, MemberOps)
<1> USE DEF memberVars
<1>1. CASE PostProfile(r)
  <2>1. PICK m \in Member :
          /\ \E l \in {"upload", "save"} : Arrive(r, [op |-> "profile", by |-> m], l)
          /\ copy' = [copy EXCEPT ![r] = [member[m] EXCEPT !.profile = r]]
          /\ UNCHANGED <<member, columns>>
    BY <1>1 DEF PostProfile
  <2>2. [op |-> "profile", by |-> m] \in Calls
    BY DEF Calls, MemberCalls
  <2>3. MembersTypeOK'
    BY <2>1 DEF MembersTypeOK, MemberRow
  <2> QED
    BY <2>1, <2>2, <2>3, ActsArrive DEF Steps, MemberSteps, Fits, MemberOps
<1>2. CASE UploadFile(r)
  <2>1. pc[r] = "upload" /\ Goto(r, "save") /\ call[r].op \in MemberOps
    BY <1>2 DEF UploadFile, Shape, ShapeOf, Fits, SocialSteps, TimelineSteps
  <2> QED
    BY <1>2, <2>1, ActsGoto DEF UploadFile, Steps, MemberSteps, Fits, MembersTypeOK
<1>3. CASE PostProfileAngler(r) \/ Withdrawal(r)
  <2>1. PICK m \in Member, o \in {"angler", "withdrawal"} :
          /\ Arrive(r, [op |-> o, by |-> m], "save")
          /\ copy' \in {[copy EXCEPT ![r] = [member[m] EXCEPT !.angler = r]],
                        [copy EXCEPT ![r] = [member[m] EXCEPT !.status = "Withdrawal"]]}
          /\ UNCHANGED <<member, columns>>
    BY <1>3 DEF PostProfileAngler, Withdrawal
  <2>2. [op |-> o, by |-> m] \in Calls
    BY DEF Calls, MemberCalls
  <2>3. MembersTypeOK'
    BY <2>1 DEF MembersTypeOK, MemberRow
  <2> QED
    BY <2>1, <2>2, <2>3, ActsArrive DEF Steps, MemberSteps, Fits, MemberOps
<1>4. CASE SaveMember(r)
  <2>1. pc[r] = "save" /\ Goto(r, "update") /\ call[r].op \in MemberOps
    BY <1>4 DEF SaveMember, Shape, ShapeOf, Fits, SocialSteps, TimelineSteps
  <2>2. {c \in DOMAIN copy[r] : copy[r][c] # member[call[r].by][c]}
          \subseteq {"status", "profile", "angler"}
    BY DEF MembersTypeOK, MemberRow
  <2>3. MembersTypeOK'
    BY <1>4, <2>2 DEF SaveMember, MembersTypeOK
  <2> QED
    BY <2>1, <2>3, ActsGoto DEF Steps, MemberSteps, Fits
<1>5. CASE UpdateMember(r)
  <2>1. pc[r] = "update" /\ call[r].op \in MemberOps
    BY <1>5 DEF UpdateMember, Shape, ShapeOf, Fits, SocialSteps, TimelineSteps
  <2>2. call[r] \in MemberCalls
    BY <2>1 DEF Base, Calls, NoCall, MemberOps, PostCalls, SocialCalls, GoodRequests,
                FollowRequests, BlockRequests, ReportRequests, FishingCalls, TimelineCalls
  <2>3. CASE Refuse(r) /\ UNCHANGED <<member, copy, columns>>
    BY <2>1, <2>3, ActsRefuse DEF MembersTypeOK
  <2>4. CASE /\ member' = [member EXCEPT ![call[r].by] =
                             [c \in DOMAIN @ |-> IF c \in columns[r] THEN copy[r][c] ELSE @[c]]]
             /\ Goto(r, "done") /\ UNCHANGED <<copy, columns>>
    <3>1. member[call[r].by] \in MemberRow /\ copy[r] \in MemberRow
      BY <2>2 DEF MembersTypeOK, MemberCalls
    <3>2. [c \in DOMAIN member[call[r].by] |->
             IF c \in columns[r] THEN copy[r][c] ELSE member[call[r].by][c]] \in MemberRow
      BY <3>1 DEF MemberRow
    <3>3. MembersTypeOK'
      BY <2>4, <3>2 DEF MembersTypeOK
    <3> QED
      BY <2>1, <2>4, <3>3, ActsGoto DEF Steps, Fits, AllOps
  <2> QED
    BY <1>5, <2>3, <2>4 DEF UpdateMember
<1> QED
  BY <1>1, <1>2, <1>3, <1>4, <1>5 DEF MemberStep

-----------------------------------------------------------------------------
(* Posts                                                                    *)

LEMMA PostActs ==
  ASSUME Base, Shape, PostsTypeOK, NEW r \in Reqs, PostStep(r)
  PROVE  Base' /\ PostsTypeOK' /\ (Acts(r, PostOps) \/ (Ends /\ UNCHANGED postVars))
<1> USE DEF postVars
<1> USE AuthorAssumption
<1>1. CASE RegisterPost(r)
  <2>1. PICK p \in Post :
          /\ Arrive(r, [op |-> "post", by |-> Author[p], on |-> p], "reward")
          /\ post' = [post EXCEPT ![p] = "live"]
          /\ text' = [text EXCEPT ![p] = r]
    BY <1>1 DEF RegisterPost
  <2>2. [op |-> "post", by |-> Author[p], on |-> p] \in Calls
    BY DEF Calls, PostCalls
  <2>3. PostsTypeOK'
    BY <2>1 DEF PostsTypeOK
  <2> QED
    BY <2>1, <2>2, <2>3, ActsArrive DEF Steps, PostSteps, Fits, PostOps
<1>2. CASE RewardPost(r)
  <2>1. pc[r] = "reward" /\ Goto(r, "done") /\ call[r].op = "post"
    BY <1>2 DEF RewardPost, Shape, ShapeOf, Fits, MemberSteps, SocialSteps, TimelineSteps
  <2> QED
    BY <1>2, <2>1, ActsGoto DEF RewardPost, Steps, Fits, AllOps, PostOps, PostsTypeOK
<1>3. CASE EditPost(r)
  <2>1. PICK p \in Post, m \in Member :
          /\ pc[r] = "idle"
          /\ pc' = [pc EXCEPT ![r] = "savePost"]
          /\ call' = [call EXCEPT ![r] = [op |-> "edit", by |-> m, on |-> p]]
          /\ before' = [before EXCEPT ![r] = {s \in Reqs : Over(s)}]
          /\ chores' = [chores EXCEPT ![r] = {"checkOwnPost"}]
          /\ UNCHANGED <<broken, mishaps, postVars>>
    BY <1>3 DEF EditPost
  <2>2. [op |-> "edit", by |-> m, on |-> p] \in Calls
    BY DEF Calls, PostCalls
  <2>3. Base'
    BY <2>1, <2>2 DEF Base, Steps, PostSteps, Chores
  <2>4. Moves(r)
    BY <2>1 DEF Base, Moves
  <2>5. pc'[r] = "savePost" /\ call'[r].op = "edit" /\ chores'[r] = {"checkOwnPost"}
    BY <2>1 DEF Base
  <2>6. Acts(r, PostOps)
    BY <2>4, <2>5 DEF Acts, ShapeOf, Fits, ChoresOf, PostOps
  <2> QED
    BY <2>1, <2>3, <2>6 DEF PostsTypeOK
<1>4. CASE SavePost(r)
  <2>1. pc[r] = "savePost" /\ Leave(r, chores[r]) /\ call[r].op = "edit"
    BY <1>4 DEF SavePost, Shape, ShapeOf, Fits, MemberSteps, SocialSteps, TimelineSteps
  <2>2. chores[r] \in SUBSET Chores /\ chores[r] \subseteq ChoresOf(call[r].op)
    BY DEF Base, Shape, ShapeOf
  <2>3. PostsTypeOK'
    BY <1>4 DEF SavePost, PostsTypeOK
  <2> QED
    BY <2>1, <2>2, <2>3, ActsLeave DEF Fits, PostOps
<1>5. CASE CheckOwnPost(r)
  <2>1. "checkOwnPost" \in chores[r] /\ UNCHANGED postVars
    BY <1>5 DEF CheckOwnPost
  <2>2. call[r].op = "edit"
    BY <2>1 DEF Shape, ShapeOf, ChoresOf
  <2>3. CASE FinishChore(r, "checkOwnPost", {})
    BY <2>1, <2>2, <2>3, ActsFinish DEF PostOps, PostsTypeOK
  <2>4. CASE ProcessEnds
    BY <2>1, <2>4, BaseEnds DEF PostsTypeOK
  <2> QED
    BY <1>5, <2>3, <2>4 DEF CheckOwnPost
<1>6. CASE DeletePost(r)
  <2>1. PICK p \in Post :
          /\ Arrive(r, [op |-> "deletePost", by |-> Author[p], on |-> p], "done")
          /\ post' = [post EXCEPT ![p] = "deleted"]
          /\ UNCHANGED text
    BY <1>6 DEF DeletePost
  <2>2. [op |-> "deletePost", by |-> Author[p], on |-> p] \in Calls
    BY DEF Calls, PostCalls
  <2>3. PostsTypeOK'
    BY <2>1 DEF PostsTypeOK
  <2> QED
    BY <2>1, <2>2, <2>3, ActsArrive DEF Steps, Fits, AllOps, PostOps
<1> QED
  BY <1>1, <1>2, <1>3, <1>4, <1>5, <1>6 DEF PostStep

-----------------------------------------------------------------------------
(* Goods, follows, blocks and reports                                       *)

LEMMA SocialLabel ==
  ASSUME Shape, NEW r \in Reqs, pc[r] \in SocialSteps
  PROVE  call[r].op \in SocialOps
  BY DEF Shape, ShapeOf, Fits, SocialSteps, MemberSteps, TimelineSteps

LEMMA SocialChore ==
  ASSUME Shape, NEW r \in Reqs,
         chores[r] \cap {"saveNotice", "deleteNotice", "findAgain", "deleteRow"} # {}
  PROVE  call[r].op \in SocialOps
  BY DEF Shape, ShapeOf, ChoresOf

LEMMA SocialCallsAreCalls ==
  /\ \A c \in SocialCalls : c \in Calls /\ c.op \in SocialOps
  /\ \A m \in Member, p \in Post, o \in {"add", "remove"} :
       [op |-> o, kind |-> "good", by |-> m, to |-> p] \in SocialCalls
  /\ FollowRequests \cup BlockRequests \cup ReportRequests \subseteq SocialCalls
  BY DEF Calls, SocialCalls, GoodRequests, FollowRequests, BlockRequests, ReportRequests, SocialOps

LEMMA RowsFound ==
  ASSUME SocialTypeOK, NEW c
  PROVE  FindOne(c) \subseteq Reqs
  BY DEF SocialTypeOK, FindOne

LEMMA ActsSocialArrive ==
  ASSUME Base, Shape, NEW r \in Reqs, NEW c \in SocialCalls,
         NEW l \in {"owner", "available", "find", "deleteRow", "done"}, Arrive(r, c, l)
  PROVE  Base' /\ Acts(r, SocialOps)
<1>1. c \in Calls /\ c.op \in SocialOps
  BY SocialCallsAreCalls
<1>2. l \in Steps \ {"idle"} /\ Fits(c.op, l)
  BY <1>1 DEF Steps, SocialSteps, Fits, AllOps
<1> QED
  BY <1>1, <1>2, ActsArrive

LEMMA ActsSocialGoto ==
  ASSUME Base, Shape, NEW r \in Reqs, pc[r] \in SocialSteps,
         NEW l \in SocialSteps \cup {"done"}, Goto(r, l)
  PROVE  Base' /\ Acts(r, SocialOps)
<1>1. call[r].op \in SocialOps
  BY SocialLabel
<1>2. l \in Steps \ {"idle"} /\ Fits(call[r].op, l)
  BY <1>1 DEF Steps, SocialSteps, Fits, AllOps
<1>3. pc[r] \notin {"idle", "done", "savePost", "chores"}
  BY DEF SocialSteps
<1> QED
  BY <1>1, <1>2, <1>3, ActsGoto

LEMMA ActsSocialFinish ==
  ASSUME Base, Shape, NEW r \in Reqs, NEW w \in chores[r],
         w \in {"saveNotice", "deleteNotice", "findAgain", "deleteRow"},
         NEW W \in SUBSET {"deleteRow"}, FinishChore(r, w, W)
  PROVE  Base' /\ Acts(r, SocialOps)
<1>1. call[r].op \in SocialOps
  BY SocialChore
<1>2. W \subseteq Chores /\ W \subseteq ChoresOf(call[r].op)
  BY <1>1 DEF Chores, ChoresOf, SocialOps
<1> QED
  BY <1>1, <1>2, ActsFinish

LEMMA ActsSocialLeave ==
  ASSUME Base, Shape, NEW r \in Reqs, pc[r] \in SocialSteps,
         NEW W \in SUBSET {"saveNotice", "deleteNotice", "findAgain"}, Leave(r, W)
  PROVE  Base' /\ Acts(r, SocialOps)
<1>1. call[r].op \in SocialOps
  BY SocialLabel
<1>2. W \subseteq Chores /\ W \subseteq ChoresOf(call[r].op) /\ Fits(call[r].op, "chores")
  BY <1>1 DEF Chores, ChoresOf, SocialOps, Fits
<1>3. pc[r] \notin {"idle", "done"}
  BY DEF SocialSteps
<1> QED
  BY <1>1, <1>2, <1>3, ActsLeave

LEMMA ActsSocialRefuse ==
  ASSUME Base, Shape, NEW r \in Reqs, pc[r] \in SocialSteps, Refuse(r)
  PROVE  Base' /\ Acts(r, SocialOps)
<1>1. call[r].op \in SocialOps /\ pc[r] # "idle"
  BY SocialLabel DEF SocialSteps
<1> QED
  BY <1>1, ActsRefuse

LEMMA SocialTypes ==
  ASSUME SocialTypeOK, NEW r \in Reqs, SocialStep(r)
  PROVE  SocialTypeOK'
<1> USE DEF socialVars
<1>1. CASE InsertRow(r) \/ SaveNotice(r) \/ DeleteRow(r) \/ DeleteNotice(r)
  BY <1>1 DEF SocialTypeOK, InsertRow, SaveNotice, DeleteRow, DeleteNotice
<1>2. CASE FindGood(r)
  <2>1. found' = found \/ \E i \in FindOne(call[r]) : found' = [found EXCEPT ![r] = i]
    BY <1>2 DEF FindGood
  <2> QED
    BY <1>2, <2>1, RowsFound DEF FindGood, SocialTypeOK
<1>3. CASE FindGoodAgain(r)
  <2>1. target' = target \/ \E i \in FindOne(call[r]) : target' = [target EXCEPT ![r] = i]
    BY <1>3 DEF FindGoodAgain
  <2> QED
    BY <1>3, <2>1, RowsFound DEF FindGoodAgain, SocialTypeOK
<1>4. ASSUME NEW c, RemoveFor(r, c) PROVE SocialTypeOK'
  BY <1>4, RowsFound DEF RemoveFor, SocialTypeOK
<1>5. CASE UNCHANGED socialVars
  BY <1>5 DEF SocialTypeOK
<1> QED
  BY <1>1, <1>2, <1>3, <1>4, <1>5
  DEF SocialStep, AddGood, FindOwner, LookUpGood, AddFollow, AddBlock, AddReport, AddFor,
      FindMember, RemoveGood, RemoveFollow, RemoveBlock

LEMMA SocialActs ==
  ASSUME Base, Shape, NEW r \in Reqs, SocialStep(r)
  PROVE  Base' /\ Acts(r, SocialOps)
<1> USE DEF SocialSteps
<1>1. CASE AddGood(r) \/ RemoveGood(r)
  <2>1. PICK c \in SocialCalls, l \in {"owner", "find"} : Arrive(r, c, l)
    BY <1>1, SocialCallsAreCalls DEF AddGood, RemoveGood
  <2> QED
    BY <2>1, ActsSocialArrive
<1>2. CASE AddFollow(r) \/ AddBlock(r) \/ AddReport(r)
  <2>1. PICK c \in SocialCalls : AddFor(r, c)
    BY <1>2, SocialCallsAreCalls DEF AddFollow, AddBlock, AddReport
  <2>2. PICK l \in {"available", "done"} : Arrive(r, c, l)
    BY <2>1 DEF AddFor
  <2> QED
    BY <2>2, ActsSocialArrive
<1>3. CASE FindOwner(r) \/ LookUpGood(r) \/ FindMember(r)
  <2>1. pc[r] \in SocialSteps /\ (Refuse(r) \/ \E l \in {"lookup", "insertRow", "done"} : Goto(r, l))
    BY <1>3 DEF FindOwner, LookUpGood, FindMember
  <2> QED
    BY <2>1, ActsSocialRefuse, ActsSocialGoto
<1>4. CASE InsertRow(r)
  <2>1. CASE Goto(r, "done") \/ Goto(r, "saveNotice")
    BY <1>4, <2>1, ActsSocialGoto DEF InsertRow
  <2>2. CASE Leave(r, {"saveNotice"})
    BY <1>4, <2>2, ActsSocialLeave DEF InsertRow
  <2> QED
    BY <1>4, <2>1, <2>2 DEF InsertRow
<1>5. CASE SaveNotice(r) \/ DeleteRow(r) \/ DeleteNotice(r)
  <2>1. CASE pc[r] \in SocialSteps /\ \E l \in {"deleteNotice", "done"} : Goto(r, l)
    BY <2>1, ActsSocialGoto
  <2>2. CASE \E w \in {"saveNotice", "deleteRow", "deleteNotice"} :
               w \in chores[r] /\ FinishChore(r, w, {})
    BY <2>2, ActsSocialFinish
  <2> QED
    BY <1>5, <2>1, <2>2 DEF SaveNotice, DeleteRow, DeleteNotice
<1>6. CASE FindGood(r)
  <2>1. CASE Refuse(r)
    BY <1>6, <2>1, ActsSocialRefuse DEF FindGood
  <2>2. CASE Leave(r, {"deleteNotice", "findAgain"})
    BY <1>6, <2>2, ActsSocialLeave DEF FindGood
  <2> QED
    BY <1>6, <2>1, <2>2 DEF FindGood
<1>7. CASE FindGoodAgain(r)
  BY <1>7, ActsSocialFinish DEF FindGoodAgain
<1>8. CASE RemoveFollow(r) \/ RemoveBlock(r)
  <2>1. PICK c \in SocialCalls : RemoveFor(r, c)
    BY <1>8, SocialCallsAreCalls DEF RemoveFollow, RemoveBlock
  <2>2. PICK l \in {"deleteRow", "done"} : Arrive(r, c, l)
    BY <2>1 DEF RemoveFor
  <2> QED
    BY <2>2, ActsSocialArrive
<1> QED
  BY <1>1, <1>2, <1>3, <1>4, <1>5, <1>6, <1>7, <1>8 DEF SocialStep

-----------------------------------------------------------------------------
(* Fishing results and their review                                         *)

LEMMA FishingLabel ==
  ASSUME Base, Shape, NEW r \in Reqs, pc[r] \in FishingSteps
  PROVE  /\ pc[r] \in {"masters", "insertResult"} => call[r].op \in {"register", "modify"}
         /\ pc[r] = "insertResult" => call[r].op = "register"
         /\ pc[r] \in {"latest", "updateResult"} => call[r].op = "modify"
         /\ pc[r] = "decide" => call[r].op = "review"
  BY DEF Shape, ShapeOf, Fits, FishingSteps, SocialSteps, MemberSteps, TimelineSteps

LEMMA FishingCall ==
  ASSUME Base, NEW r \in Reqs, call[r].op \in FishingOps
  PROVE  call[r] \in FishingCalls /\ (call[r].op # "register" => call[r].on \in Reqs)
<1>1. call[r] \in FishingCalls
  BY DEF Base, Calls, NoCall, FishingOps, MemberCalls, PostCalls, SocialCalls, GoodRequests,
         FollowRequests, BlockRequests, ReportRequests, TimelineCalls
<1> QED
  BY <1>1 DEF FishingCalls

LEMMA FishingTypes ==
  ASSUME Base, Shape, FishingTypeOK, NEW r \in Reqs, FishingStep(r)
  PROVE  FishingTypeOK'
<1> USE DEF fishingVars, FishingTypeOK
<1>1. CASE InsertResult(r) \/ UpdateResult(r) \/ SaveReviewStatus(r)
  BY <1>1 DEF InsertResult, UpdateResult, SaveReviewStatus, WriteResult, SaveStatus, ReviewStatus
<1>2. CASE Decide(r)
  <2>1. call[r].op = "review"
    BY <1>2, FishingLabel DEF Decide, FishingSteps
  <2>2. call[r] \in [op : {"review"}, on : Reqs, as : {"APPROVE", "REJECT"},
                     seen : Reqs \cup {Nobody}]
    BY <2>1, FishingCall DEF FishingCalls, FishingOps
  <2> QED
    BY <1>2, <2>2 DEF Decide, ReviewStatus
<1>3. CASE UNCHANGED fishingVars
  BY <1>3
<1> QED
  BY <1>1, <1>2, <1>3
  DEF FishingStep, RegisterResult, RegisterOtherLures, RegisterAs, ModifyResult, ModifyOtherLures,
      ModifyAs, CheckExistsMasterId, CheckLatestReject, InsertLog, AdminUpdate

LEMMA FishingActs ==
  ASSUME Base, Shape, FishingTypeOK, NEW r \in Reqs, FishingStep(r)
  PROVE  Base' /\ Acts(r, FishingOps)
<1> USE DEF FishingOps
<1>1. CASE RegisterResult(r) \/ RegisterOtherLures(r) \/ ModifyResult(r) \/ ModifyOtherLures(r)
           \/ AdminUpdate(r)
  <2>1. PICK c \in FishingCalls, l \in {"masters", "decide"} :
          Arrive(r, c, l) /\ (l = "decide" <=> c.op = "review")
    <3>1. \A m \in Member : [op |-> "register", by |-> m] \in FishingCalls
      BY DEF FishingCalls
    <3>2. \A m \in Member, x \in Reqs : [op |-> "modify", by |-> m, on |-> x] \in FishingCalls
      BY DEF FishingCalls
    <3>3. \A x \in Reqs, v \in {"APPROVE", "REJECT"} :
            [op |-> "review", on |-> x, as |-> v, seen |-> content[x]] \in FishingCalls
      BY DEF FishingCalls, FishingTypeOK
    <3>4. \A c \in ApplyRequest \cup ApplyRequestForOtherLures : c.by \in Member
      BY DEF ApplyRequest, ApplyRequestForOtherLures
    <3> QED
      BY <1>1, <3>1, <3>2, <3>3, <3>4
      DEF RegisterResult, RegisterOtherLures, RegisterAs, ModifyResult, ModifyOtherLures, ModifyAs,
          AdminUpdate, ToRegisterModel, ToModifyModel
  <2>2. c \in Calls /\ c.op \in FishingOps /\ l \in Steps \ {"idle"}
    BY DEF Calls, FishingCalls, Steps, FishingSteps
  <2>3. Fits(c.op, l)
    BY <2>1, <2>2 DEF Fits
  <2> QED
    BY <2>1, <2>2, <2>3, ActsArrive
<1>2. CASE CheckExistsMasterId(r) \/ CheckLatestReject(r)
  <2>1. pc[r] \in {"masters", "latest"} /\ pc[r] \in FishingSteps
    BY <1>2 DEF CheckExistsMasterId, CheckLatestReject, FishingSteps
  <2>2. call[r].op \in {"register", "modify"} /\ (pc[r] = "latest" => call[r].op = "modify")
    BY <2>1, FishingLabel
  <2>3. CASE Refuse(r)
    BY <2>1, <2>2, <2>3, ActsRefuse
  <2>4. CASE ~Refuse(r)
    <3>1. PICK l \in {"insertResult", "latest", "updateResult"} :
            /\ Goto(r, l)
            /\ l = "insertResult" => call[r].op = "register"
            /\ l \in {"latest", "updateResult"} => call[r].op = "modify"
      BY <1>2, <2>1, <2>2, <2>4 DEF CheckExistsMasterId, CheckLatestReject
    <3>2. Fits(call[r].op, l) /\ l \in Steps \ {"idle"}
      BY <2>2, <3>1 DEF Fits, Steps, FishingSteps
    <3> QED
      BY <2>1, <2>2, <3>1, <3>2, ActsGoto
  <2> QED
    BY <2>3, <2>4
<1>3. CASE InsertResult(r) \/ UpdateResult(r)
  <2>1. pc[r] \in {"insertResult", "updateResult"} /\ Leave(r, {"saveReviewStatus"})
        /\ pc[r] \in FishingSteps
    BY <1>3 DEF InsertResult, UpdateResult, FishingSteps
  <2>2. call[r].op \in {"register", "modify"}
    BY <2>1, FishingLabel
  <2>3. /\ {"saveReviewStatus"} \in SUBSET Chores
        /\ {"saveReviewStatus"} \subseteq ChoresOf(call[r].op) /\ Fits(call[r].op, "chores")
    BY <2>2 DEF Chores, ChoresOf, Fits, SocialOps
  <2> QED
    BY <2>1, <2>2, <2>3, ActsLeave
<1>4. CASE SaveReviewStatus(r) \/ InsertLog(r)
  <2>1. PICK w \in chores[r], W \in SUBSET {"log"} :
          w \in {"saveReviewStatus", "log"} /\ FinishChore(r, w, W)
    BY <1>4 DEF SaveReviewStatus, InsertLog
  <2>2. call[r].op \in {"register", "modify"}
    BY <2>1 DEF Shape, ShapeOf, ChoresOf
  <2>3. W \in SUBSET Chores /\ W \subseteq ChoresOf(call[r].op)
    BY <2>2 DEF Chores, ChoresOf, SocialOps
  <2> QED
    BY <2>1, <2>2, <2>3, ActsFinish
<1>5. CASE Decide(r)
  <2>1. pc[r] = "decide" /\ Goto(r, "done")
    BY <1>5 DEF Decide
  <2>2. call[r].op = "review"
    BY <2>1, FishingLabel DEF FishingSteps
  <2> QED
    BY <2>1, <2>2, ActsGoto DEF Fits, AllOps, Steps
<1> QED
  BY <1>1, <1>2, <1>3, <1>4, <1>5 DEF FishingStep

-----------------------------------------------------------------------------
(* Timelines                                                                *)

LEMMA ItemsTyped ==
  ASSUME NEW t, NEW m
  PROVE  Items(t) \subseteq Post \cup Reqs /\ Listed(m, t) \subseteq Post \cup Reqs
  BY DEF Items, Listed

LEMMA TimelineLabel ==
  ASSUME Base, Shape, NEW r \in Reqs, pc[r] \in TimelineSteps
  PROVE  call[r].op \in TimelineOps /\ call[r].by \in Member
<1>1. call[r].op \in TimelineOps
  BY DEF Shape, ShapeOf, Fits, FishingSteps, SocialSteps, MemberSteps, TimelineSteps
<1>2. call[r] \in TimelineCalls
  BY <1>1 DEF Base, Calls, NoCall, TimelineOps, MemberCalls, PostCalls, SocialCalls, GoodRequests,
         FollowRequests, BlockRequests, ReportRequests, FishingCalls
<1> QED
  BY <1>1, <1>2 DEF TimelineCalls

LEMMA TimelineTypes ==
  ASSUME Base, Shape, TimelineTypeOK, NEW r \in Reqs, TimelineStep(r)
  PROVE  TimelineTypeOK'
<1> USE DEF timelineVars, Types
<1>1. CASE GetFollowerTimelines(r)
  <2>1. PICK m \in Member : got' = [got EXCEPT ![r] = UNION {Listed(m, t) : t \in Types}]
    BY <1>1 DEF GetFollowerTimelines
  <2>2. UNION {Listed(m, t) : t \in Types} \subseteq Post \cup Reqs
    BY ItemsTyped
  <2> QED
    BY <1>1, <2>1, <2>2 DEF GetFollowerTimelines, TimelineTypeOK
<1>2. CASE HasUnreadTimeline(r)
  BY <1>2 DEF HasUnreadTimeline, TimelineTypeOK
<1>3. CASE ReadMark(r)
  <2>1. call[r].by \in Member
    BY <1>3, TimelineLabel DEF ReadMark, TimelineSteps
  <2> QED
    BY <1>3, <2>1 DEF ReadMark, TimelineTypeOK
<1>4. CASE CountUnread(r)
  <2>1. Listed(call[r].by, type[r]) \ since[r] \subseteq Post \cup Reqs
    BY ItemsTyped
  <2>2. got' = [got EXCEPT ![r] = @ \cup (Listed(call[r].by, type[r]) \ since[r])]
        /\ UNCHANGED <<mark, since>>
    BY <1>4 DEF CountUnread
  <2>3. got' \in [Reqs -> SUBSET (Post \cup Reqs)]
    BY <2>1, <2>2 DEF TimelineTypeOK
  <2>4. type' \in [Reqs -> Types]
    BY <1>4 DEF CountUnread, NextType, TimelineTypeOK
  <2> QED
    BY <2>2, <2>3, <2>4 DEF TimelineTypeOK
<1>5. CASE FindMark(r)
  BY <1>5 DEF FindMark, TimelineTypeOK
<1>6. CASE InsertMark(r) \/ UpdateMark(r)
  <2>1. call[r].by \in Member /\ type[r] \in Types /\ Items(type[r]) \subseteq Post \cup Reqs
    BY <1>6, TimelineLabel, ItemsTyped DEF InsertMark, UpdateMark, TimelineSteps, TimelineTypeOK
  <2>2. mark' = mark \/ mark' = [mark EXCEPT ![call[r].by][type[r]] = Items(type[r])]
    BY <1>6 DEF InsertMark, UpdateMark
  <2>3. mark' \in [Member -> [Types -> (SUBSET (Post \cup Reqs)) \cup {NoMark}]]
    BY <2>1, <2>2 DEF TimelineTypeOK
  <2>4. type' \in [Reqs -> Types] /\ UNCHANGED <<since, got>>
    BY <1>6 DEF InsertMark, UpdateMark, NextType, TimelineTypeOK
  <2> QED
    BY <2>3, <2>4 DEF TimelineTypeOK
<1> QED
  BY <1>1, <1>2, <1>3, <1>4, <1>5, <1>6 DEF TimelineStep

LEMMA TimelineActs ==
  ASSUME Base, Shape, NEW r \in Reqs, TimelineStep(r)
  PROVE  Base' /\ Acts(r, TimelineOps)
<1>1. CASE GetFollowerTimelines(r) \/ HasUnreadTimeline(r)
  <2>1. PICK m \in Member, o \in {"view", "check"}, l \in {"findMark", "count"} :
          Arrive(r, [op |-> o, by |-> m], l)
    BY <1>1 DEF GetFollowerTimelines, HasUnreadTimeline
  <2>2. [op |-> o, by |-> m] \in Calls /\ o \in TimelineOps
    BY DEF Calls, TimelineCalls, TimelineOps
  <2>3. l \in Steps \ {"idle"} /\ Fits(o, l)
    BY <2>2 DEF Steps, TimelineSteps, Fits
  <2> QED
    BY <2>1, <2>2, <2>3, ActsArrive
<1>2. CASE ReadMark(r) \/ CountUnread(r) \/ FindMark(r) \/ InsertMark(r) \/ UpdateMark(r)
  <2>1. pc[r] \in TimelineSteps /\ \E l \in TimelineSteps \cup {"done"} : Goto(r, l)
    BY <1>2 DEF ReadMark, CountUnread, FindMark, InsertMark, UpdateMark, NextType, TimelineSteps
  <2>2. PICK l \in TimelineSteps \cup {"done"} : Goto(r, l)
    BY <2>1
  <2>3. call[r].op \in TimelineOps
    BY <2>1, TimelineLabel
  <2>4. Fits(call[r].op, l) /\ l \in Steps \ {"idle"}
    BY <2>3 DEF Fits, AllOps, Steps, TimelineSteps
  <2>5. pc[r] \notin {"idle", "done", "savePost", "chores"}
    BY <2>1 DEF TimelineSteps
  <2> QED
    BY <2>2, <2>3, <2>4, <2>5, ActsGoto
<1> QED
  BY <1>1, <1>2 DEF TimelineStep

-----------------------------------------------------------------------------
(* The whole                                                                *)

LEMMA InitShape ==
  ASSUME Init
  PROVE  TypeOK /\ Shape
<1> USE OldAssumption
<1>1. DOMAIN OldCall = OldRow \cup OldResult
  OBVIOUS
<1>2. \A r \in Reqs : IF r \in DOMAIN OldCall
                      THEN pc[r] = "done" /\ call[r] = OldCall[r]
                      ELSE pc[r] = "idle" /\ call[r] = NoCall
  BY DEF Init, RequestsInit
<1>3. \A r \in DOMAIN OldCall : OldCall[r] \in Calls /\ OldCall[r].op \in AllOps
  BY <1>1 DEF Calls, AllOps, SocialOps, FishingOps
<1>4. Base
  <2>1. pc \in [Reqs -> Steps]
    BY DEF Init, RequestsInit, Steps
  <2>2. call \in [Reqs -> Calls \cup {NoCall}]
    BY <1>3 DEF Init, RequestsInit
  <2> QED
    BY <2>1, <2>2, MishapsAssumption DEF Base, Init, RequestsInit
<1>5. Shape
  BY <1>2, <1>3 DEF Init, RequestsInit, Shape, ShapeOf, Fits, NoCall
<1>6. MembersTypeOK
  BY DEF Init, MembersInit, MembersTypeOK, NewMember, MemberRow
<1>7. PostsTypeOK
  BY DEF Init, PostsInit, PostsTypeOK
<1>8. SocialTypeOK
  BY DEF Init, SocialInit, SocialTypeOK
<1>9. FishingTypeOK
  BY DEF Init, FishingInit, FishingTypeOK, ReviewStatus
<1>10. TimelineTypeOK
  BY DEF Init, TimelineInit, TimelineTypeOK, Types
<1> QED
  BY <1>4, <1>5, <1>6, <1>7, <1>8, <1>9, <1>10 DEF TypeOK, Base

(* What a step is: a request of one module acts, an exception ends one, the *)
(* process ends, or nothing happens.                                        *)
ByMembers(r) == Acts(r, MemberOps) /\ OfMembers(r)
ByPosts(r) == Acts(r, PostOps) /\ OfPosts(r)
BySocialGraph(r) == Acts(r, SocialOps) /\ OfSocialGraph(r)
ByFishing(r) == Acts(r, FishingOps) /\ OfFishing(r)
ByTimeline(r) == Acts(r, TimelineOps) /\ OfTimeline(r)

AllStay == UNCHANGED <<memberVars, postVars, socialVars, fishingVars, timelineVars>>
ByThrow(r) ==
  /\ Acts(r, AllOps) /\ AllStay
  /\ call'[r] = call[r] /\ chores'[r] = chores[r] /\ pc'[r] = "done" /\ r \in broken'
  /\ pc[r] \notin {"idle", "done", "chores"}
ByRequest(r) ==
  \/ ByMembers(r) \/ ByPosts(r) \/ BySocialGraph(r) \/ ByFishing(r) \/ ByTimeline(r)
  \/ ByThrow(r)
ByEnd == Ends /\ AllStay

LEMMA StepActs ==
  ASSUME TypeOK, Shape, [Next]_vars
  PROVE  /\ TypeOK' /\ Shape'
         /\ \/ \E r \in Reqs : \/ ByMembers(r) \/ ByPosts(r) \/ BySocialGraph(r)
                               \/ ByFishing(r) \/ ByTimeline(r) \/ ByThrow(r)
            \/ ByEnd
            \/ UNCHANGED vars
<1>1. Base
  BY DEF TypeOK, Base
<1>2. ASSUME NEW r \in Reqs, NEW O, Acts(r, O)
      PROVE  Shape'
  BY <1>1, <1>2, ShapeMoves DEF Acts
<1>3. MembersTypeOK /\ UNCHANGED memberVars => MembersTypeOK'
  BY DEF MembersTypeOK, memberVars
<1>4. PostsTypeOK /\ UNCHANGED postVars => PostsTypeOK'
  BY DEF PostsTypeOK, postVars
<1>5. SocialTypeOK /\ UNCHANGED socialVars => SocialTypeOK'
  BY DEF SocialTypeOK, socialVars
<1>6. FishingTypeOK /\ UNCHANGED fishingVars => FishingTypeOK'
  BY DEF FishingTypeOK, fishingVars
<1>7. TimelineTypeOK /\ UNCHANGED timelineVars => TimelineTypeOK'
  BY DEF TimelineTypeOK, timelineVars
<1> USE <1>1, <1>2, <1>3, <1>4, <1>5, <1>6, <1>7
<1> DEFINE Types5 == MembersTypeOK /\ PostsTypeOK /\ SocialTypeOK /\ FishingTypeOK /\ TimelineTypeOK
<1>8. Types5
  BY DEF TypeOK
<1>9. ASSUME Base', MembersTypeOK', PostsTypeOK', SocialTypeOK', FishingTypeOK', TimelineTypeOK'
      PROVE  TypeOK'
  BY <1>9 DEF Base, TypeOK
<1> HIDE DEF Types5
<1>10. ASSUME NEW r \in Reqs, OfMembers(r)
       PROVE  TypeOK' /\ Shape' /\ ByMembers(r)
  BY <1>8, <1>9, <1>10, MemberActs DEF OfMembers, ByMembers, Types5
<1>11. ASSUME NEW r \in Reqs, OfPosts(r)
       PROVE  TypeOK' /\ Shape' /\ (ByPosts(r) \/ ByEnd)
  BY <1>8, <1>9, <1>11, PostActs, ShapeEnds DEF OfPosts, ByPosts, ByEnd, AllStay, Types5
<1>12. ASSUME NEW r \in Reqs, OfSocialGraph(r)
       PROVE  TypeOK' /\ Shape' /\ BySocialGraph(r)
  BY <1>8, <1>9, <1>12, SocialActs, SocialTypes DEF OfSocialGraph, BySocialGraph, Types5
<1>13. ASSUME NEW r \in Reqs, OfFishing(r)
       PROVE  TypeOK' /\ Shape' /\ ByFishing(r)
  BY <1>8, <1>9, <1>13, FishingActs, FishingTypes DEF OfFishing, ByFishing, Types5
<1>14. ASSUME NEW r \in Reqs, OfTimeline(r)
       PROVE  TypeOK' /\ Shape' /\ ByTimeline(r)
  BY <1>8, <1>9, <1>14, TimelineActs, TimelineTypes DEF OfTimeline, ByTimeline, Types5
<1>15. ASSUME Mishap
       PROVE  TypeOK' /\ Shape' /\ (ByEnd \/ \E r \in Reqs : ByThrow(r))
  <2>1. CASE Die /\ AllStay
    BY <1>8, <1>9, <2>1, BaseDie, ShapeEnds DEF AllStay, ByEnd, Types5
  <2>2. ASSUME NEW r \in Reqs, Throw(r), AllStay
        PROVE  TypeOK' /\ Shape' /\ ByThrow(r)
    BY <1>8, <1>9, <2>2, BaseThrow, ActsThrow DEF AllStay, ByThrow, Types5
  <2> QED
    BY <1>15, <2>1, <2>2 DEF Mishap, AllStay
<1>16. ASSUME UNCHANGED vars
       PROVE  TypeOK' /\ Shape'
  <2>1. Base'
    BY <1>16 DEF vars, requestVars, Base
  <2>2. Shape'
    BY <1>16 DEF vars, requestVars, Shape
  <2> QED
    BY <1>8, <1>9, <1>16, <2>1, <2>2 DEF vars, Types5
<1> QED
  BY <1>10, <1>11, <1>12, <1>13, <1>14, <1>15, <1>16 DEF Next, Stop

LEMMA ShapeInvariant ==
  Spec => [](TypeOK /\ Shape)
<1>1. Init => TypeOK /\ Shape
  BY InitShape
<1>2. TypeOK /\ Shape /\ [Next]_vars => TypeOK' /\ Shape'
  BY StepActs
<1> QED
  BY <1>1, <1>2, PTL DEF Spec

\* Every request stays in its own handler, whatever throws and whenever the process
\* ends: what it asks for, where it is and what it has copied are of their types.
THEOREM TypeCorrect ==
  Spec => []TypeOK
BY ShapeInvariant, PTL

-----------------------------------------------------------------------------
(* Posts edited by somebody else                                            *)

TextIsOf(r, p) ==
  /\ call[r].op \in {"post", "edit"} /\ call[r].on = p
  /\ call[r].op = "post" => call[r].by = Author[p]

EditIsChecked(r) ==
  "checkOwnPost" \in chores[r] \/ call[r].by = Author[call[r].on] \/ r \in broken

EditsChecked ==
  /\ \A p \in Post : text[p] # Unwritten => TextIsOf(text[p], p)
  /\ \A r \in Reqs : call[r].op = "edit" => EditIsChecked(r)

LEMMA CallsStay ==
  ASSUME Shape, NEW r \in Reqs, Moves(r)
  PROVE  /\ \A q \in Reqs : call[q].op # "none" => call'[q] = call[q]
         /\ broken \subseteq broken'
<1>1. ASSUME NEW q \in Reqs, call[q].op # "none"
      PROVE  pc[q] # "idle"
  BY <1>1 DEF Shape, ShapeOf, Fits, MemberSteps, SocialSteps, TimelineSteps
<1> QED
  BY <1>1 DEF Moves

LEMMA EditsUntouched ==
  ASSUME TypeOK, Shape, EditsChecked, NEW r \in Reqs, Moves(r), UNCHANGED text,
         call'[r].op = "edit" => EditIsChecked(r)'
  PROVE  EditsChecked'
<1>1. ASSUME NEW p \in Post, text'[p] # Unwritten
      PROVE  TextIsOf(text[p], p)'
  <2>1. text[p] \in Reqs /\ TextIsOf(text[p], p)
    BY <1>1 DEF EditsChecked, TypeOK, PostsTypeOK
  <2>2. call'[text[p]] = call[text[p]]
    BY <2>1, CallsStay DEF TextIsOf
  <2> QED
    BY <2>1, <2>2 DEF TextIsOf
<1>2. ASSUME NEW q \in Reqs, call'[q].op = "edit"
      PROVE  EditIsChecked(q)'
  <2>1. CASE q = r
    BY <1>2, <2>1
  <2>2. CASE q # r
    <3>1. call'[q] = call[q] /\ chores'[q] = chores[q] /\ broken \subseteq broken'
      BY <2>2 DEF Moves
    <3> QED
      BY <1>2, <3>1 DEF EditsChecked, EditIsChecked
  <2> QED
    BY <2>1, <2>2
<1> QED
  BY <1>1, <1>2 DEF EditsChecked

LEMMA EditsEnd ==
  ASSUME TypeOK, Shape, EditsChecked, Ends, UNCHANGED text
  PROVE  EditsChecked'
<1>1. ASSUME NEW r \in Reqs, call[r].op = "edit"
      PROVE  EditIsChecked(r)'
  <2>1. CASE "checkOwnPost" \in chores[r]
    <3>1. pc[r] \in {"savePost", "chores"} \/ r \in broken
      BY <2>1 DEF Shape, ShapeOf
    <3>2. r \in broken'
      BY <3>1 DEF Ends, Underway
    <3> QED
      BY <3>2 DEF EditIsChecked
  <2>2. CASE "checkOwnPost" \notin chores[r]
    BY <1>1, <2>2 DEF EditsChecked, EditIsChecked, Ends
  <2> QED
    BY <2>1, <2>2
<1> QED
  BY <1>1 DEF EditsChecked, TextIsOf, Ends

LEMMA EditsWritten ==
  ASSUME TypeOK, Shape, EditsChecked, NEW r \in Reqs, NEW p \in Post, Moves(r),
         text' = [text EXCEPT ![p] = r], TextIsOf(r, p)',
         call'[r].op = "edit" => EditIsChecked(r)'
  PROVE  EditsChecked'
<1>1. ASSUME NEW z \in Post, text'[z] # Unwritten
      PROVE  TextIsOf(text[z], z)'
  <2>1. CASE z = p
    BY <2>1 DEF TypeOK, PostsTypeOK
  <2>2. CASE z # p
    <3>1. text'[z] = text[z] /\ text[z] \in Reqs /\ TextIsOf(text[z], z)
      BY <1>1, <2>2 DEF EditsChecked, TypeOK, PostsTypeOK
    <3>2. call'[text[z]] = call[text[z]]
      BY <3>1, CallsStay DEF TextIsOf
    <3> QED
      BY <3>1, <3>2 DEF TextIsOf
  <2> QED
    BY <2>1, <2>2
<1>2. ASSUME NEW q \in Reqs, call'[q].op = "edit"
      PROVE  EditIsChecked(q)'
  <2>1. CASE q = r
    BY <1>2, <2>1
  <2>2. CASE q # r
    <3>1. call'[q] = call[q] /\ chores'[q] = chores[q] /\ broken \subseteq broken'
      BY <2>2 DEF Moves
    <3> QED
      BY <1>2, <3>1 DEF EditsChecked, EditIsChecked
  <2> QED
    BY <2>1, <2>2
<1> QED
  BY <1>1, <1>2 DEF EditsChecked

LEMMA EditsOfPosts ==
  ASSUME TypeOK, Shape, EditsChecked, NEW r \in Reqs, PostStep(r)
  PROVE  EditsChecked'
<1> USE AuthorAssumption
<1>0. Base /\ PostsTypeOK
  BY DEF TypeOK, Base
<1>1. CASE RegisterPost(r)
  <2>1. PICK p \in Post :
          /\ Arrive(r, [op |-> "post", by |-> Author[p], on |-> p], "reward")
          /\ text' = [text EXCEPT ![p] = r]
    BY <1>1 DEF RegisterPost
  <2>2. [op |-> "post", by |-> Author[p], on |-> p] \in Calls /\ "reward" \in Steps \ {"idle"}
    BY DEF Calls, PostCalls, Steps, PostSteps
  <2>3. Moves(r) /\ call'[r] = [op |-> "post", by |-> Author[p], on |-> p]
    BY <1>0, <2>1, <2>2, BaseArrive
  <2>4. TextIsOf(r, p)'
    BY <2>3 DEF TextIsOf
  <2>5. call'[r].op = "edit" => EditIsChecked(r)'
    BY <2>3
  <2> QED
    BY <2>1, <2>3, <2>4, <2>5, EditsWritten
<1>2. CASE RewardPost(r)
  <2>1. pc[r] = "reward" /\ Goto(r, "done") /\ call[r].op = "post"
    BY <1>2 DEF RewardPost, Shape, ShapeOf, Fits, MemberSteps, SocialSteps, TimelineSteps
  <2>2. Moves(r) /\ call'[r] = call[r]
    BY <1>0, <2>1, BaseGoto DEF Steps
  <2> QED
    BY <1>2, <2>1, <2>2, EditsUntouched DEF RewardPost, postVars
<1>3. CASE EditPost(r)
  <2>1. PostsTypeOK /\ Moves(r)
    BY <1>0, <1>3 DEF EditPost, Base, Moves
  <2>2. "checkOwnPost" \in chores'[r] /\ UNCHANGED text
    BY <1>0, <1>3 DEF EditPost, Base, postVars
  <2>3. EditIsChecked(r)'
    BY <2>2 DEF EditIsChecked
  <2> QED
    BY <2>1, <2>2, <2>3, EditsUntouched
<1>4. CASE SavePost(r)
  <2>1. pc[r] = "savePost" /\ Leave(r, chores[r]) /\ call[r].op = "edit"
    BY <1>4 DEF SavePost, Shape, ShapeOf, Fits, MemberSteps, SocialSteps, TimelineSteps
  <2>2. /\ Moves(r) /\ call'[r] = call[r] /\ chores'[r] = chores[r] /\ broken' = broken
    BY <1>0, <2>1, BaseLeave DEF Base
  <2>3. call[r] \in PostCalls
    BY <1>0, <2>1 DEF Base, Calls, NoCall, MemberCalls, SocialCalls, GoodRequests,
                FollowRequests, BlockRequests, ReportRequests, FishingCalls, TimelineCalls
  <2>4. call[r].on \in Post
    BY <2>3 DEF PostCalls
  <2>5. EditIsChecked(r)'
    BY <2>1, <2>2 DEF EditsChecked, EditIsChecked
  <2>6. TextIsOf(r, call[r].on)'
    BY <2>1, <2>2 DEF TextIsOf
  <2>7. text' = [text EXCEPT ![call[r].on] = r]
    BY <1>4 DEF SavePost
  <2> QED
    BY <2>2, <2>4, <2>5, <2>6, <2>7, EditsWritten
<1>5. CASE CheckOwnPost(r)
  <2>1. "checkOwnPost" \in chores[r] /\ UNCHANGED text
    BY <1>5 DEF CheckOwnPost, postVars
  <2>2. CASE Author[call[r].on] = call[r].by /\ FinishChore(r, "checkOwnPost", {})
    <3>1. pc[r] # "idle"
      BY <2>1 DEF Shape, ShapeOf
    <3>2. Moves(r) /\ call'[r] = call[r]
      BY <1>0, <2>1, <2>2, <3>1, BaseFinish
    <3>3. EditIsChecked(r)'
      BY <2>2, <3>2 DEF EditIsChecked
    <3> QED
      BY <2>1, <3>2, <3>3, EditsUntouched
  <2>3. CASE ProcessEnds
    BY <1>0, <2>1, <2>3, BaseEnds, EditsEnd
  <2> QED
    BY <1>5, <2>2, <2>3 DEF CheckOwnPost
<1>6. CASE DeletePost(r)
  <2>1. PICK p \in Post : Arrive(r, [op |-> "deletePost", by |-> Author[p], on |-> p], "done")
    BY <1>6 DEF DeletePost
  <2>2. [op |-> "deletePost", by |-> Author[p], on |-> p] \in Calls /\ "done" \in Steps \ {"idle"}
    BY DEF Calls, PostCalls, Steps
  <2>3. Moves(r) /\ call'[r] = [op |-> "deletePost", by |-> Author[p], on |-> p]
    BY <1>0, <2>1, <2>2, BaseArrive
  <2> QED
    BY <1>6, <2>3, EditsUntouched DEF DeletePost
<1> QED
  BY <1>1, <1>2, <1>3, <1>4, <1>5, <1>6 DEF PostStep

LEMMA EditsStep ==
  ASSUME TypeOK, Shape, EditsChecked, [Next]_vars
  PROVE  EditsChecked'
<1>1. ASSUME NEW r \in Reqs, NEW O, Acts(r, O), "edit" \notin O, UNCHANGED postVars
      PROVE  EditsChecked'
  BY <1>1, EditsUntouched DEF Acts, postVars
<1>2. ASSUME NEW r \in Reqs, ByPosts(r)
      PROVE  EditsChecked'
  BY <1>2, EditsOfPosts DEF ByPosts, OfPosts
<1>3. ASSUME NEW r \in Reqs, ByThrow(r)
      PROVE  EditsChecked'
  <2>1. Moves(r) /\ UNCHANGED text /\ call'[r] = call[r] /\ chores'[r] = chores[r]
    BY <1>3 DEF ByThrow, Acts, AllStay, postVars
  <2>2. broken \subseteq broken'
    BY <2>1 DEF Moves
  <2>3. call'[r].op = "edit" => EditIsChecked(r)'
    BY <2>1, <2>2 DEF EditsChecked, EditIsChecked
  <2> QED
    BY <2>1, <2>3, EditsUntouched
<1>4. CASE ByEnd
  BY <1>4, EditsEnd DEF ByEnd, AllStay, postVars
<1>5. CASE UNCHANGED vars
  BY <1>5 DEF vars, requestVars, postVars, EditsChecked, TextIsOf, EditIsChecked
<1>6. ASSUME NEW r \in Reqs, ByMembers(r) \/ BySocialGraph(r) \/ ByFishing(r) \/ ByTimeline(r)
      PROVE  EditsChecked'
  BY <1>1, <1>6
  DEF ByMembers, OfMembers, BySocialGraph, OfSocialGraph, ByFishing, OfFishing, ByTimeline, OfTimeline,
      MemberOps, SocialOps, FishingOps, TimelineOps
<1> QED
  BY <1>2, <1>3, <1>4, <1>5, <1>6, StepActs

LEMMA EditsInit ==
  ASSUME Init
  PROVE  EditsChecked
<1>1. \A r \in Reqs : call[r].op # "edit"
  BY OldAssumption DEF Init, RequestsInit, NoCall
<1> QED
  BY <1>1 DEF Init, PostsInit, EditsChecked

\* checkOwnPost is not awaited, so the post is saved whatever it finds.  All that the
\* check does is to end the server: a post has a text of somebody else than its author
\* only while the check is still out, or because the request broke off.
THEOREM ForeignEditsEnd ==
  Spec => []ForeignEditEndsServer
<1> DEFINE IInv == TypeOK /\ Shape /\ EditsChecked
<1>1. Init => IInv
  BY InitShape, EditsInit
<1>2. IInv /\ [Next]_vars => IInv'
  BY StepActs, EditsStep
<1>3. IInv => ForeignEditEndsServer
  <2> SUFFICES ASSUME IInv, NEW p \in Post, text[p] # Unwritten, call[text[p]].by # Author[p]
               PROVE  "checkOwnPost" \in chores[text[p]] \/ text[p] \in broken
    BY DEF ForeignEditEndsServer
  <2>1. text[p] \in Reqs /\ TextIsOf(text[p], p)
    BY DEF TypeOK, PostsTypeOK, EditsChecked
  <2>2. call[text[p]].op = "edit" /\ call[text[p]].on = p
    BY <2>1 DEF TextIsOf
  <2> QED
    BY <2>1, <2>2 DEF EditsChecked, EditIsChecked
<1> QED
  BY <1>1, <1>2, <1>3, PTL DEF Spec

-----------------------------------------------------------------------------
(* What stands of a saved member                                            *)

Columns == {"status", "profile", "angler"}
Saver(r) == call[r].op \in MemberOps
SameMember(r, s) == Saver(s) /\ call[s].by = call[r].by
Stands(r) == member[call[r].by][ColumnOf(r)] = ValueOf(r)
Carries(s, r) == copy[s][ColumnOf(r)] = ValueOf(r)

Excused(r) ==
  \E s \in Reqs :
    SameMember(r, s) /\ (Overlap(r, s) \/ (r \in before[s] /\ ColumnOf(s) = ColumnOf(r)))

(* Whoever arrives after r was over starts from a row with what r saved.    *)
Handed(r) == \A s \in Reqs : SameMember(r, s) /\ r \in before[s] => Carries(s, r)

SaveHolds(r) ==
  /\ Carries(r, r)
  /\ pc[r] = "update" => ColumnOf(r) \in columns[r] \/ Stands(r) \/ Excused(r)
  /\ Over(r) /\ r \notin broken => Excused(r) \/ (Stands(r) /\ Handed(r))

BeforeOver == \A r, s \in Reqs : s \in before[r] => Over(s)
SavesHold == \A r \in Reqs : Saver(r) => SaveHolds(r)

LEMMA BeforeMoves ==
  ASSUME Base, BeforeOver, NEW q \in Reqs, Moves(q)
  PROVE  BeforeOver'
<1> SUFFICES ASSUME NEW r \in Reqs, NEW s \in Reqs, s \in before'[r]
             PROVE  pc'[s] = "done"
  BY DEF BeforeOver, Over
<1>1. pc[s] = "done"
  BY DEF Moves, BeforeOver, Over
<1> QED
  BY <1>1 DEF Moves

LEMMA BeforeEnds ==
  ASSUME BeforeOver, Ends
  PROVE  BeforeOver'
  BY DEF BeforeOver, Over, Ends, Underway

LEMMA SaverKept ==
  ASSUME Shape, NEW q \in Reqs, Moves(q) \/ Ends, NEW r \in Reqs, Saver(r)
  PROVE  /\ call'[r] = call[r] /\ before'[r] = before[r] /\ pc[r] # "idle" /\ pc'[r] # "idle"
         /\ ColumnOf(r)' = ColumnOf(r) /\ ValueOf(r)' = ValueOf(r)
         /\ ColumnOf(r) \in Columns
<1>1. pc[r] # "idle"
  BY DEF Saver, MemberOps, Shape, ShapeOf, Fits, MemberSteps, SocialSteps, TimelineSteps
<1>2. call'[r] = call[r] /\ before'[r] = before[r] /\ pc'[r] # "idle"
  BY <1>1 DEF Moves, Ends, Underway
<1> QED
  BY <1>1, <1>2 DEF ColumnOf, ValueOf, Columns, Saver, MemberOps

LEMMA ExcuseStays ==
  ASSUME Shape, NEW q \in Reqs, Moves(q) \/ Ends, NEW r \in Reqs, Saver(r), Excused(r)
  PROVE  Excused(r)'
<1>1. PICK s \in Reqs :
        /\ SameMember(r, s)
        /\ Overlap(r, s) \/ (r \in before[s] /\ ColumnOf(s) = ColumnOf(r))
  BY DEF Excused
<1>2. /\ call'[r] = call[r] /\ before'[r] = before[r] /\ pc'[r] # "idle"
      /\ ColumnOf(r)' = ColumnOf(r)
  BY SaverKept
<1>3. /\ call'[s] = call[s] /\ before'[s] = before[s] /\ pc'[s] # "idle"
      /\ ColumnOf(s)' = ColumnOf(s)
  <2>1. Saver(s)
    BY <1>1 DEF SameMember
  <2> QED
    BY <2>1, SaverKept
<1>4. SameMember(r, s)'
  <2>1. Saver(s) /\ call[s].by = call[r].by
    BY <1>1 DEF SameMember
  <2>2. Saver(s)' /\ call'[s].by = call'[r].by
    BY <1>2, <1>3, <2>1 DEF Saver
  <2> QED
    BY <2>2 DEF SameMember
<1>5. Overlap(r, s) => Overlap(r, s)'
  BY <1>2, <1>3 DEF Overlap
<1>6. (r \in before[s] /\ ColumnOf(s) = ColumnOf(r))
        => (r \in before[s] /\ ColumnOf(s) = ColumnOf(r))'
  BY <1>2, <1>3
<1> QED
  BY <1>1, <1>4, <1>5, <1>6 DEF Excused

(* A request keeps what holds of it when nothing that it is about changes.  *)
LEMMA SaveKept ==
  ASSUME Shape, NEW q \in Reqs, Moves(q) \/ Ends, NEW r \in Reqs, Saver(r), SaveHolds(r),
         copy'[r] = copy[r], columns'[r] = columns[r],
         pc'[r] = "update" => pc[r] = "update",
         pc'[r] = "done" => pc[r] = "done" \/ r \in broken', broken \subseteq broken',
         Stands(r) /\ (Over(r) => Handed(r)) => Stands(r)' \/ Excused(r)',
         Handed(r) /\ Over(r) /\ Stands(r) => Handed(r)' \/ Excused(r)'
  PROVE  SaveHolds(r)'
<1>1. ColumnOf(r)' = ColumnOf(r) /\ ValueOf(r)' = ValueOf(r)
  BY SaverKept
<1>2. Excused(r) => Excused(r)'
  BY ExcuseStays
<1>3. Carries(r, r)'
  BY <1>1 DEF SaveHolds, Carries
<1>4. ASSUME pc'[r] = "update"
      PROVE  ColumnOf(r)' \in columns'[r] \/ Stands(r)' \/ Excused(r)'
  BY <1>1, <1>2, <1>4 DEF SaveHolds, Over
<1>5. ASSUME pc'[r] = "done", r \notin broken'
      PROVE  Excused(r)' \/ (Stands(r)' /\ Handed(r)')
  <2>1. Over(r) /\ r \notin broken
    BY <1>5 DEF Over
  <2> QED
    BY <1>2, <2>1 DEF SaveHolds
<1> QED
  BY <1>3, <1>4, <1>5 DEF SaveHolds, Over

LEMMA SavesUntouched ==
  ASSUME Shape, SavesHold, NEW q \in Reqs, Moves(q), UNCHANGED memberVars,
         call'[q].op \in MemberOps =>
           /\ call'[q] = call[q] /\ pc'[q] # "update" /\ (pc'[q] = "done" => q \in broken')
  PROVE  SavesHold'
<1> SUFFICES ASSUME NEW r \in Reqs, Saver(r)'
             PROVE  SaveHolds(r)'
  BY DEF SavesHold
<1>1. ASSUME NEW s \in Reqs, Saver(s)'
      PROVE  Saver(s) /\ call'[s] = call[s] /\ before'[s] = before[s]
  <2>1. call'[s] = call[s]
    BY <1>1 DEF Saver, Moves
  <2>2. Saver(s)
    BY <1>1, <2>1 DEF Saver
  <2> QED
    BY <2>1, <2>2, SaverKept
<1>2. Saver(r) /\ SaveHolds(r) /\ ColumnOf(r)' = ColumnOf(r) /\ ValueOf(r)' = ValueOf(r)
  BY <1>1, SaverKept DEF SavesHold
<1>3. Stands(r) => Stands(r)'
  BY <1>1, <1>2 DEF Stands, memberVars
<1>4. Handed(r) => Handed(r)'
  <2>1. ASSUME Handed(r), NEW s \in Reqs, SameMember(r, s)', r \in before'[s]
        PROVE  Carries(s, r)'
    <3>1. SameMember(r, s) /\ r \in before[s]
      BY <1>1, <2>1 DEF SameMember, Saver
    <3> QED
      BY <1>2, <2>1, <3>1 DEF Handed, Carries, memberVars
  <2> QED
    BY <2>1 DEF Handed
<1>5. /\ copy'[r] = copy[r] /\ columns'[r] = columns[r] /\ broken \subseteq broken'
      /\ pc'[r] = "update" => pc[r] = "update"
      /\ pc'[r] = "done" => pc[r] = "done" \/ r \in broken'
  BY <1>1 DEF Moves, memberVars, Saver
<1> QED
  BY <1>2, <1>3, <1>4, <1>5, SaveKept

LEMMA SavesEnd ==
  ASSUME Shape, SavesHold, Ends, UNCHANGED memberVars
  PROVE  SavesHold'
<1> SUFFICES ASSUME NEW r \in Reqs, Saver(r)
             PROVE  SaveHolds(r)'
  BY DEF SavesHold, Saver, Ends
<1>1. SaveHolds(r) /\ ColumnOf(r)' = ColumnOf(r) /\ ValueOf(r)' = ValueOf(r) /\ call' = call
  BY SaverKept DEF SavesHold, Ends
<1>2. Stands(r) => Stands(r)'
  BY <1>1 DEF Stands, memberVars
<1>3. Handed(r) => Handed(r)'
  BY <1>1 DEF Handed, SameMember, Saver, Carries, memberVars, Ends
<1>4. /\ copy'[r] = copy[r] /\ columns'[r] = columns[r] /\ broken \subseteq broken'
      /\ pc'[r] = "update" => pc[r] = "update"
      /\ pc'[r] = "done" => pc[r] = "done" \/ r \in broken'
  BY DEF Ends, Underway, memberVars
<1> QED
  BY <1>1, <1>2, <1>3, <1>4, SaveKept

LEMMA SaverTyped ==
  ASSUME TypeOK, NEW r \in Reqs, Saver(r)
  PROVE  /\ call[r].by \in Member /\ DOMAIN copy[r] = Columns
         /\ member \in [Member -> MemberRow] /\ DOMAIN member[call[r].by] = Columns
<1>1. call[r] \in MemberCalls
  BY DEF TypeOK, Saver, Calls, NoCall, MemberOps, PostCalls, SocialCalls, GoodRequests,
         FollowRequests, BlockRequests, ReportRequests, FishingCalls, TimelineCalls
<1>2. call[r].by \in Member
  BY <1>1 DEF MemberCalls
<1> QED
  BY <1>2 DEF TypeOK, MembersTypeOK, MemberRow, Columns

(* Everything but the request q is as it was.                               *)
LEMMA OthersKept ==
  ASSUME TypeOK, Shape, SavesHold, NEW q \in Reqs, Moves(q), NEW r \in Reqs, r # q, Saver(r)',
         UNCHANGED member, copy'[r] = copy[r], columns'[r] = columns[r],
         Handed(r) /\ Over(r) /\ Stands(r) => Handed(r)' \/ Excused(r)'
  PROVE  SaveHolds(r)'
<1>1. Saver(r)
  BY DEF Saver, Moves
<1>2. SaveHolds(r) /\ call'[r] = call[r] /\ ColumnOf(r)' = ColumnOf(r) /\ ValueOf(r)' = ValueOf(r)
  BY <1>1, SaverKept DEF SavesHold
<1>3. Stands(r) => Stands(r)'
  BY <1>2 DEF Stands
<1>4. /\ pc'[r] = "update" => pc[r] = "update"
      /\ pc'[r] = "done" => pc[r] = "done" \/ r \in broken'
      /\ broken \subseteq broken'
  BY DEF Moves
<1> QED
  BY <1>1, <1>2, <1>3, <1>4, SaveKept

LEMMA SaverArrives ==
  ASSUME TypeOK, Shape, SavesHold, NEW q \in Reqs, Moves(q), pc[q] = "idle",
         pc'[q] \notin {"update", "done"}, UNCHANGED <<member, columns>>,
         NEW row, copy' = [copy EXCEPT ![q] = row], row[ColumnOf(q)'] = ValueOf(q)',
         \A k \in Columns : k # ColumnOf(q)' => row[k] = member[call'[q].by][k]
  PROVE  SavesHold'
<1> SUFFICES ASSUME NEW r \in Reqs, Saver(r)'
             PROVE  SaveHolds(r)'
  BY DEF SavesHold
<1>1. copy'[q] = row /\ \A s \in Reqs : s # q => copy'[s] = copy[s]
  BY DEF TypeOK, MembersTypeOK
<1>2. CASE r = q
  <2>1. Carries(q, q)'
    BY <1>1 DEF Carries
  <2> QED
    BY <1>2, <2>1 DEF SaveHolds, Over
<1>3. CASE r # q
  <2>1. Saver(r)
    BY <1>3 DEF Saver, Moves
  <2>2. /\ call'[r] = call[r] /\ ColumnOf(r)' = ColumnOf(r) /\ ValueOf(r)' = ValueOf(r)
        /\ ColumnOf(r) \in Columns
    BY <2>1, SaverKept
  <2>3. ASSUME Handed(r), Stands(r)
        PROVE  Handed(r)' \/ Excused(r)'
    <3>1. CASE SameMember(r, q)' /\ r \in before'[q] /\ ColumnOf(q)' = ColumnOf(r)'
      BY <3>1 DEF Excused
    <3>2. CASE ~(SameMember(r, q)' /\ r \in before'[q] /\ ColumnOf(q)' = ColumnOf(r)')
      <4>1. ASSUME NEW s \in Reqs, SameMember(r, s)', r \in before'[s]
            PROVE  Carries(s, r)'
        <5>1. CASE s = q
          <6>1. ColumnOf(r) # ColumnOf(q)' /\ call'[q].by = call[r].by
            BY <2>2, <3>2, <4>1, <5>1 DEF SameMember
          <6>2. row[ColumnOf(r)] = member[call[r].by][ColumnOf(r)]
            BY <2>2, <6>1
          <6>3. row[ColumnOf(r)] = ValueOf(r)
            BY <2>3, <6>2 DEF Stands
          <6> QED
            BY <1>1, <2>2, <5>1, <6>3 DEF Carries
        <5>2. CASE s # q
          <6>1. SameMember(r, s) /\ r \in before[s] /\ copy'[s] = copy[s]
            BY <1>1, <2>2, <4>1, <5>2 DEF SameMember, Saver, Moves
          <6> QED
            BY <2>2, <2>3, <6>1 DEF Handed, Carries
        <5> QED
          BY <5>1, <5>2
      <4> QED
        BY <4>1 DEF Handed
    <3> QED
      BY <3>1, <3>2
  <2> QED
    BY <1>1, <1>3, <2>3, OthersKept
<1> QED
  BY <1>2, <1>3

LEMMA HandedKept ==
  ASSUME Shape, NEW q \in Reqs, Moves(q), call'[q] = call[q], UNCHANGED copy,
         NEW r \in Reqs, Saver(r), Handed(r)
  PROVE  Handed(r)'
<1>1. call' [r] = call[r] /\ ColumnOf(r)' = ColumnOf(r) /\ ValueOf(r)' = ValueOf(r)
  BY SaverKept
<1> SUFFICES ASSUME NEW s \in Reqs, SameMember(r, s)', r \in before'[s]
             PROVE  Carries(s, r)'
  BY DEF Handed
<1>2. call'[s] = call[s]
  BY DEF Moves
<1>3. Saver(s)
  BY <1>2 DEF SameMember, Saver
<1>4. before'[s] = before[s]
  BY <1>3, SaverKept
<1>5. SameMember(r, s) /\ r \in before[s]
  BY <1>1, <1>2, <1>3, <1>4 DEF SameMember
<1> QED
  BY <1>1, <1>5 DEF Handed, Carries

LEMMA SaverCompares ==
  ASSUME TypeOK, Shape, SavesHold, NEW q \in Reqs, Moves(q), call'[q] = call[q], SaveMember(q)
  PROVE  SavesHold'
<1> SUFFICES ASSUME NEW r \in Reqs, Saver(r)'
             PROVE  SaveHolds(r)'
  BY DEF SavesHold
<1>1. /\ UNCHANGED <<member, copy>> /\ \A s \in Reqs : s # q => columns'[s] = columns[s]
      /\ columns'[q] = {c \in DOMAIN copy[q] : copy[q][c] # member[call[q].by][c]}
      /\ pc'[q] = "update"
  BY DEF SaveMember, Goto, TypeOK, MembersTypeOK
<1>2. Saver(r)
  BY DEF Saver, Moves
<1>3. CASE r = q
  <2>1. /\ ColumnOf(q)' = ColumnOf(q) /\ ValueOf(q)' = ValueOf(q) /\ ColumnOf(q) \in Columns
        /\ SaveHolds(q) /\ DOMAIN copy[q] = Columns
    BY <1>2, <1>3, SaverKept, SaverTyped DEF SavesHold
  <2>2. Carries(q, q)'
    BY <1>1, <2>1 DEF SaveHolds, Carries
  <2>3. ColumnOf(q) \in columns'[q] \/ Stands(q)'
    BY <1>1, <2>1 DEF SaveHolds, Carries, Stands
  <2> QED
    BY <1>1, <1>3, <2>1, <2>2, <2>3 DEF SaveHolds, Over
<1>4. CASE r # q
  <2>1. Handed(r) => Handed(r)'
    BY <1>1, <1>2, HandedKept
  <2> QED
    BY <1>1, <1>4, <2>1, OthersKept
<1> QED
  BY <1>3, <1>4

LEMMA SaverUpdates ==
  ASSUME TypeOK, Shape, BeforeOver, SavesHold, NEW q \in Reqs, Saver(q), Moves(q),
         pc[q] = "update", pc'[q] = "done", call'[q] = call[q], broken' = broken,
         UNCHANGED <<copy, columns>>,
         member' = [member EXCEPT ![call[q].by] =
                      [c \in DOMAIN @ |-> IF c \in columns[q] THEN copy[q][c] ELSE @[c]]]
  PROVE  SavesHold'
<1> SUFFICES ASSUME NEW r \in Reqs, Saver(r)'
             PROVE  SaveHolds(r)'
  BY DEF SavesHold
<1>1. Saver(r)
  BY DEF Saver, Moves
<1>2. /\ SaveHolds(r) /\ call'[r] = call[r] /\ before'[r] = before[r]
      /\ ColumnOf(r)' = ColumnOf(r) /\ ValueOf(r)' = ValueOf(r) /\ ColumnOf(r) \in Columns
      /\ pc[r] # "idle"
  BY <1>1, SaverKept DEF SavesHold
<1>3. /\ \A m \in Member : m # call[q].by => member'[m] = member[m]
      /\ \A c \in Columns : member'[call[q].by][c] =
           IF c \in columns[q] THEN copy[q][c] ELSE member[call[q].by][c]
  BY SaverTyped
<1>4. CASE r = q
  <2>1. ASSUME NEW s \in Reqs
        PROVE  q \notin before'[s]
    <3>1. q \notin before[s]
      BY DEF BeforeOver, Over
    <3> QED
      BY <3>1 DEF Moves
  <2>2. Handed(q)'
    BY <2>1 DEF Handed
  <2>3. Stands(q)' \/ Excused(q)
    BY <1>2, <1>3, <1>4 DEF SaveHolds, Stands, Carries
  <2>4. Excused(q) => Excused(q)'
    BY ExcuseStays
  <2>5. Carries(q, q)'
    BY <1>2, <1>4 DEF SaveHolds, Carries
  <2> QED
    BY <1>4, <2>2, <2>3, <2>4, <2>5 DEF SaveHolds
<1>5. CASE r # q
  <2>1. ASSUME Stands(r), Over(r) => Handed(r)
        PROVE  Stands(r)' \/ Excused(r)'
    <3>1. CASE call[q].by # call[r].by
      BY <1>1, <1>2, <1>3, <2>1, <3>1, SaverTyped DEF Stands
    <3>2. CASE call[q].by = call[r].by /\ r \in before[q]
      <4>1. Handed(r) /\ SameMember(r, q)
        BY <2>1, <3>2 DEF BeforeOver, SameMember
      <4>2. Carries(q, r)
        BY <3>2, <4>1 DEF Handed
      <4> QED
        BY <1>2, <1>3, <2>1, <3>2, <4>2 DEF Stands, Carries
    <3>3. CASE call[q].by = call[r].by /\ r \notin before[q]
      <4>1. q \notin before[r]
        BY DEF BeforeOver, Over
      <4>2. SameMember(r, q) /\ Overlap(r, q)
        BY <1>2, <1>5, <3>3, <4>1 DEF SameMember, Overlap
      <4>3. Excused(r)
        BY <4>2 DEF Excused
      <4> QED
        BY <1>1, <4>3, ExcuseStays
    <3> QED
      BY <3>1, <3>2, <3>3
  <2>2. Handed(r) => Handed(r)'
    BY <1>1, HandedKept
  <2>3. /\ copy'[r] = copy[r] /\ columns'[r] = columns[r] /\ broken \subseteq broken'
        /\ pc'[r] = pc[r]
    BY <1>5 DEF Moves
  <2> QED
    BY <1>1, <1>2, <2>1, <2>2, <2>3, SaveKept
<1> QED
  BY <1>4, <1>5

LEMMA SavesOfMembers ==
  ASSUME TypeOK, Shape, BeforeOver, SavesHold, NEW q \in Reqs, MemberStep(q)
  PROVE  SavesHold'
<1>0. Base
  BY DEF TypeOK, Base
<1>1. CASE PostProfile(q) \/ PostProfileAngler(q) \/ Withdrawal(q)
  <2>1. PICK m \in Member, o \in MemberOps, l \in {"upload", "save"} :
          /\ Arrive(q, [op |-> o, by |-> m], l) /\ UNCHANGED <<member, columns>>
          /\ \/ o = "profile" /\ copy' = [copy EXCEPT ![q] = [member[m] EXCEPT !.profile = q]]
             \/ o = "angler" /\ copy' = [copy EXCEPT ![q] = [member[m] EXCEPT !.angler = q]]
             \/ /\ o = "withdrawal"
                /\ copy' = [copy EXCEPT ![q] = [member[m] EXCEPT !.status = "Withdrawal"]]
    BY <1>1 DEF PostProfile, PostProfileAngler, Withdrawal, MemberOps
  <2>2. [op |-> o, by |-> m] \in Calls /\ l \in Steps \ {"idle"}
    BY DEF Calls, MemberCalls, MemberOps, Steps, MemberSteps
  <2>3. /\ Moves(q) /\ pc[q] = "idle" /\ pc'[q] = l /\ call'[q] = [op |-> o, by |-> m]
    BY <1>0, <2>1, <2>2, BaseArrive
  <2>4. ColumnOf(q)' = (IF o = "withdrawal" THEN "status" ELSE o)
        /\ ValueOf(q)' = (IF o = "withdrawal" THEN "Withdrawal" ELSE q)
    BY <2>3 DEF ColumnOf, ValueOf
  <2>5. member[m] \in MemberRow
    BY DEF TypeOK, MembersTypeOK
  <2> DEFINE row == [member[m] EXCEPT ![ColumnOf(q)'] = ValueOf(q)']
  <2>6. copy' = [copy EXCEPT ![q] = row]
    BY <2>1, <2>4
  <2>7. ColumnOf(q)' \in Columns
    BY <2>4 DEF Columns, MemberOps
  <2>8. DOMAIN member[m] = Columns
    BY <2>5 DEF MemberRow, Columns
  <2>9. row[ColumnOf(q)'] = ValueOf(q)'
    BY <2>7, <2>8
  <2>10. \A k \in Columns : k # ColumnOf(q)' => row[k] = member[call'[q].by][k]
    BY <2>3, <2>8
  <2>11. pc'[q] \notin {"update", "done"} /\ UNCHANGED <<member, columns>>
    BY <2>1, <2>3
  <2> HIDE DEF row
  <2> QED
    BY <2>3, <2>6, <2>9, <2>10, <2>11, SaverArrives
<1>2. CASE UploadFile(q)
  <2>1. pc[q] = "upload" /\ Goto(q, "save") /\ UNCHANGED memberVars /\ "save" \in Steps
    BY <1>2 DEF UploadFile, Steps, MemberSteps
  <2>2. Moves(q) /\ call'[q] = call[q] /\ pc'[q] = "save"
    BY <1>0, <2>1, BaseGoto
  <2> QED
    BY <2>1, <2>2, SavesUntouched
<1>3. CASE SaveMember(q)
  <2>1. pc[q] = "save" /\ Goto(q, "update") /\ "update" \in Steps
    BY <1>3 DEF SaveMember, Steps, MemberSteps
  <2>2. Moves(q) /\ call'[q] = call[q]
    BY <1>0, <2>1, BaseGoto
  <2> QED
    BY <1>3, <2>2, SaverCompares
<1>4. CASE UpdateMember(q)
  <2>1. pc[q] = "update" /\ Saver(q) /\ "done" \in Steps
    BY <1>4 DEF UpdateMember, Saver, Shape, ShapeOf, Fits, SocialSteps, TimelineSteps, Steps
  <2>2. CASE Refuse(q) /\ UNCHANGED memberVars
    <3>1. Moves(q) /\ call'[q] = call[q] /\ pc'[q] = "done" /\ q \in broken'
      BY <1>0, <2>1, <2>2, BaseRefuse
    <3> QED
      BY <2>2, <3>1, SavesUntouched
  <2>3. CASE /\ member' = [member EXCEPT ![call[q].by] =
                             [c \in DOMAIN @ |-> IF c \in columns[q] THEN copy[q][c] ELSE @[c]]]
             /\ Goto(q, "done") /\ UNCHANGED <<copy, columns>>
    <3>1. Moves(q) /\ call'[q] = call[q] /\ pc'[q] = "done" /\ broken' = broken
      BY <1>0, <2>1, <2>3, BaseGoto
    <3> QED
      BY <2>1, <2>3, <3>1, SaverUpdates
  <2> QED
    BY <1>4, <2>2, <2>3 DEF UpdateMember, memberVars
<1> QED
  BY <1>1, <1>2, <1>3, <1>4 DEF MemberStep

LEMMA SavesStep ==
  ASSUME TypeOK, Shape, BeforeOver, SavesHold, [Next]_vars
  PROVE  BeforeOver' /\ SavesHold'
<1>0. Base
  BY DEF TypeOK, Base
<1>1. ASSUME NEW r \in Reqs, NEW O, Acts(r, O)
      PROVE  BeforeOver'
  BY <1>0, <1>1, BeforeMoves DEF Acts
<1>2. ASSUME NEW r \in Reqs, NEW O, Acts(r, O), O \cap MemberOps = {}, UNCHANGED memberVars
      PROVE  SavesHold'
  BY <1>2, SavesUntouched DEF Acts
<1>3. ASSUME NEW r \in Reqs, ByMembers(r)
      PROVE  BeforeOver' /\ SavesHold'
  BY <1>1, <1>3, SavesOfMembers DEF ByMembers, OfMembers
<1>4. ASSUME NEW r \in Reqs, ByPosts(r) \/ BySocialGraph(r) \/ ByFishing(r) \/ ByTimeline(r)
      PROVE  BeforeOver' /\ SavesHold'
  <2>1. PICK O \in {PostOps, SocialOps, FishingOps, TimelineOps} : Acts(r, O)
    BY <1>4 DEF ByPosts, BySocialGraph, ByFishing, ByTimeline
  <2>2. UNCHANGED memberVars
    BY <1>4 DEF ByPosts, BySocialGraph, ByFishing, ByTimeline, OfPosts, OfSocialGraph, OfFishing,
                OfTimeline
  <2>3. O \cap MemberOps = {}
    BY DEF MemberOps, PostOps, SocialOps, FishingOps, TimelineOps
  <2> QED
    BY <1>1, <1>2, <2>1, <2>2, <2>3
<1>5. ASSUME NEW r \in Reqs, ByThrow(r)
      PROVE  BeforeOver' /\ SavesHold'
  <2>1. Acts(r, AllOps) /\ Moves(r) /\ UNCHANGED memberVars /\ call'[r] = call[r]
        /\ pc'[r] = "done" /\ r \in broken'
    BY <1>5 DEF ByThrow, AllStay, Acts
  <2>2. SavesHold'
    BY <2>1, SavesUntouched
  <2> QED
    BY <1>1, <2>1, <2>2
<1>6. CASE ByEnd
  BY <1>6, BeforeEnds, SavesEnd DEF ByEnd, AllStay
<1>7. CASE UNCHANGED vars
  <2>1. BeforeOver'
    BY <1>7 DEF vars, requestVars, BeforeOver, Over
  <2>2. SavesHold'
    BY <1>7 DEF vars, requestVars, memberVars, SavesHold, SaveHolds, Carries, Stands, Handed,
                Excused, SameMember, Saver, Over, Overlap, ColumnOf, ValueOf
  <2> QED
    BY <2>1, <2>2
<1> QED
  BY <1>3, <1>4, <1>5, <1>6, <1>7, StepActs

LEMMA SavesInit ==
  ASSUME Init
  PROVE  BeforeOver /\ SavesHold
<1>1. \A r \in Reqs : ~ Saver(r)
  BY OldAssumption DEF Init, RequestsInit, NoCall, Saver, MemberOps
<1> QED
  BY <1>1 DEF Init, RequestsInit, BeforeOver, SavesHold

\* A request hands save the member as it was read when the request arrived.  What it
\* has saved stands all the same, unless another save of the member overlapped it or a
\* later one wrote the same column.
THEOREM SavesStay ==
  Spec => []SavesStand
<1> DEFINE IInv == TypeOK /\ Shape /\ BeforeOver /\ SavesHold
<1>1. Init => IInv
  BY InitShape, SavesInit
<1>2. IInv /\ [Next]_vars => IInv'
  BY StepActs, SavesStep
<1>3. IInv => SavesStand
  <2> SUFFICES ASSUME IInv, NEW r \in Reqs, Saver(r), Over(r), r \notin broken
               PROVE  Stands(r) \/ Excused(r)
    BY DEF SavesStand, Saver, MemberOps, Stands, Excused, SameMember
  <2> QED
    BY DEF SavesHold, SaveHolds
<1> QED
  BY <1>1, <1>2, <1>3, PTL DEF Spec

-----------------------------------------------------------------------------
(* The review of fishing results: what a step does to the results           *)

Quiet(r) ==
  /\ UNCHANGED fishingVars
  /\ call'[r].op \in FishingOps =>
       /\ pc[r] # "idle"
       /\ chores'[r] # {} => pc'[r] = "chores"
       /\ "saveReviewStatus" \in chores[r] => "saveReviewStatus" \in chores'[r]
       /\ pc'[r] = "done" => call[r].op # "review" \/ r \in broken' \/ pc[r] = "done"
       /\ pc'[r] = "updateResult" => review[call[r].on] = "REJECT"
       /\ pc'[r] = "chores" => pc[r] = "chores"
       /\ pc'[r] # "decide"

Arrives(r) ==
  /\ UNCHANGED fishingVars
  /\ pc[r] = "idle" /\ pc'[r] \in {"masters", "decide"} /\ chores'[r] = {}
  /\ call'[r].op \in FishingOps
  /\ call'[r].op # "register" =>
       call'[r].on \in Reqs /\ (content[call'[r].on] # Nobody \/ review[call'[r].on] # "none")
  /\ call'[r].op = "review" => call'[r].seen = content[call'[r].on]

Writes(r) ==
  /\ pc[r] = (IF call[r].op = "register" THEN "insertResult" ELSE "updateResult")
  /\ call[r].op \in {"register", "modify"}
  /\ content' = [content EXCEPT ![ResultOf(r)] = r] /\ UNCHANGED <<review, reviewed>>
  /\ pc'[r] = "chores" /\ chores'[r] = {"saveReviewStatus"}

Saves(r) ==
  /\ pc[r] = "chores" /\ pc'[r] = "chores"
  /\ call[r].op \in {"register", "modify"}
  /\ review' = [review EXCEPT ![ResultOf(r)] = "APPLY"] /\ UNCHANGED <<content, reviewed>>

Decides(r) ==
  /\ pc[r] = "decide" /\ pc'[r] = "done" /\ chores'[r] = {}
  /\ call[r].op = "review" /\ call[r].as \in {"APPROVE", "REJECT"}
  /\ review' = [review EXCEPT ![call[r].on] = call[r].as]
  /\ reviewed' = [reviewed EXCEPT ![call[r].on] = call[r].seen]
  /\ UNCHANGED content

Effect(r) == Moves(r) /\ (Quiet(r) \/ Arrives(r) \/ Writes(r) \/ Saves(r) \/ Decides(r))

(* Only an edit of a post may break off with its chore out.                 *)
ChoresOut == \A r \in Reqs : call[r].op \in FishingOps /\ chores[r] # {} => pc[r] = "chores"

LEMMA FishingEffect ==
  ASSUME TypeOK, Shape, ChoresOut, NEW r \in Reqs, FishingStep(r)
  PROVE  Effect(r)
<1>0. Base /\ Moves(r)
  BY FishingActs DEF TypeOK, Base, Acts
<1>1. CASE RegisterResult(r) \/ RegisterOtherLures(r) \/ ModifyResult(r) \/ ModifyOtherLures(r)
           \/ AdminUpdate(r)
  <2>1. PICK c \in FishingCalls, l \in {"masters", "decide"} :
          /\ Arrive(r, c, l) /\ UNCHANGED fishingVars
          /\ c.op \in FishingOps
          /\ c.op # "register" => c.on \in Reqs /\ (content[c.on] # Nobody \/ review[c.on] # "none")
          /\ c.op = "review" => c.seen = content[c.on]
    <3>1. CASE RegisterResult(r) \/ RegisterOtherLures(r)
      <4>1. PICK b \in ApplyRequest \cup ApplyRequestForOtherLures :
              Arrive(r, ToRegisterModel(b), "masters") /\ UNCHANGED fishingVars
        BY <3>1 DEF RegisterResult, RegisterOtherLures, RegisterAs
      <4>2. ToRegisterModel(b).op = "register" /\ ToRegisterModel(b) \in FishingCalls
        BY DEF ToRegisterModel, FishingCalls, ApplyRequest, ApplyRequestForOtherLures
      <4> QED
        BY <4>1, <4>2 DEF FishingOps
    <3>2. CASE ModifyResult(r) \/ ModifyOtherLures(r)
      <4>1. PICK b \in ApplyRequest \cup ApplyRequestForOtherLures, x \in Reqs :
              content[x] # Nobody /\ Arrive(r, ToModifyModel(x, b), "masters") /\ UNCHANGED fishingVars
        BY <3>2 DEF ModifyResult, ModifyOtherLures, ModifyAs
      <4>2. /\ ToModifyModel(x, b).op = "modify" /\ ToModifyModel(x, b).on = x
            /\ ToModifyModel(x, b) \in FishingCalls
        BY DEF ToModifyModel, FishingCalls, ApplyRequest, ApplyRequestForOtherLures
      <4> QED
        BY <4>1, <4>2 DEF FishingOps
    <3>3. CASE AdminUpdate(r)
      <4>1. PICK x \in Reqs, v \in {"APPROVE", "REJECT"} :
              /\ review[x] # "none" /\ UNCHANGED fishingVars
              /\ Arrive(r, [op |-> "review", on |-> x, as |-> v, seen |-> content[x]], "decide")
        BY <3>3 DEF AdminUpdate
      <4>2. [op |-> "review", on |-> x, as |-> v, seen |-> content[x]] \in FishingCalls
        BY DEF FishingCalls, TypeOK, FishingTypeOK
      <4> QED
        BY <4>1, <4>2 DEF FishingOps
    <3> QED
      BY <1>1, <3>1, <3>2, <3>3
  <2>2. pc[r] = "idle" /\ pc'[r] = l /\ call'[r] = c /\ chores'[r] = chores[r]
    BY <1>0, <2>1 DEF Arrive, Base
  <2>3. chores[r] = {}
    BY <2>2 DEF Shape, ShapeOf
  <2> QED
    BY <1>0, <2>1, <2>2, <2>3 DEF Effect, Arrives
<1>2. CASE CheckExistsMasterId(r) \/ CheckLatestReject(r)
  <2>1. pc[r] \in {"masters", "latest"} /\ pc[r] \in FishingSteps
    BY <1>2 DEF CheckExistsMasterId, CheckLatestReject, FishingSteps
  <2>2. call[r].op \in {"register", "modify"} /\ chores[r] = {}
    BY <1>0, <2>1, FishingLabel DEF Shape, ShapeOf
  <2>3. /\ chores'[r] = {} /\ call'[r] = call[r] /\ UNCHANGED fishingVars
        /\ \/ pc'[r] \in {"insertResult", "latest", "done"}
           \/ pc'[r] = "updateResult" /\ review[call[r].on] = "REJECT"
    BY <1>0, <1>2, <2>2 DEF CheckExistsMasterId, CheckLatestReject, Goto, Refuse, Base,
                       FindLatestByFishingResultId
  <2> QED
    BY <1>0, <2>1, <2>2, <2>3 DEF Effect, Quiet
<1>3. CASE InsertResult(r) \/ UpdateResult(r)
  <2>1. /\ pc[r] \in {"insertResult", "updateResult"} /\ Leave(r, {"saveReviewStatus"})
        /\ pc[r] \in FishingSteps /\ UNCHANGED <<review, reviewed>>
    BY <1>3 DEF InsertResult, UpdateResult, FishingSteps
  <2>2. call[r].op = (IF pc[r] = "insertResult" THEN "register" ELSE "modify")
    BY <1>0, <2>1, FishingLabel
  <2>3. content' = [content EXCEPT ![ResultOf(r)] = r]
    BY <1>3, <2>2 DEF InsertResult, UpdateResult, WriteResult, ResultOf
  <2>4. pc'[r] = "chores" /\ chores'[r] = {"saveReviewStatus"}
    BY <1>0, <2>1 DEF Leave, Base
  <2> QED
    BY <1>0, <2>1, <2>2, <2>3, <2>4 DEF Effect, Writes
<1>4. CASE SaveReviewStatus(r)
  <2>1. "saveReviewStatus" \in chores[r] /\ FinishChore(r, "saveReviewStatus", {"log"})
    BY <1>4 DEF SaveReviewStatus
  <2>2. call[r].op \in {"register", "modify"}
    BY <2>1 DEF Shape, ShapeOf, ChoresOf
  <2>3. pc[r] = "chores"
    BY <2>1, <2>2 DEF ChoresOut, FishingOps
  <2>4. pc'[r] = "chores"
    BY <1>0, <2>1, <2>3 DEF FinishChore, Base
  <2> QED
    BY <1>0, <1>4, <2>2, <2>3, <2>4 DEF Effect, Saves, SaveReviewStatus, SaveStatus
<1>5. CASE InsertLog(r)
  <2>1. "log" \in chores[r] /\ FinishChore(r, "log", {}) /\ UNCHANGED fishingVars
    BY <1>5 DEF InsertLog
  <2>2. call[r].op \in {"register", "modify"}
    BY <2>1 DEF Shape, ShapeOf, ChoresOf
  <2>3. pc[r] = "chores"
    BY <2>1, <2>2 DEF ChoresOut, FishingOps
  <2>4. /\ chores'[r] = chores[r] \ {"log"} /\ call'[r] = call[r]
        /\ pc'[r] = (IF chores'[r] = {} THEN "done" ELSE "chores")
    BY <1>0, <2>1, <2>3 DEF FinishChore, Base
  <2> QED
    BY <1>0, <2>1, <2>2, <2>3, <2>4 DEF Effect, Quiet
<1>6. CASE Decide(r)
  <2>1. pc[r] = "decide" /\ Goto(r, "done")
    BY <1>6 DEF Decide
  <2>2. call[r].op = "review" /\ chores[r] = {}
    BY <1>0, <2>1, FishingLabel DEF FishingSteps, Shape, ShapeOf
  <2>3. call[r].as \in {"APPROVE", "REJECT"}
    <3>1. call[r] \in FishingCalls
      BY <1>0, <2>2, FishingCall DEF FishingOps
    <3> QED
      BY <2>2, <3>1 DEF FishingCalls
  <2>4. pc'[r] = "done" /\ chores'[r] = {}
    BY <1>0, <2>1, <2>2 DEF Goto, Base
  <2> QED
    BY <1>0, <1>6, <2>1, <2>2, <2>3, <2>4 DEF Effect, Decides, Decide
<1> QED
  BY <1>1, <1>2, <1>3, <1>4, <1>5, <1>6 DEF FishingStep

LEMMA RequestEffect ==
  ASSUME TypeOK, Shape, ChoresOut, NEW q \in Reqs, ByRequest(q)
  PROVE  Effect(q)
<1>1. ASSUME NEW r \in Reqs, ByFishing(r)
      PROVE  Effect(r)
  BY <1>1, FishingEffect DEF ByFishing, OfFishing
<1>2. ASSUME NEW r \in Reqs, ByMembers(r) \/ ByPosts(r) \/ BySocialGraph(r) \/ ByTimeline(r)
      PROVE  Effect(r)
  <2>1. /\ Moves(r) /\ UNCHANGED fishingVars
        /\ call'[r].op \in MemberOps \cup PostOps \cup SocialOps \cup TimelineOps
    BY <1>2 DEF ByMembers, ByPosts, BySocialGraph, ByTimeline, OfMembers, OfPosts, OfSocialGraph,
                OfTimeline, Acts
  <2> QED
    BY <2>1 DEF Effect, Quiet, MemberOps, PostOps, SocialOps, FishingOps, TimelineOps
<1>3. ASSUME NEW r \in Reqs, ByThrow(r)
      PROVE  Effect(r)
  <2>1. /\ Moves(r) /\ UNCHANGED fishingVars /\ call'[r] = call[r] /\ chores'[r] = chores[r]
        /\ pc'[r] = "done" /\ r \in broken' /\ pc[r] \notin {"idle", "chores"}
    BY <1>3 DEF ByThrow, AllStay, Acts
  <2>2. call[r].op \in FishingOps => chores[r] = {}
    BY <2>1 DEF ChoresOut
  <2> QED
    BY <2>1, <2>2 DEF Effect, Quiet
<1> QED
  BY <1>1, <1>2, <1>3 DEF ByRequest

(* Every step has one of these effects, or ends the process.                *)
LEMMA StepEffect ==
  ASSUME TypeOK, Shape, ChoresOut, [Next]_vars
  PROVE  \/ \E r \in Reqs : Effect(r)
         \/ Ends /\ UNCHANGED fishingVars
         \/ UNCHANGED vars
BY StepActs, RequestEffect DEF ByRequest, ByEnd, AllStay

-----------------------------------------------------------------------------
(* The review of fishing results: what holds of them                        *)

ResultsRegistered ==
  \A x \in Reqs : (content[x] # Nobody \/ review[x] # "none") => call[x].op = "register"

AboutRegistered ==
  \A r \in Reqs : call[r].op \in {"modify", "review"} =>
    /\ call[r].on \in Reqs /\ call[call[r].on].op = "register"
    /\ r \notin before[call[r].on]

WrittenAbout ==
  \A x \in Reqs : content[x] # Nobody =>
    call[content[x]].op \in {"register", "modify"} /\ ResultOf(content[x]) = x

SaveOut(r) == "saveReviewStatus" \in chores[r] \/ r \in broken

(* A result gets a status, and a rewritten one applies again.               *)
Applies ==
  /\ \A x \in Reqs : content[x] # Nobody =>
       /\ review[x] = "none" => SaveOut(x)
       /\ review[x] = "APPROVE" =>
            content[x] = reviewed[x] \/ SaveOut(content[x]) \/ ApprovedUnseen(x)
  /\ \A r \in Reqs : pc[r] = "updateResult" => review[call[r].on] # "none"

(* A result that is not as the reviewer saw it was written meanwhile.       *)
InSight ==
  \A a \in Reqs : call[a].op = "review" /\ pc[a] = "decide" =>
    \/ call[a].seen = content[call[a].on]
    \/ content[call[a].on] # Nobody /\ Overlap(a, content[call[a].on])

Registry ==
  /\ ChoresOut /\ BeforeOver /\ ResultsRegistered /\ AboutRegistered /\ WrittenAbout
  /\ InSight /\ Applies

LEMMA FishingKept ==
  ASSUME Shape, NEW q \in Reqs, Moves(q) \/ Ends, NEW r \in Reqs, call[r].op # "none"
  PROVE  /\ call'[r] = call[r] /\ before'[r] = before[r] /\ pc[r] # "idle" /\ pc'[r] # "idle"
         /\ ResultOf(r)' = ResultOf(r)
<1>1. pc[r] # "idle"
  BY DEF Shape, ShapeOf, Fits, MemberSteps, SocialSteps, TimelineSteps
<1>2. call'[r] = call[r] /\ before'[r] = before[r] /\ pc'[r] # "idle"
  BY <1>1 DEF Moves, Ends, Underway
<1> QED
  BY <1>1, <1>2 DEF ResultOf

LEMMA RegisteredKept ==
  ASSUME TypeOK, Shape, Registry, NEW r \in Reqs, Effect(r)
  PROVE  ResultsRegistered' /\ AboutRegistered'
<1>0. /\ Moves(r) /\ \A q \in Reqs : call[q].op # "none" => call'[q] = call[q]
      /\ BeforeOver /\ ResultsRegistered /\ AboutRegistered
  BY CallsStay DEF Effect, Registry
<1>1. ASSUME NEW x \in Reqs, content'[x] # Nobody \/ review'[x] # "none"
      PROVE  call'[x].op = "register"
  <2>1. CASE content'[x] = content[x] /\ review'[x] = review[x]
    BY <1>0, <1>1, <2>1 DEF ResultsRegistered
  <2>2. CASE content'[x] # content[x] \/ review'[x] # review[x]
    <3>1. call[r].op \in FishingOps /\ ResultOf(r) = x
      BY <2>2 DEF Effect, Quiet, Arrives, Writes, Saves, Decides, fishingVars, TypeOK,
                  FishingTypeOK, FishingOps, ResultOf
    <3>2. call[x].op = "register"
      BY <1>0, <3>1 DEF AboutRegistered, ResultOf, FishingOps
    <3> QED
      BY <1>0, <3>2
  <2> QED
    BY <2>1, <2>2
<1>2. ASSUME NEW q \in Reqs, call'[q].op \in {"modify", "review"}
      PROVE  /\ call'[q].on \in Reqs /\ call'[call'[q].on].op = "register"
             /\ q \notin before'[call'[q].on]
  <2>1. CASE call'[q] = call[q]
    <3>1. /\ call[q].on \in Reqs /\ call[call[q].on].op = "register" /\ q \notin before[call[q].on]
      BY <1>0, <1>2, <2>1 DEF AboutRegistered
    <3>2. call'[call[q].on] = call[call[q].on] /\ before'[call[q].on] = before[call[q].on]
      BY <1>0, <3>1, FishingKept
    <3> QED
      BY <2>1, <3>1, <3>2
  <2>2. CASE call'[q] # call[q]
    <3>1. q = r /\ pc[r] = "idle"
      BY <1>0, <2>2 DEF Moves
    <3>2. Arrives(r)
      BY <1>2, <3>1 DEF Effect, Quiet, Arrives, Writes, Saves, Decides, FishingOps
    <3>3. /\ call'[r].on \in Reqs /\ call[call'[r].on].op = "register"
      BY <1>0, <1>2, <3>1, <3>2 DEF Arrives, ResultsRegistered
    <3>4. r \notin before[call'[r].on]
      BY <1>0, <3>1, <3>3 DEF BeforeOver, Over
    <3>5. call'[call'[r].on] = call[call'[r].on] /\ before'[call'[r].on] = before[call'[r].on]
      BY <1>0, <3>3, FishingKept
    <3> QED
      BY <3>1, <3>3, <3>4, <3>5
  <2> QED
    BY <2>1, <2>2
<1> QED
  BY <1>1, <1>2 DEF ResultsRegistered, AboutRegistered

LEMMA ChoresKept ==
  ASSUME TypeOK, Shape, Registry, NEW r \in Reqs, Effect(r)
  PROVE  ChoresOut' /\ BeforeOver'
<1>1. Moves(r) /\ ChoresOut /\ BeforeOver /\ Base
  BY DEF Effect, Registry, TypeOK, Base
<1>2. BeforeOver'
  BY <1>1, BeforeMoves
<1>3. ASSUME NEW q \in Reqs, call'[q].op \in FishingOps, chores'[q] # {}
      PROVE  pc'[q] = "chores"
  <2>1. CASE q = r
    BY <1>3, <2>1 DEF Effect, Quiet, Arrives, Writes, Saves, Decides
  <2>2. CASE q # r
    BY <1>1, <1>3, <2>2 DEF Moves, ChoresOut
  <2> QED
    BY <2>1, <2>2
<1> QED
  BY <1>2, <1>3 DEF ChoresOut

LEMMA WrittenKept ==
  ASSUME TypeOK, Shape, Registry, NEW r \in Reqs, Effect(r)
  PROVE  WrittenAbout'
<1>0. Moves(r) /\ WrittenAbout
  BY DEF Effect, Registry
<1> SUFFICES ASSUME NEW x \in Reqs, content'[x] # Nobody
             PROVE  (call[content[x]].op \in {"register", "modify"} /\ ResultOf(content[x]) = x)'
  BY DEF WrittenAbout
<1>1. CASE content'[x] = content[x]
  <2>1. /\ content[x] \in Reqs /\ call[content[x]].op \in {"register", "modify"}
        /\ ResultOf(content[x]) = x
    BY <1>0, <1>1 DEF WrittenAbout, TypeOK, FishingTypeOK
  <2>2. call'[content[x]] = call[content[x]]
    BY <1>0, <2>1, FishingKept
  <2> QED
    BY <1>1, <2>1, <2>2 DEF ResultOf
<1>2. CASE content'[x] # content[x]
  <2>1. Writes(r)
    BY <1>2 DEF Effect, Quiet, Arrives, Saves, Decides, fishingVars
  <2>2. content'[x] = r /\ ResultOf(r) = x /\ call[r].op \in {"register", "modify"}
    BY <1>2, <2>1 DEF Writes, TypeOK, FishingTypeOK
  <2>3. call'[r] = call[r]
    BY <1>0, <2>2, FishingKept
  <2> QED
    BY <2>2, <2>3 DEF ResultOf
<1> QED
  BY <1>1, <1>2

LEMMA SaveOutKept ==
  ASSUME TypeOK, Shape, NEW r \in Reqs, Effect(r), NEW q \in Reqs, SaveOut(q),
         call[q].op \in {"register", "modify"}, Saves(r) => q # r
  PROVE  SaveOut(q)'
<1>1. Moves(r) /\ broken \subseteq broken'
  BY DEF Effect, Moves
<1>2. call'[q].op \in FishingOps
  BY <1>1, FishingKept DEF FishingOps
<1>3. CASE q = r /\ q \notin broken
  <2>1. chores[r] # {}
    BY <1>3 DEF SaveOut
  <2>2. pc[r] # "idle" /\ pc[r] \in {"savePost", "chores", "done"}
    BY <2>1 DEF Shape, ShapeOf
  <2> QED
    BY <1>2, <1>3, <2>2 DEF Effect, Quiet, Arrives, Writes, Decides, SaveOut
<1>4. CASE q # r
  BY <1>1, <1>4 DEF Moves, SaveOut
<1>5. CASE q \in broken
  BY <1>1, <1>5 DEF SaveOut
<1> QED
  BY <1>3, <1>4, <1>5

LEMMA OverlapKept ==
  ASSUME Shape, NEW q \in Reqs, Moves(q) \/ Ends, NEW a \in Reqs, NEW s \in Reqs,
         call[a].op # "none", call[s].op # "none", Overlap(a, s)
  PROVE  Overlap(a, s)'
BY FishingKept DEF Overlap

LEMMA UnseenKept ==
  ASSUME TypeOK, Shape, Registry, NEW q \in Reqs, Moves(q) \/ Ends, NEW x \in Reqs,
         content[x] # Nobody, content'[x] = content[x], reviewed'[x] = reviewed[x],
         ApprovedUnseen(x)
  PROVE  ApprovedUnseen(x)'
<1>1. PICK a \in Reqs :
        /\ call[a].op = "review" /\ call[a].on = x /\ call[a].as = "APPROVE"
        /\ call[a].seen = reviewed[x] /\ Overlap(a, content[x])
  BY DEF ApprovedUnseen
<1>2. content[x] \in Reqs /\ call[content[x]].op \in {"register", "modify"}
  BY DEF Registry, WrittenAbout, TypeOK, FishingTypeOK
<1>3. \A s \in Reqs : call[s].op # "none" /\ Overlap(a, s) => Overlap(a, s)'
  BY <1>1, OverlapKept
<1>4. call'[a] = call[a]
  BY <1>1, FishingKept
<1>5. Overlap(a, content[x])'
  <2>1. ASSUME NEW s \in Reqs, s = content[x]
        PROVE  Overlap(a, content[x])'
    <3>1. Overlap(a, s)'
      BY <1>1, <1>2, <1>3, <2>1
    <3> QED
      BY <2>1, <3>1 DEF Overlap
  <2> QED
    BY <1>2, <2>1
<1> QED
  BY <1>1, <1>4, <1>5 DEF ApprovedUnseen

LEMMA InSightKept ==
  ASSUME TypeOK, Shape, Registry, AboutRegistered', NEW r \in Reqs, Effect(r)
  PROVE  InSight'
<1>0. Moves(r) /\ BeforeOver /\ AboutRegistered /\ WrittenAbout /\ InSight
  BY DEF Effect, Registry
<1> SUFFICES ASSUME NEW a \in Reqs, call'[a].op = "review", pc'[a] = "decide"
             PROVE  \/ call'[a].seen = content'[call'[a].on]
                    \/ content'[call'[a].on] # Nobody /\ Overlap(a, content[call[a].on])'
  BY DEF InSight
<1>1. call'[a].on \in Reqs
  BY DEF AboutRegistered
<1>2. CASE a = r /\ pc[a] = "idle"
  BY <1>2 DEF Effect, Quiet, Arrives, Writes, Saves, Decides, FishingOps, fishingVars
<1>3. CASE ~(a = r /\ pc[a] = "idle")
  <2>1. call'[a] = call[a] /\ before'[a] = before[a] /\ pc[a] = "decide" /\ pc[a] # "idle"
    BY <1>0, <1>3 DEF Effect, Quiet, Arrives, Writes, Saves, Decides, FishingOps, Moves
  <2> DEFINE x == call[a].on
  <2>2. CASE Writes(r) /\ ResultOf(r) = x
    <3>1. content'[x] = r /\ pc[r] \in {"insertResult", "updateResult"} /\ pc'[r] = "chores"
      BY <1>1, <2>1, <2>2 DEF Writes, TypeOK, FishingTypeOK
    <3>2. r # a /\ r \notin before[a] /\ a \notin before[r] /\ before'[r] = before[r]
      BY <1>0, <2>1, <3>1 DEF BeforeOver, Over, Moves
    <3> QED
      BY <2>1, <3>1, <3>2, NobodyAssumption DEF Overlap
  <2>3. CASE ~(Writes(r) /\ ResultOf(r) = x)
    <3>1. content'[x] = content[x]
      BY <1>1, <2>1, <2>3 DEF Effect, Quiet, Arrives, Writes, Saves, Decides, fishingVars, TypeOK,
                              FishingTypeOK
    <3>2. CASE call[a].seen = content[x]
      BY <2>1, <3>1, <3>2
    <3>3. CASE content[x] # Nobody /\ Overlap(a, content[x])
      <4>1. content[x] \in Reqs /\ call[content[x]].op # "none"
        BY <1>0, <1>1, <2>1, <3>3 DEF WrittenAbout, TypeOK, FishingTypeOK
      <4>2. call[a].op = "review"
        BY <2>1
      <4>3. ASSUME NEW s \in Reqs, s = content[x], Overlap(a, s)
            PROVE  Overlap(a, content[call[a].on])'
        <5>1. Overlap(a, s)'
          BY <1>0, <4>1, <4>2, <4>3, OverlapKept
        <5> QED
          BY <2>1, <3>1, <4>3, <5>1 DEF Overlap
      <4> QED
        BY <2>1, <3>1, <3>3, <4>1, <4>3
    <3> QED
      BY <1>0, <2>1, <3>2, <3>3 DEF InSight
  <2> QED
    BY <2>2, <2>3
<1> QED
  BY <1>2, <1>3

LEMMA AppliesKept ==
  ASSUME TypeOK, Shape, Shape', Registry, NEW r \in Reqs, Effect(r)
  PROVE  Applies'
<1>0. /\ Moves(r) /\ ResultsRegistered /\ AboutRegistered /\ WrittenAbout /\ InSight /\ Applies
  BY DEF Effect, Registry
<1>1. \A x \in Reqs : review[x] # "none" => review'[x] # "none"
  BY DEF Effect, Quiet, Arrives, Writes, Saves, Decides, fishingVars, TypeOK, FishingTypeOK
<1>2. ASSUME NEW q \in Reqs, pc'[q] = "updateResult"
      PROVE  review'[call'[q].on] # "none"
  <2>1. call'[q].op = "modify"
    BY <1>2 DEF Shape, ShapeOf, Fits, MemberSteps, SocialSteps, TimelineSteps
  <2>2. pc[q] # "idle"
    BY <1>0, <1>2, <2>1 DEF Effect, Quiet, Arrives, Writes, Saves, Decides, FishingOps, Moves
  <2>3. call'[q] = call[q] /\ call[q].on \in Reqs
    BY <1>0, <2>1, <2>2 DEF Moves, AboutRegistered
  <2>4. review[call[q].on] # "none"
    <3>1. CASE q = r
      BY <1>2, <2>1, <3>1 DEF Effect, Quiet, Arrives, Writes, Saves, Decides, FishingOps
    <3>2. CASE q # r
      BY <1>0, <1>2, <3>2 DEF Moves, Applies
    <3> QED
      BY <3>1, <3>2
  <2> QED
    BY <1>1, <2>3, <2>4
<1>3. ASSUME NEW x \in Reqs, content'[x] # Nobody, review'[x] = "none"
      PROVE  SaveOut(x)'
  <2>1. review[x] = "none"
    BY <1>1, <1>3
  <2>2. CASE content[x] # Nobody
    <3>1. SaveOut(x) /\ call[x].op = "register"
      BY <1>0, <2>1, <2>2 DEF Applies, ResultsRegistered
    <3>2. Saves(r) => x # r
      BY <1>3, <3>1 DEF Saves, ResultOf, TypeOK, FishingTypeOK
    <3> QED
      BY <3>1, <3>2, SaveOutKept
  <2>3. CASE content[x] = Nobody
    <3>1. Writes(r) /\ ResultOf(r) = x
      BY <1>3, <2>3 DEF Effect, Quiet, Arrives, Writes, Saves, Decides, fishingVars, TypeOK,
                       FishingTypeOK
    <3>2. call[r].op = "register"
      BY <1>0, <2>1, <3>1 DEF Writes, ResultOf, Applies
    <3> QED
      BY <3>1, <3>2 DEF Writes, ResultOf, SaveOut
  <2> QED
    BY <2>2, <2>3
<1>4. ASSUME NEW x \in Reqs, content'[x] # Nobody, review'[x] = "APPROVE"
      PROVE  content'[x] = reviewed'[x] \/ SaveOut(content[x])' \/ ApprovedUnseen(x)'
  <2>1. CASE Decides(r) /\ call[r].on = x
    <3>1. /\ content' = content /\ reviewed'[x] = call[r].seen /\ call[r].op = "review"
          /\ call[r].as = "APPROVE" /\ pc[r] = "decide"
      BY <1>4, <2>1 DEF Decides, TypeOK, FishingTypeOK
    <3>2. call'[r] = call[r]
      BY <1>0, <3>1, FishingKept
    <3>3. call[r].seen = content[x] \/ Overlap(r, content[x])
      BY <1>0, <2>1, <3>1 DEF InSight
    <3>4. content[x] \in Reqs /\ call[content[x]].op # "none"
      BY <1>0, <1>4, <3>1 DEF WrittenAbout, TypeOK, FishingTypeOK
    <3>5. ASSUME NEW s \in Reqs, s = content[x], Overlap(r, s)
          PROVE  Overlap(r, content[x])'
      <4>1. Overlap(r, s)'
        BY <1>0, <3>1, <3>4, <3>5, OverlapKept
      <4> QED
        BY <3>1, <3>5, <4>1 DEF Overlap
    <3> QED
      BY <2>1, <3>1, <3>2, <3>3, <3>4, <3>5 DEF ApprovedUnseen
  <2>2. CASE Writes(r) /\ ResultOf(r) = x
    <3>1. content'[x] = r /\ "saveReviewStatus" \in chores'[r]
      BY <2>2 DEF Writes, TypeOK, FishingTypeOK
    <3> QED
      BY <3>1 DEF SaveOut
  <2>3. CASE ~(Decides(r) /\ call[r].on = x) /\ ~(Writes(r) /\ ResultOf(r) = x)
    <3>1. content'[x] = content[x] /\ review[x] = "APPROVE" /\ reviewed'[x] = reviewed[x]
      BY <1>4, <2>3 DEF Effect, Quiet, Arrives, Writes, Saves, Decides, fishingVars, TypeOK,
                       FishingTypeOK
    <3>2. CASE content[x] = reviewed[x]
      BY <3>1, <3>2
    <3>3. CASE SaveOut(content[x])
      <4>1. /\ content[x] \in Reqs /\ call[content[x]].op \in {"register", "modify"}
            /\ ResultOf(content[x]) = x
        BY <1>0, <1>4, <3>1 DEF WrittenAbout, TypeOK, FishingTypeOK
      <4>2. Saves(r) => content[x] # r
        BY <1>4, <4>1 DEF Saves, TypeOK, FishingTypeOK
      <4>3. \A c \in Reqs : c = content[x] => SaveOut(c)'
        BY <3>3, <4>1, <4>2, SaveOutKept
      <4> QED
        BY <3>1, <4>1, <4>3 DEF SaveOut
    <3>4. CASE ApprovedUnseen(x)
      BY <1>0, <1>4, <3>1, <3>4, UnseenKept
    <3> QED
      BY <1>0, <1>4, <3>1, <3>2, <3>3, <3>4 DEF Applies
  <2> QED
    BY <2>1, <2>2, <2>3
<1> QED
  BY <1>2, <1>3, <1>4 DEF Applies

LEMMA RegistryEnds ==
  ASSUME TypeOK, Shape, Registry, Ends, UNCHANGED fishingVars
  PROVE  Registry'
<1>0. /\ call' = call /\ before' = before /\ UNCHANGED <<content, review, reviewed>>
      /\ \A q \in Reqs : chores'[q] = {} /\ broken \subseteq broken'
  BY DEF Ends, fishingVars
<1>1. ChoresOut' /\ BeforeOver'
  BY <1>0, BeforeEnds DEF Registry, ChoresOut
<1>2. ResultsRegistered' /\ AboutRegistered' /\ WrittenAbout'
  BY <1>0 DEF Registry, ResultsRegistered, AboutRegistered, WrittenAbout, ResultOf
<1>3. ASSUME NEW q \in Reqs, SaveOut(q)
      PROVE  SaveOut(q)'
  <2>1. Underway(q) \/ q \in broken
    BY <1>3 DEF SaveOut, Shape, ShapeOf, Underway
  <2> QED
    BY <2>1 DEF Ends, SaveOut
<1>4. ASSUME NEW x \in Reqs, content[x] # Nobody
      PROVE  /\ review[x] = "none" => SaveOut(x)'
             /\ review[x] = "APPROVE" =>
                  content[x] = reviewed[x] \/ SaveOut(content[x])' \/ ApprovedUnseen(x)'
  <2>1. content[x] \in Reqs
    BY <1>4 DEF TypeOK, FishingTypeOK
  <2>3. ApprovedUnseen(x) => ApprovedUnseen(x)'
    BY <1>0, <1>4, UnseenKept
  <2>2. SaveOut(content[x]) => SaveOut(content[x])'
    BY <1>0, <1>3, <2>1 DEF SaveOut
  <2> QED
    BY <1>3, <1>4, <2>2, <2>3 DEF Registry, Applies
<1>5. \A r \in Reqs : pc'[r] = "updateResult" => review[call[r].on] # "none"
  BY DEF Ends, Registry, Applies
<1>6. Applies'
  BY <1>0, <1>4, <1>5 DEF Applies
<1>7. InSight'
  BY DEF Ends, Underway, Registry, InSight
<1> QED
  BY <1>1, <1>2, <1>6, <1>7 DEF Registry

-----------------------------------------------------------------------------
(* An approval                                                              *)

Approval(a) == call[a].op = "review" /\ call[a].as = "APPROVE" /\ Over(a) /\ a \notin broken
Approved(x) == review[x] = "APPROVE" /\ content[x] = reviewed[x]

Disturbed(a) ==
  \E s \in Reqs :
    /\ AboutResult(s, ResultOf(a))
    /\ Overlap(a, s) \/ (call[s].op = "review" /\ a \in before[s])

(* Who arrived after the approval has not got past the check.               *)
KeptOut(a) ==
  \A s \in Reqs : call[s].op = "modify" /\ call[s].on = call[a].on /\ a \in before[s] =>
    pc[s] \notin {"updateResult", "chores"}

ApprovalsHold ==
  \A a \in Reqs : Approval(a) => Disturbed(a) \/ (Approved(call[a].on) /\ KeptOut(a))

LEMMA DisturbedStays ==
  ASSUME Shape, NEW q \in Reqs, Moves(q) \/ Ends, NEW a \in Reqs, call[a].op = "review",
         Disturbed(a)
  PROVE  Disturbed(a)'
<1>1. PICK s \in Reqs :
        /\ AboutResult(s, ResultOf(a))
        /\ Overlap(a, s) \/ (call[s].op = "review" /\ a \in before[s])
  BY DEF Disturbed
<1>2. /\ call'[a] = call[a] /\ before'[a] = before[a] /\ pc'[a] # "idle"
      /\ ResultOf(a)' = ResultOf(a)
  BY FishingKept
<1>3. call[s].op \in FishingOps /\ ResultOf(s) = ResultOf(a)
  BY <1>1 DEF AboutResult, FishingOps
<1>4. /\ call'[s] = call[s] /\ before'[s] = before[s] /\ pc'[s] # "idle"
      /\ ResultOf(s)' = ResultOf(s)
  BY <1>3, FishingKept DEF FishingOps
<1>5. AboutResult(s, ResultOf(a))'
  BY <1>2, <1>3, <1>4 DEF AboutResult, FishingOps
<1>6. Overlap(a, s) => Overlap(a, s)'
  BY <1>2, <1>4 DEF Overlap
<1> QED
  BY <1>1, <1>4, <1>5, <1>6 DEF Disturbed

(* Of the requests about an approved result that have not disturbed the     *)
(* approval, only modifications that arrived after it are under way.        *)
LEMMA OnlyModify ==
  ASSUME Shape, BeforeOver, AboutRegistered, NEW a \in Reqs, call[a].op = "review", Over(a),
         ~ Disturbed(a), NEW s \in Reqs, call[s].op \in FishingOps, ResultOf(s) = call[a].on,
         pc[s] # "done"
  PROVE  call[s].op = "modify" /\ a \in before[s]
<1>1. AboutResult(s, ResultOf(a)) /\ ResultOf(a) = call[a].on
  BY DEF AboutResult, ResultOf, FishingOps
<1>2. ~ Overlap(a, s) /\ ~(call[s].op = "review" /\ a \in before[s])
  BY <1>1 DEF Disturbed
<1>3. pc[a] # "idle" /\ pc[s] # "idle" /\ a # s /\ s \notin before[a]
  BY FishingKept DEF BeforeOver, Over, Shape, ShapeOf, Fits, MemberSteps, SocialSteps,
                     TimelineSteps, FishingOps
<1>4. a \in before[s]
  BY <1>2, <1>3 DEF Overlap
<1>5. call[s].op # "register"
  BY <1>4 DEF AboutRegistered, ResultOf
<1> QED
  BY <1>2, <1>4, <1>5 DEF FishingOps

LEMMA ApprovalsKept ==
  ASSUME TypeOK, Shape, Registry, ApprovalsHold, NEW r \in Reqs, Effect(r)
  PROVE  ApprovalsHold'
<1>0. /\ Moves(r) /\ BeforeOver /\ AboutRegistered /\ WrittenAbout /\ InSight
  BY DEF Effect, Registry
<1> SUFFICES ASSUME NEW a \in Reqs, Approval(a)'
             PROVE  Disturbed(a)' \/ (Approved(call[a].on)' /\ KeptOut(a)')
  BY DEF ApprovalsHold
<1>1. call'[a].op = "review" /\ call'[a].as = "APPROVE" /\ pc'[a] = "done" /\ a \notin broken'
  BY DEF Approval, Over
<1>2. pc[a] # "idle" /\ call'[a] = call[a]
  BY <1>0, <1>1 DEF Effect, Quiet, Arrives, Writes, Saves, Decides, Moves, FishingOps
<1>3. call[a].on \in Reqs
  BY <1>0, <1>1, <1>2 DEF AboutRegistered
<1>4. CASE a = r /\ Decides(r)
  <2> DEFINE x == call[a].on
  <2>1. CASE call[a].seen = content[x]
    <3>1. Approved(call[a].on)'
      BY <1>1, <1>2, <1>3, <1>4, <2>1 DEF Decides, Approved, TypeOK, FishingTypeOK
    <3>2. ASSUME NEW s \in Reqs, call'[s].op = "modify"
          PROVE  a \notin before'[s]
      <4>1. s # r /\ before'[s] = before[s]
        BY <1>0, <1>1, <1>4, <3>2 DEF Moves
      <4> QED
        BY <1>0, <1>4, <4>1 DEF Decides, BeforeOver, Over
    <3> QED
      BY <3>1, <3>2 DEF KeptOut
  <2>2. CASE call[a].seen # content[x]
    <3>1. content[x] # Nobody /\ Overlap(a, content[x]) /\ call[a].op = "review"
      BY <1>0, <1>4, <2>2 DEF Decides, InSight
    <3>2. content[x] \in Reqs /\ call[content[x]].op \in {"register", "modify"}
          /\ ResultOf(content[x]) = x
      BY <1>0, <1>3, <3>1 DEF WrittenAbout, TypeOK, FishingTypeOK
    <3>3. Disturbed(a)
      BY <3>1, <3>2 DEF Disturbed, AboutResult, ResultOf
    <3> QED
      BY <1>0, <3>1, <3>3, DisturbedStays
  <2> QED
    BY <2>1, <2>2
<1>5. CASE ~(a = r /\ Decides(r))
  <2>1. pc[a] = "done" /\ a \notin broken
    BY <1>0, <1>1, <1>2, <1>5
    DEF Effect, Quiet, Arrives, Writes, Saves, Decides, Moves, FishingOps
  <2>2. call[a].op = "review" /\ Approval(a) /\ Over(a)
    BY <1>1, <1>2, <2>1 DEF Approval, Over
  <2>3. CASE Disturbed(a)
    BY <1>0, <2>2, <2>3, DisturbedStays
  <2>4. CASE ~ Disturbed(a)
    <3>1. Approved(call[a].on) /\ KeptOut(a)
      BY <2>2, <2>4 DEF ApprovalsHold
    <3>2. ASSUME call[r].op \in FishingOps, ResultOf(r) = call[a].on, pc[r] # "done"
          PROVE  call[r].op = "modify" /\ call[r].on = call[a].on /\ a \in before[r]
                 /\ pc[r] \notin {"updateResult", "chores"}
      <4>1. call[r].op = "modify" /\ a \in before[r]
        BY <1>0, <2>2, <2>4, <3>2, OnlyModify
      <4> QED
        BY <3>1, <3>2, <4>1 DEF ResultOf, KeptOut
    <3>3. /\ content'[call[a].on] = content[call[a].on] /\ review'[call[a].on] = review[call[a].on]
          /\ reviewed'[call[a].on] = reviewed[call[a].on]
      <4>1. CASE Quiet(r) \/ Arrives(r)
        BY <4>1 DEF Quiet, Arrives, fishingVars
      <4>2. CASE Writes(r) \/ Saves(r)
        <5>1. ResultOf(r) # call[a].on
          BY <3>2, <4>2 DEF Writes, Saves, FishingOps
        <5> QED
          BY <1>3, <4>2, <5>1 DEF Writes, Saves, TypeOK, FishingTypeOK
      <4>3. CASE Decides(r)
        <5>1. call[r].on # call[a].on
          BY <3>2, <4>3 DEF Decides, FishingOps, ResultOf
        <5> QED
          BY <1>3, <4>3, <5>1 DEF Decides, TypeOK, FishingTypeOK
      <4> QED
        BY <4>1, <4>2, <4>3 DEF Effect
    <3>4. Approved(call[a].on)'
      BY <1>2, <3>1, <3>3 DEF Approved
    <3>5. ASSUME NEW s \in Reqs, call'[s].op = "modify", call'[s].on = call'[a].on, a \in before'[s],
                 pc'[s] \in {"updateResult", "chores"}
          PROVE  FALSE
      <4>1. CASE s # r
        BY <1>0, <1>2, <3>1, <3>5, <4>1 DEF Moves, KeptOut
      <4>2. CASE s = r
        <5>1. pc[r] # "idle"
          BY <3>5, <4>2 DEF Effect, Quiet, Arrives, Writes, Saves, Decides, FishingOps
        <5>2. call'[r] = call[r] /\ pc[r] # "done"
          BY <1>0, <3>5, <4>2, <5>1 DEF Moves
        <5>3. pc[r] \notin {"updateResult", "chores"} /\ call[r].op = "modify"
              /\ call[r].on = call[a].on
          BY <1>2, <3>2, <3>5, <4>2, <5>2 DEF ResultOf, FishingOps
        <5>4. Quiet(r)
          BY <5>1, <5>3 DEF Effect, Arrives, Writes, Saves, Decides
        <5>5. review[call[a].on] = "REJECT"
          BY <3>5, <4>2, <5>2, <5>3, <5>4 DEF Quiet, FishingOps
        <5> QED
          BY <3>1, <5>5 DEF Approved
      <4> QED
        BY <4>1, <4>2
    <3> QED
      BY <3>4, <3>5 DEF KeptOut
  <2> QED
    BY <2>3, <2>4
<1> QED
  BY <1>4, <1>5

LEMMA ApprovalsEnd ==
  ASSUME Shape, ApprovalsHold, Ends, UNCHANGED fishingVars
  PROVE  ApprovalsHold'
<1> SUFFICES ASSUME NEW a \in Reqs, Approval(a)'
             PROVE  Disturbed(a)' \/ (Approved(call[a].on)' /\ KeptOut(a)')
  BY DEF ApprovalsHold
<1>1. call' = call /\ before' = before /\ Approval(a)
  BY DEF Ends, Approval, Over, Underway
<1>2. Disturbed(a) => Disturbed(a)'
  BY <1>1, DisturbedStays DEF Approval
<1>3. Approved(call[a].on) => Approved(call[a].on)'
  BY <1>1 DEF Approved, fishingVars
<1>4. KeptOut(a) => KeptOut(a)'
  BY <1>1 DEF KeptOut, Ends, Underway
<1> QED
  BY <1>1, <1>2, <1>3, <1>4 DEF ApprovalsHold

LEMMA ReviewStep ==
  ASSUME TypeOK, Shape, Registry, ApprovalsHold, [Next]_vars
  PROVE  Registry' /\ ApprovalsHold'
<1>1. Shape' /\ ChoresOut
  BY StepActs DEF Registry
<1>2. ASSUME NEW r \in Reqs, Effect(r)
      PROVE  Registry' /\ ApprovalsHold'
  BY <1>1, <1>2, ChoresKept, RegisteredKept, WrittenKept, InSightKept, AppliesKept, ApprovalsKept
  DEF Registry
<1>3. CASE Ends /\ UNCHANGED fishingVars
  BY <1>3, RegistryEnds, ApprovalsEnd
<1>4. CASE UNCHANGED vars
  <2>1. Registry'
    BY <1>4 DEF vars, requestVars, fishingVars, Registry, ChoresOut, BeforeOver, ResultsRegistered,
                AboutRegistered, WrittenAbout, InSight, Applies, SaveOut, ResultOf, Over, Overlap,
                ApprovedUnseen
  <2>2. ApprovalsHold'
    BY <1>4 DEF vars, requestVars, fishingVars, ApprovalsHold, Approval, Approved, Disturbed, KeptOut,
                AboutResult, ResultOf, Overlap, Over
  <2> QED
    BY <2>1, <2>2
<1> QED
  BY <1>1, <1>2, <1>3, <1>4, StepEffect

LEMMA ReviewInit ==
  ASSUME Init
  PROVE  Registry /\ ApprovalsHold
<1> USE OldAssumption
<1>1. \A r \in Reqs : call[r].op \notin {"modify", "review"}
  BY DEF Init, RequestsInit, NoCall
<1>2. \A r \in Reqs : /\ pc[r] \in {"idle", "done"} /\ chores[r] = {} /\ before[r] = {}
                      /\ r \in OldResult => call[r].op = "register"
  BY DEF Init, RequestsInit
<1>3. \A x \in Reqs : /\ content[x] # Nobody => x \in OldResult /\ content[x] = x
                      /\ review[x] # "none" => x \in OldResult
                      /\ x \in OldResult => review[x] = "REJECT"
  BY DEF Init, FishingInit
<1>4. ChoresOut /\ BeforeOver /\ ResultsRegistered /\ AboutRegistered
  BY <1>1, <1>2, <1>3 DEF ChoresOut, BeforeOver, ResultsRegistered, AboutRegistered
<1>5. WrittenAbout /\ InSight /\ Applies
  BY <1>1, <1>2, <1>3 DEF WrittenAbout, InSight, Applies, ResultOf
<1>6. ApprovalsHold
  BY <1>1 DEF ApprovalsHold, Approval
<1> QED
  BY <1>4, <1>5, <1>6 DEF Registry

\* The status of a result is saved without await, and a decision does not look at the
\* status it replaces.  A result gets its status nevertheless, what counts as approved
\* is what the reviewer had seen when the decision was sent, unless it was written
\* meanwhile or is about to apply again, and an approval is final unless a request
\* about the result overlaps it or the reviewer decides again.
THEOREM ReviewsHold ==
  Spec => []ReviewHolds
<1> DEFINE IInv == TypeOK /\ Shape /\ Registry /\ ApprovalsHold
<1>1. Init => IInv
  BY InitShape, ReviewInit
<1>2. IInv /\ [Next]_vars => IInv'
  BY StepActs, ReviewStep
<1>3. IInv => ReviewHolds
  <2> SUFFICES ASSUME IInv PROVE ReviewHolds
    OBVIOUS
  <2>1. ASSUME NEW q \in Reqs, SaveOut(q)
        PROVE  Underway(q) \/ q \in broken
    BY <2>1 DEF SaveOut, Shape, ShapeOf, Underway
  <2>2. ASSUME NEW x \in Reqs, content[x] # Nobody
        PROVE  /\ Over(x) /\ x \notin broken => review[x] # "none"
               /\ review[x] = "APPROVE" =>
                    \/ content[x] = reviewed[x] \/ Underway(content[x])
                    \/ content[x] \in broken \/ ApprovedUnseen(x)
    <3>1. content[x] \in Reqs
      BY <2>2 DEF TypeOK, FishingTypeOK
    <3>2. /\ review[x] = "none" => SaveOut(x)
          /\ review[x] = "APPROVE" =>
               content[x] = reviewed[x] \/ SaveOut(content[x]) \/ ApprovedUnseen(x)
      BY <2>2 DEF Registry, Applies
    <3> QED
      BY <2>1, <3>1, <3>2 DEF Over, Underway
  <2>3. ASSUME NEW a \in Reqs, Approval(a)
        PROVE  Approved(ResultOf(a)) \/ Disturbed(a)
    <3>1. ResultOf(a) = call[a].on
      BY <2>3 DEF Approval, ResultOf
    <3> QED
      BY <2>3, <3>1 DEF ApprovalsHold
  <2> QED
    BY <2>2, <2>3 DEF ReviewHolds, Approval, Approved, Disturbed
<1> QED
  BY <1>1, <1>2, <1>3, PTL DEF Spec

-----------------------------------------------------------------------------
(* Goods and follows, blocks and reports: what a step does to their rows    *)

(* What a request has still to do to the rows and the notifications.        *)
NoticeDue(r) == pc[r] = "saveNotice" \/ "saveNotice" \in chores[r]
NoticeDoomed(r) == pc[r] \in {"find", "deleteRow", "deleteNotice"} \/ "deleteNotice" \in chores[r]
Deletes(r) == pc[r] = "deleteRow" \/ "deleteRow" \in chores[r]
RowDoomed(r) == pc[r] = "find" \/ "findAgain" \in chores[r] \/ Deletes(r)

(* A request that adds a row has inserted it, has found one, or broke off.  *)
Past(r) == pc[r] \in {"saveNotice", "chores", "done"}
Looked(r) == pc[r] \in {"available", "insertRow"}

AddSteps == {"owner", "lookup", "available", "insertRow", "saveNotice", "chores", "done"}
RemoveSteps == {"find", "deleteRow", "deleteNotice", "chores", "done"}

(* Where a request that adds or removes a row may be.                       *)
Tidy(r) ==
  /\ Adds(r) => pc[r] \in AddSteps /\ chores[r] \subseteq {"saveNotice"}
  /\ Removes(r) =>
       /\ pc[r] \in RemoveSteps /\ chores[r] \subseteq {"deleteNotice", "findAgain", "deleteRow"}
       /\ ~ ("findAgain" \in chores[r] /\ "deleteRow" \in chores[r])
       /\ pc[r] \in {"deleteRow", "deleteNotice"} => call[r].kind # "good"
  /\ (Adds(r) \/ Removes(r)) /\ chores[r] # {} => pc[r] = "chores"

(* It reads, and inserts and deletes nothing.                               *)
Looks(r) ==
  /\ UNCHANGED socialVars
  /\ call'[r].op \in SocialOps
  /\ Adds(r)' =>
       /\ Looked(r)' => Looked(r) \/ FindOne(call'[r]) = {}
       /\ Past(r) => Past(r)'
       /\ Past(r)' => r \in broken' \/ FindOne(call'[r]) # {}
       /\ NoticeDue(r) => r \in broken'
       /\ ~ NoticeDue(r)'
  /\ Removes(r)' =>
       /\ pc'[r] = "find" => pc[r] = "idle"
       /\ ~ RowDoomed(r)' => r \in broken' \/ FindOne(call'[r]) = {}
       /\ NoticeDoomed(r) => NoticeDoomed(r)' \/ r \in broken'
       /\ ~ Deletes(r)' /\ "findAgain" \notin chores'[r]

(* It is none of the requests that add or remove a row.                     *)
Elsewhere(r) ==
  /\ UNCHANGED socialVars
  /\ call'[r].op \notin SocialOps
  /\ ~ Deletes(r)' /\ "findAgain" \notin chores'[r]

Inserts(r) ==
  /\ Adds(r) /\ pc[r] = "insertRow" /\ Past(r)'
  /\ rows' = rows \cup {r} /\ UNCHANGED <<notices, found, target>>
  /\ Notifies(r) => NoticeDue(r)'

Notes(r) ==
  /\ Adds(r) /\ NoticeDue(r) /\ pc'[r] = "done"
  /\ notices' = notices \cup {r} /\ UNCHANGED <<rows, found, target>>

Finds(r) ==
  /\ pc[r] \in {"idle", "find"} /\ Removes(r)'
  /\ \E i \in FindOne(call'[r]) :
       /\ found' = [found EXCEPT ![r] = i]
       /\ \/ target' = [target EXCEPT ![r] = i] /\ pc'[r] = "deleteRow" /\ chores'[r] = {}
          \/ /\ target' = target /\ pc'[r] = "chores"
             /\ chores'[r] = {"deleteNotice", "findAgain"}
  /\ UNCHANGED <<rows, notices>>

FindsAgain(r) ==
  /\ Removes(r) /\ "findAgain" \in chores[r] /\ pc'[r] = "chores"
  /\ chores'[r] = (chores[r] \ {"findAgain"}) \cup {"deleteRow"}
  /\ \E i \in FindOne(call[r]) : target' = [target EXCEPT ![r] = i]
  /\ UNCHANGED <<rows, notices, found>>

DropsRow(r) ==
  /\ Removes(r) /\ Deletes(r) /\ pc'[r] \notin {"idle", "find"} /\ ~ RowDoomed(r)'
  /\ NoticeDoomed(r) => NoticeDoomed(r)' \/ call[r].kind = "block"
  /\ rows' = rows \ {target[r]} /\ UNCHANGED <<notices, found, target>>

DropsNotice(r) ==
  /\ Removes(r) /\ NoticeDoomed(r) /\ pc[r] \notin {"idle", "find", "done"} /\ pc'[r] # "find"
  /\ Deletes(r)' <=> Deletes(r)
  /\ "findAgain" \in chores'[r] <=> "findAgain" \in chores[r]
  /\ notices' = notices \ {found[r]} /\ UNCHANGED <<rows, found, target>>

SocialEffect(r) ==
  /\ Moves(r) /\ Tidy(r)'
  /\ \/ Looks(r) \/ Elsewhere(r) \/ Inserts(r) \/ Notes(r) \/ Finds(r) \/ FindsAgain(r)
     \/ DropsRow(r) \/ DropsNotice(r)

AllTidy == \A r \in Reqs : Tidy(r)

LEMMA TidyKept ==
  ASSUME Base, AllTidy, NEW r \in Reqs, Moves(r), Tidy(r)'
  PROVE  AllTidy'
  BY DEF AllTidy, Tidy, Moves, Adds, Removes

LEMMA TidyEnds ==
  ASSUME AllTidy, Ends
  PROVE  AllTidy'
  BY DEF AllTidy, Tidy, Ends, Adds, Removes, Underway, AddSteps, RemoveSteps

LEMMA OpsOfSocial ==
  ASSUME Shape, NEW r \in Reqs, pc[r] \in SocialSteps \/ pc[r] = "idle"
  PROVE  /\ pc[r] = "idle" => call[r].op = "none" /\ chores[r] = {}
         /\ pc[r] # "idle" => call[r].op \in SocialOps /\ chores[r] = {}
  BY SocialLabel DEF Shape, ShapeOf, Fits, SocialSteps, MemberSteps, TimelineSteps

(* The requests that have just arrived.                                     *)
LEMMA EffectArrives ==
  ASSUME Base, Shape, NEW r \in Reqs, NEW c \in SocialCalls,
         NEW l \in {"owner", "available", "find", "deleteRow", "done"}, Arrive(r, c, l), Moves(r)
  PROVE  /\ pc[r] = "idle" /\ pc'[r] = l /\ call'[r] = c /\ chores'[r] = {} /\ broken' = broken
         /\ c.op \in SocialOps /\ chores[r] = {}
<1>1. pc[r] = "idle" /\ pc'[r] = l /\ call'[r] = c /\ chores'[r] = chores[r] /\ broken' = broken
  BY DEF Arrive, Base
<1>2. chores[r] = {}
  BY <1>1, OpsOfSocial
<1> QED
  BY <1>1, <1>2, SocialCallsAreCalls

LEMMA EffectGood ==
  ASSUME Base, Shape, AllTidy, NEW r \in Reqs, Moves(r),
         AddGood(r) \/ RemoveGood(r) \/ FindOwner(r) \/ LookUpGood(r) \/ FindMember(r)
  PROVE  Tidy(r)' /\ Looks(r)
<1> USE DEF Tidy, Looks, Adds, Removes, Looked, Past, NoticeDue, NoticeDoomed, Deletes, RowDoomed,
            AddSteps, RemoveSteps, SocialOps
<1>1. CASE AddGood(r)
  <2>1. PICK m \in Member, p \in Post :
          /\ Arrive(r, [op |-> "add", kind |-> "good", by |-> m, to |-> p], "owner")
          /\ UNCHANGED socialVars
    BY <1>1 DEF AddGood
  <2>2. [op |-> "add", kind |-> "good", by |-> m, to |-> p] \in SocialCalls
    BY SocialCallsAreCalls
  <2>3. /\ pc[r] = "idle" /\ pc'[r] = "owner" /\ chores'[r] = {} /\ chores[r] = {}
        /\ call'[r].op = "add"
    BY <2>1, <2>2, EffectArrives
  <2> QED
    BY <2>1, <2>3
<1>2. CASE RemoveGood(r)
  <2>1. PICK m \in Member, p \in Post :
          /\ Arrive(r, [op |-> "remove", kind |-> "good", by |-> m, to |-> p], "find")
          /\ UNCHANGED socialVars
    BY <1>2 DEF RemoveGood
  <2>2. [op |-> "remove", kind |-> "good", by |-> m, to |-> p] \in SocialCalls
    BY SocialCallsAreCalls
  <2>3. /\ pc[r] = "idle" /\ pc'[r] = "find" /\ chores'[r] = {} /\ chores[r] = {}
        /\ call'[r].op = "remove"
    BY <2>1, <2>2, EffectArrives
  <2> QED
    BY <2>1, <2>3
<1>3. CASE FindOwner(r) \/ LookUpGood(r) \/ FindMember(r)
  <2>1. pc[r] \in {"owner", "lookup", "available"} /\ UNCHANGED socialVars
    BY <1>3 DEF FindOwner, LookUpGood, FindMember
  <2>2. call[r].op \in SocialOps /\ chores[r] = {}
    BY <2>1, OpsOfSocial DEF SocialSteps
  <2>3. call[r].op = "add"
    BY <2>1, <2>2 DEF AllTidy
  <2>4. call'[r] = call[r] /\ chores'[r] = {}
    BY <1>3, <2>2 DEF FindOwner, LookUpGood, FindMember, Goto, Refuse
  <2>5. \/ pc'[r] = "done" /\ r \in broken'
        \/ pc[r] = "owner" /\ pc'[r] = "lookup"
        \/ pc[r] = "available" /\ pc'[r] = "insertRow"
        \/ pc'[r] = "insertRow" /\ FindOne(call[r]) = {}
        \/ pc'[r] = "done" /\ FindOne(call[r]) # {}
    BY <1>3, <2>1 DEF FindOwner, LookUpGood, FindMember, Goto, Refuse, Base
  <2> QED
    BY <2>1, <2>2, <2>3, <2>4, <2>5
<1> QED
  BY <1>1, <1>2, <1>3

LEMMA EffectAdd ==
  ASSUME Base, Shape, AllTidy, NEW r \in Reqs, Moves(r),
         AddFollow(r) \/ AddBlock(r) \/ AddReport(r)
  PROVE  Tidy(r)' /\ Looks(r)
<1>1. PICK c \in SocialCalls : AddFor(r, c) /\ c.op = "add"
  BY SocialCallsAreCalls DEF AddFollow, AddBlock, AddReport, ReportRequests
<1>2. PICK l \in {"available", "done"} :
        Arrive(r, c, l) /\ (IF FindOne(c) = {} THEN l = "available" ELSE l = "done")
  BY <1>1 DEF AddFor
<1>3. /\ pc[r] = "idle" /\ pc'[r] = l /\ chores'[r] = {} /\ chores[r] = {} /\ call'[r] = c
  BY <1>2, EffectArrives
<1>4. UNCHANGED socialVars
  BY <1>1 DEF AddFor
<1> QED
  BY <1>1, <1>2, <1>3, <1>4
  DEF Tidy, Looks, Adds, Removes, Looked, Past, NoticeDue, NoticeDoomed, Deletes, RowDoomed,
      AddSteps, RemoveSteps, SocialOps

LEMMA EffectRemove ==
  ASSUME Base, Shape, AllTidy, NEW r \in Reqs, Moves(r), RemoveFollow(r) \/ RemoveBlock(r)
  PROVE  Tidy(r)' /\ (Looks(r) \/ Finds(r))
<1>1. PICK c \in SocialCalls : RemoveFor(r, c) /\ c.op = "remove" /\ c.kind # "good"
  BY SocialCallsAreCalls DEF RemoveFollow, RemoveBlock, FollowRequests, BlockRequests
<1>2. CASE FindOne(c) = {} /\ Arrive(r, c, "done") /\ UNCHANGED <<found, target>>
  <2>1. /\ pc[r] = "idle" /\ pc'[r] = "done" /\ chores'[r] = {} /\ chores[r] = {} /\ call'[r] = c
    BY <1>2, EffectArrives
  <2>2. UNCHANGED socialVars
    BY <1>1, <1>2 DEF RemoveFor, socialVars
  <2> QED
    BY <1>1, <1>2, <2>1, <2>2
    DEF Tidy, Looks, Adds, Removes, NoticeDoomed, Deletes, RowDoomed, RemoveSteps, SocialOps
<1>3. CASE \E i \in FindOne(c) :
             /\ Arrive(r, c, "deleteRow")
             /\ found' = [found EXCEPT ![r] = i]
             /\ target' = [target EXCEPT ![r] = i]
  <2>1. /\ pc[r] = "idle" /\ pc'[r] = "deleteRow" /\ chores'[r] = {} /\ call'[r] = c
    BY <1>3, EffectArrives
  <2>2. UNCHANGED <<rows, notices>>
    BY <1>1 DEF RemoveFor
  <2> QED
    BY <1>1, <1>3, <2>1, <2>2 DEF Tidy, Finds, Adds, Removes, RemoveSteps
<1> QED
  BY <1>1, <1>2, <1>3 DEF RemoveFor

LEMMA EffectInsert ==
  ASSUME Base, Shape, AllTidy, NEW r \in Reqs, Moves(r), InsertRow(r)
  PROVE  Tidy(r)' /\ Inserts(r)
<1>1. pc[r] = "insertRow" /\ rows' = rows \cup {r} /\ UNCHANGED <<notices, found, target>>
  BY DEF InsertRow
<1>2. call[r].op = "add" /\ chores[r] = {}
  BY <1>1, OpsOfSocial DEF SocialSteps, SocialOps, AllTidy, Tidy, Removes, RemoveSteps
<1>3. call'[r] = call[r]
  BY <1>1 DEF Moves
<1>4. \/ pc'[r] = "done" /\ chores'[r] = {} /\ ~ Notifies(r)
      \/ pc'[r] = "saveNotice" /\ chores'[r] = {}
      \/ pc'[r] = "chores" /\ chores'[r] = {"saveNotice"}
  <2>1. CASE ~ Notifies(r)
    BY <1>2, <2>1 DEF InsertRow, Goto, Base
  <2>2. CASE Notifies(r) /\ call[r].kind = "follow"
    BY <1>2, <2>2 DEF InsertRow, Goto, Base
  <2>3. CASE Notifies(r) /\ call[r].kind # "follow"
    BY <1>2, <2>3 DEF InsertRow, Leave, Base
  <2> QED
    BY <2>1, <2>2, <2>3
<1> QED
  BY <1>1, <1>2, <1>3, <1>4 DEF Tidy, Inserts, Adds, Removes, Past, NoticeDue, AddSteps

LEMMA EffectNote ==
  ASSUME Base, Shape, AllTidy, NEW r \in Reqs, Moves(r), SaveNotice(r)
  PROVE  Tidy(r)' /\ Notes(r)
<1>1. /\ notices' = notices \cup {r} /\ UNCHANGED <<rows, found, target>>
      /\ \/ pc[r] = "saveNotice" /\ Goto(r, "done")
         \/ "saveNotice" \in chores[r] /\ FinishChore(r, "saveNotice", {})
  BY DEF SaveNotice
<1>2. call[r].op \in SocialOps
  BY <1>1, OpsOfSocial, SocialChore DEF SocialSteps
<1>3. call[r].op = "add"
  BY <1>1, <1>2 DEF SocialOps, AllTidy, Tidy, Removes, RemoveSteps
<1>4. chores[r] \subseteq {"saveNotice"} /\ (chores[r] # {} => pc[r] = "chores")
  BY <1>3 DEF AllTidy, Tidy, Adds
<1>5. call'[r] = call[r] /\ pc'[r] = "done" /\ chores'[r] = {}
  <2>1. CASE pc[r] = "saveNotice" /\ Goto(r, "done")
    BY <1>4, <2>1 DEF Goto, Base
  <2>2. CASE "saveNotice" \in chores[r] /\ FinishChore(r, "saveNotice", {})
    BY <1>4, <2>2 DEF FinishChore, Base
  <2> QED
    BY <1>1, <2>1, <2>2
<1> QED
  BY <1>1, <1>3, <1>5 DEF Tidy, Notes, Adds, Removes, NoticeDue, AddSteps

LEMMA EffectFind ==
  ASSUME Base, Shape, AllTidy, NEW r \in Reqs, Moves(r), FindGood(r)
  PROVE  Tidy(r)' /\ (Looks(r) \/ Finds(r))
<1>1. pc[r] = "find" /\ UNCHANGED <<rows, notices, target>>
  BY DEF FindGood
<1>2. call[r].op = "remove" /\ chores[r] = {} /\ call'[r] = call[r]
  BY <1>1, OpsOfSocial DEF SocialSteps, SocialOps, AllTidy, Tidy, Adds, AddSteps, Moves
<1>3. CASE Refuse(r) /\ UNCHANGED found
  <2>1. pc'[r] = "done" /\ r \in broken' /\ chores'[r] = {}
    BY <1>2, <1>3 DEF Refuse, Base
  <2> QED
    BY <1>1, <1>2, <1>3, <2>1
    DEF Tidy, Looks, Adds, Removes, NoticeDoomed, Deletes, RowDoomed, RemoveSteps, SocialOps, socialVars
<1>4. CASE /\ \E i \in FindOne(call[r]) : found' = [found EXCEPT ![r] = i]
           /\ Leave(r, {"deleteNotice", "findAgain"})
  <2>1. pc'[r] = "chores" /\ chores'[r] = {"deleteNotice", "findAgain"}
    BY <1>4 DEF Leave, Base
  <2> QED
    BY <1>1, <1>2, <1>4, <2>1 DEF Tidy, Finds, Adds, Removes, RemoveSteps
<1> QED
  BY <1>3, <1>4 DEF FindGood

LEMMA EffectChore ==
  ASSUME Base, Shape, AllTidy, NEW r \in Reqs, Moves(r), NEW w, NEW W,
         w \in {"findAgain", "deleteRow", "deleteNotice"}, w \in chores[r], FinishChore(r, w, W)
  PROVE  /\ call[r].op = "remove" /\ call'[r] = call[r] /\ pc[r] = "chores"
         /\ chores'[r] = (chores[r] \ {w}) \cup W
         /\ chores[r] \subseteq {"deleteNotice", "findAgain", "deleteRow"}
         /\ ~ ("findAgain" \in chores[r] /\ "deleteRow" \in chores[r])
         /\ pc'[r] = (IF chores'[r] = {} THEN "done" ELSE "chores")
<1>1. call[r].op = "remove"
  BY SocialChore DEF SocialOps, AllTidy, Tidy, Adds
<1>2. pc[r] = "chores"
  BY <1>1 DEF AllTidy, Tidy, Removes
<1> QED
  BY <1>1, <1>2 DEF FinishChore, Base, AllTidy, Tidy, Removes

LEMMA EffectFindAgain ==
  ASSUME Base, Shape, AllTidy, NEW r \in Reqs, Moves(r), FindGoodAgain(r)
  PROVE  Tidy(r)' /\ (Looks(r) \/ FindsAgain(r))
<1>1. "findAgain" \in chores[r] /\ UNCHANGED <<rows, notices, found>>
  BY DEF FindGoodAgain
<1>2. CASE FindOne(call[r]) = {} /\ FinishChore(r, "findAgain", {}) /\ UNCHANGED target
  BY <1>1, <1>2, EffectChore
  DEF Tidy, Looks, Adds, Removes, NoticeDoomed, Deletes, RowDoomed, RemoveSteps, SocialOps, socialVars
<1>3. CASE \E i \in FindOne(call[r]) :
             target' = [target EXCEPT ![r] = i] /\ FinishChore(r, "findAgain", {"deleteRow"})
  <2>1. FinishChore(r, "findAgain", {"deleteRow"})
    BY <1>3
  <2>2. /\ call[r].op = "remove" /\ call'[r] = call[r]
        /\ chores'[r] = (chores[r] \ {"findAgain"}) \cup {"deleteRow"}
        /\ chores[r] \subseteq {"deleteNotice", "findAgain", "deleteRow"}
        /\ pc'[r] = "chores"
    BY <1>1, <2>1, EffectChore
  <2> QED
    BY <1>1, <1>3, <2>2 DEF Tidy, FindsAgain, Adds, Removes, RemoveSteps
<1> QED
  BY <1>2, <1>3 DEF FindGoodAgain

LEMMA EffectDelete ==
  ASSUME Base, Shape, AllTidy, NEW r \in Reqs, Moves(r), pc[r] \in {"deleteRow", "deleteNotice"}
  PROVE  call[r].op = "remove" /\ chores[r] = {} /\ call'[r] = call[r] /\ call[r].kind # "good"
<1>1. call[r].op \in SocialOps /\ chores[r] = {} /\ call'[r] = call[r]
  BY OpsOfSocial DEF SocialSteps, Moves
<1> QED
  BY <1>1 DEF SocialOps, AllTidy, Tidy, Adds, Removes, AddSteps

LEMMA SocialKinds ==
  ASSUME Base, NEW r \in Reqs, call[r].op \in SocialOps
  PROVE  call[r].kind \in {"good", "follow", "block", "report"}
<1>1. call[r] \in SocialCalls
  BY DEF Base, Calls, NoCall, SocialOps, MemberCalls, PostCalls, FishingCalls, TimelineCalls
<1> QED
  BY <1>1 DEF SocialCalls, GoodRequests, FollowRequests, BlockRequests, ReportRequests

LEMMA EffectDeleteRow ==
  ASSUME Base, Shape, AllTidy, NEW r \in Reqs, Moves(r), DeleteRow(r)
  PROVE  Tidy(r)' /\ DropsRow(r)
<1>1. rows' = rows \ {target[r]} /\ UNCHANGED <<notices, found, target>>
  BY DEF DeleteRow
<1> USE DEF Tidy, DropsRow, Adds, Removes, NoticeDoomed, Deletes, RowDoomed, RemoveSteps
<1>2. CASE pc[r] = "deleteRow"
            /\ Goto(r, IF call[r].kind = "follow" THEN "deleteNotice" ELSE "done")
  <2>1. call[r].op = "remove" /\ chores[r] = {} /\ call'[r] = call[r] /\ call[r].kind # "good"
    BY <1>2, EffectDelete
  <2>2. pc'[r] = (IF call[r].kind = "follow" THEN "deleteNotice" ELSE "done") /\ chores'[r] = {}
    BY <1>2, <2>1 DEF Goto, Base
  <2>3. call[r].kind \in {"follow", "block", "report"}
    BY <2>1, SocialKinds DEF SocialOps
  <2>4. call[r].kind # "report"
    <3>1. call[r] \in SocialCalls
      BY <2>1 DEF Base, Calls, NoCall, MemberCalls, PostCalls, FishingCalls, TimelineCalls
    <3> QED
      BY <2>1, <3>1 DEF SocialCalls, GoodRequests, FollowRequests, BlockRequests, ReportRequests
  <2> QED
    BY <1>1, <1>2, <2>1, <2>2, <2>3, <2>4
<1>3. CASE "deleteRow" \in chores[r] /\ FinishChore(r, "deleteRow", {})
  BY <1>1, <1>3, EffectChore
<1> QED
  BY <1>2, <1>3 DEF DeleteRow

LEMMA EffectDeleteNotice ==
  ASSUME Base, Shape, AllTidy, NEW r \in Reqs, Moves(r), DeleteNotice(r)
  PROVE  Tidy(r)' /\ DropsNotice(r)
<1>1. notices' = notices \ {found[r]} /\ UNCHANGED <<rows, found, target>>
  BY DEF DeleteNotice
<1> USE DEF Tidy, DropsNotice, Adds, Removes, NoticeDoomed, Deletes, RemoveSteps
<1>2. CASE pc[r] = "deleteNotice" /\ Goto(r, "done")
  <2>1. call[r].op = "remove" /\ chores[r] = {} /\ call'[r] = call[r] /\ call[r].kind # "good"
    BY <1>2, EffectDelete
  <2>2. pc'[r] = "done" /\ chores'[r] = {}
    BY <1>2, <2>1 DEF Goto, Base
  <2> QED
    BY <1>1, <1>2, <2>1, <2>2
<1>3. CASE "deleteNotice" \in chores[r] /\ FinishChore(r, "deleteNotice", {})
  BY <1>1, <1>3, EffectChore
<1> QED
  BY <1>2, <1>3 DEF DeleteNotice

LEMMA EffectThrow ==
  ASSUME Base, Shape, AllTidy, NEW r \in Reqs, ByThrow(r)
  PROVE  SocialEffect(r)
<1>1. /\ Moves(r) /\ UNCHANGED socialVars /\ call'[r] = call[r] /\ chores'[r] = chores[r]
      /\ pc'[r] = "done" /\ r \in broken' /\ pc[r] \notin {"idle", "done", "chores"}
  BY DEF ByThrow, AllStay, Acts
<1>2. CASE call[r].op \in SocialOps
  <2>1. chores[r] = {}
    BY <1>1, <1>2 DEF AllTidy, Tidy, Adds, Removes, SocialOps
  <2>2. Tidy(r)' /\ Looks(r)
    BY <1>1, <1>2, <2>1
    DEF Tidy, Looks, Adds, Removes, Looked, Past, NoticeDue, NoticeDoomed, Deletes, RowDoomed,
        AddSteps, RemoveSteps
  <2> QED
    BY <1>1, <2>2 DEF SocialEffect
<1>3. CASE call[r].op \notin SocialOps
  <2>1. "findAgain" \notin chores[r] /\ "deleteRow" \notin chores[r]
    BY <1>3, SocialChore
  <2> QED
    BY <1>1, <1>3, <2>1 DEF SocialEffect, Elsewhere, Tidy, Adds, Removes, SocialOps, Deletes
<1> QED
  BY <1>2, <1>3

LEMMA RequestSocial ==
  ASSUME TypeOK, Shape, AllTidy, NEW q \in Reqs, ByRequest(q)
  PROVE  SocialEffect(q)
<1>0. Base
  BY DEF TypeOK, Base
<1>1. ASSUME NEW r \in Reqs, BySocialGraph(r)
      PROVE  SocialEffect(r)
  <2>1. Moves(r) /\ SocialStep(r)
    BY <1>1 DEF BySocialGraph, Acts, OfSocialGraph
  <2> QED
    BY <1>0, <2>1, EffectGood, EffectAdd, EffectRemove, EffectInsert, EffectNote, EffectFind,
       EffectFindAgain, EffectDeleteRow, EffectDeleteNotice DEF SocialEffect, SocialStep
<1>2. ASSUME NEW r \in Reqs, ByMembers(r) \/ ByPosts(r) \/ ByFishing(r) \/ ByTimeline(r)
      PROVE  SocialEffect(r)
  <2>1. /\ Moves(r) /\ UNCHANGED socialVars
        /\ call'[r].op \in MemberOps \cup PostOps \cup FishingOps \cup TimelineOps
    BY <1>2 DEF ByMembers, ByPosts, ByFishing, ByTimeline, OfMembers, OfPosts, OfFishing,
                OfTimeline, Acts
  <2>2. call'[r].op \notin SocialOps
    BY <2>1 DEF MemberOps, PostOps, SocialOps, FishingOps, TimelineOps
  <2>3. ShapeOf(call'[r].op, pc'[r], chores'[r], r \in broken')
    BY <1>2 DEF ByMembers, ByPosts, ByFishing, ByTimeline, Acts
  <2>4. pc'[r] # "deleteRow" /\ chores'[r] \cap {"findAgain", "deleteRow"} = {}
    BY <2>2, <2>3 DEF ShapeOf, Fits, ChoresOf, MemberSteps, SocialSteps, TimelineSteps
  <2> QED
    BY <2>1, <2>2, <2>4 DEF SocialEffect, Elsewhere, Tidy, Adds, Removes, SocialOps, Deletes
<1>3. ASSUME NEW r \in Reqs, ByThrow(r)
      PROVE  SocialEffect(r)
  BY <1>0, <1>3, EffectThrow
<1> QED
  BY <1>1, <1>2, <1>3 DEF ByRequest

(* Every step has one of these effects, or ends the process.                *)
LEMMA StepSocial ==
  ASSUME TypeOK, Shape, AllTidy, [Next]_vars
  PROVE  \/ \E r \in Reqs : SocialEffect(r)
         \/ Ends /\ UNCHANGED socialVars
         \/ UNCHANGED vars
BY StepActs, RequestSocial DEF ByRequest, ByEnd, AllStay

-----------------------------------------------------------------------------
(* Goods and follows, blocks and reports: what holds of their rows          *)

RowsAdded == \A i \in rows \cup notices : Adds(i) /\ Past(i)

(* Rows of one pair come from requests that overlap.                        *)
RowsOverlap == \A i, j \in rows : i # j /\ SamePair(i, j) => Overlap(i, j)

NoneSeen ==
  \A r \in Reqs, i \in rows : Adds(r) /\ Looked(r) /\ SamePair(r, i) => Overlap(r, i)

(* What a removal finds, and what it deletes, has been inserted for its pair *)
(* by a request that did not come after it.                                 *)
RowFor(d, i) == i \in Reqs /\ Adds(i) /\ Past(i) /\ SamePair(d, i) /\ d \notin before[i]

Findings ==
  \A d \in Reqs :
    /\ found[d] # NoRow => Removes(d) /\ pc[d] # "find" /\ RowFor(d, found[d])
    /\ target[d] # NoRow =>
         found[d] # NoRow /\ RowFor(d, target[d]) /\ "findAgain" \notin chores[d]
    /\ "findAgain" \in chores[d] => found[d] # NoRow
    /\ Deletes(d) => target[d] # NoRow

(* The row that a removal has found is gone when the removal is over.       *)
RowGone(d) == found[d] \notin rows \/ Doubled(d)

RowsGo ==
  \A d \in Reqs : found[d] # NoRow =>
    /\ Deletes(d) => target[d] = found[d] \/ RowGone(d)
    /\ ~ RowDoomed(d) => RowGone(d) \/ d \in broken

(* Of what was inserted before it came, it finds and deletes the same row.  *)
NoneElse ==
  \A d \in Reqs : found[d] # NoRow =>
    /\ \A i \in rows : SamePair(d, i) /\ i \in before[d] => i = found[d] \/ Doubled(d)
    /\ target[d] \in before[d] => target[d] = found[d] \/ Doubled(d)

NoticesGo ==
  \A d \in Reqs : found[d] # NoRow /\ call[d].kind # "block" /\ ~ NoticeDoomed(d) =>
    found[d] \notin notices \/ Overlap(d, found[d]) \/ d \in broken

NoticesHaveRows ==
  \A r \in Reqs : r \in notices \/ (Adds(r) /\ NoticeDue(r)) =>
    r \in rows \/ \E d \in Reqs : target[d] = r

RowsHaveNotices ==
  \A r \in rows : Notifies(r) =>
    r \in notices \/ NoticeDue(r) \/ r \in broken \/ \E d \in Reqs : found[d] = r

Graph ==
  /\ AllTidy /\ BeforeOver
  /\ RowsAdded /\ RowsOverlap /\ NoneSeen /\ Findings /\ RowsGo /\ NoneElse
  /\ NoticesGo /\ NoticesHaveRows /\ RowsHaveNotices

LEMMA SocialKept ==
  ASSUME Shape, NEW q \in Reqs, Moves(q) \/ Ends, NEW r \in Reqs, Adds(r) \/ Removes(r)
  PROVE  /\ call'[r] = call[r] /\ before'[r] = before[r] /\ pc[r] # "idle" /\ pc'[r] # "idle"
         /\ (Adds(r)' <=> Adds(r)) /\ (Removes(r)' <=> Removes(r))
  BY FishingKept DEF Adds, Removes

LEMMA OverlapStays ==
  ASSUME NEW q \in Reqs, Moves(q) \/ Ends, NEW r \in Reqs, NEW s \in Reqs, Overlap(r, s)
  PROVE  Overlap(r, s)'
  BY DEF Overlap, Moves, Ends, Underway

LEMMA DoubledStays ==
  ASSUME Shape, NEW q \in Reqs, Moves(q) \/ Ends, NEW r \in Reqs, Adds(r) \/ Removes(r), Doubled(r)
  PROVE  Doubled(r)'
<1>1. PICK s \in Reqs, t \in Reqs :
        Adds(s) /\ Adds(t) /\ SamePair(r, s) /\ SamePair(r, t) /\ Overlap(s, t)
  BY DEF Doubled
<1>2. Overlap(s, t)'
  BY <1>1, OverlapStays
<1>3. call'[r] = call[r] /\ call'[s] = call[s] /\ call'[t] = call[t]
  BY <1>1, SocialKept
<1> QED
  BY <1>1, <1>2, <1>3 DEF Doubled, SamePair, Pair, Adds

LEMMA PastStays ==
  ASSUME Shape, NEW q \in Reqs, SocialEffect(q), NEW i \in Reqs, Adds(i), Past(i)
  PROVE  Past(i)'
<1>1. CASE i # q
  BY <1>1 DEF SocialEffect, Moves, Past
<1>2. CASE i = q
  <2>1. Adds(q)' /\ Past(q) /\ ~ Removes(q) /\ ~ Removes(q)'
    BY <1>2, SocialKept DEF SocialEffect, Adds, Removes
  <2> QED
    BY <1>2, <2>1
    DEF SocialEffect, Looks, Elsewhere, Inserts, Notes, Finds, FindsAgain, DropsRow, DropsNotice,
        Past, Adds, SocialOps
<1> QED
  BY <1>1, <1>2

LEMMA RowsAddedKept ==
  ASSUME TypeOK, Shape, Graph, NEW q \in Reqs, SocialEffect(q)
  PROVE  RowsAdded'
<1> SUFFICES ASSUME NEW i \in rows' \cup notices'
             PROVE  Adds(i)' /\ Past(i)'
  BY DEF RowsAdded
<1>1. CASE i \in rows \cup notices
  <2>1. Adds(i) /\ Past(i) /\ i \in Reqs
    BY <1>1 DEF Graph, RowsAdded, TypeOK, SocialTypeOK
  <2> QED
    BY <2>1, PastStays, SocialKept DEF SocialEffect
<1>2. CASE i \notin rows \cup notices
  <2>1. i = q /\ (Inserts(q) \/ Notes(q))
    BY <1>2 DEF SocialEffect, Looks, Elsewhere, Inserts, Notes, Finds, FindsAgain, DropsRow,
                DropsNotice, socialVars
  <2> QED
    BY <2>1, SocialKept DEF SocialEffect, Inserts, Notes, Past
<1> QED
  BY <1>1, <1>2

LEMMA RowsOverlapKept ==
  ASSUME TypeOK, Shape, Graph, NEW q \in Reqs, SocialEffect(q)
  PROVE  RowsOverlap' /\ NoneSeen'
<1>0. rows \subseteq Reqs /\ RowsOverlap /\ NoneSeen /\ Moves(q)
  BY DEF Graph, TypeOK, SocialTypeOK, SocialEffect
<1>1. \A i \in rows : call'[i] = call[i] /\ Adds(i)
  BY <1>0, SocialKept DEF Graph, RowsAdded
<1>2. rows' \subseteq rows \/ (rows' = rows \cup {q} /\ Inserts(q))
  BY DEF SocialEffect, Looks, Elsewhere, Inserts, Notes, Finds, FindsAgain, DropsRow,
         DropsNotice, socialVars
<1>3. Inserts(q) => Adds(q) /\ Looked(q) /\ call'[q] = call[q] /\ ~ Looked(q)'
  BY SocialKept DEF Inserts, SocialEffect, Looked, Past
<1>4. ASSUME NEW i \in rows', NEW j \in rows', i # j, SamePair(i, j)'
      PROVE  Overlap(i, j)'
  <2>1. CASE i \in rows /\ j \in rows
    BY <1>0, <1>1, <1>4, <2>1, OverlapStays DEF RowsOverlap, SamePair, Pair
  <2>2. CASE i \notin rows
    <3>1. i = q /\ Inserts(q) /\ j \in rows
      BY <1>2, <1>4, <2>2
    <3>2. Overlap(q, j)
      BY <1>0, <1>1, <1>3, <1>4, <3>1 DEF NoneSeen, SamePair, Pair
    <3> QED
      BY <1>0, <3>1, <3>2, OverlapStays
  <2>3. CASE j \notin rows
    <3>1. j = q /\ Inserts(q) /\ i \in rows
      BY <1>2, <1>4, <2>3
    <3>2. Overlap(q, i)
      BY <1>0, <1>1, <1>3, <1>4, <3>1 DEF NoneSeen, SamePair, Pair
    <3>3. Overlap(i, q)
      BY <3>2 DEF Overlap
    <3> QED
      BY <1>0, <3>1, <3>3, OverlapStays
  <2> QED
    BY <2>1, <2>2, <2>3
<1>5. ASSUME NEW r \in Reqs, NEW i \in rows', Adds(r)', Looked(r)', SamePair(r, i)'
      PROVE  Overlap(r, i)'
  <2>1. CASE r # q
    <3>1. Adds(r) /\ Looked(r) /\ call'[r] = call[r]
      BY <1>0, <1>5, <2>1 DEF Moves, Adds, Looked
    <3>2. CASE i \in rows
      BY <1>0, <1>1, <1>5, <3>1, <3>2, OverlapStays DEF NoneSeen, SamePair, Pair
    <3>3. CASE i \notin rows
      <4>1. i = q /\ Inserts(q)
        BY <1>2, <3>3
      <4>2. ~ Over(r) /\ ~ Over(q) /\ pc[r] # "idle" /\ pc[q] # "idle"
        BY <3>1, <4>1 DEF Looked, Inserts, Over
      <4>3. Overlap(r, q)
        BY <2>1, <4>2 DEF Overlap, Graph, BeforeOver
      <4> QED
        BY <1>0, <4>1, <4>3, OverlapStays
    <3> QED
      BY <3>2, <3>3
  <2>2. CASE r = q
    <3>1. Looks(q)
      <4>1. ~ Removes(q)' /\ ~ Past(q)'
        BY <1>5, <2>2 DEF Adds, Removes, Looked, Past
      <4>2. ~ Removes(q)
        BY <1>0, <4>1, SocialKept
      <4> QED
        BY <1>5, <2>2, <4>1, <4>2
        DEF SocialEffect, Elsewhere, Inserts, Notes, Finds, FindsAgain, DropsRow, DropsNotice, Adds,
            SocialOps, Past
    <3>2. i \in rows /\ FindOne(call'[q]) # {}
      BY <1>1, <1>5, <2>2, <3>1 DEF Looks, socialVars, FindOne, SamePair, Pair
    <3>3. Looked(q)
      BY <1>5, <2>2, <3>1, <3>2 DEF Looks
    <3>4. call'[q] = call[q]
      BY <1>0, <3>3 DEF Moves, Looked
    <3>5. Overlap(q, i)
      BY <1>0, <1>1, <1>5, <2>2, <3>2, <3>3, <3>4 DEF NoneSeen, SamePair, Pair, Adds
    <3> QED
      BY <1>0, <2>2, <3>2, <3>5, OverlapStays
  <2> QED
    BY <2>1, <2>2
<1> QED
  BY <1>4, <1>5 DEF RowsOverlap, NoneSeen

LEMMA RowForStays ==
  ASSUME Shape, NEW q \in Reqs, SocialEffect(q), NEW d \in Reqs, Removes(d), NEW i, RowFor(d, i)
  PROVE  RowFor(d, i)'
<1>1. i \in Reqs /\ Adds(i) /\ Past(i) /\ Moves(q)
  BY DEF RowFor, SocialEffect
<1>2. call'[i] = call[i] /\ before'[i] = before[i] /\ call'[d] = call[d] /\ Adds(i)'
  BY <1>1, SocialKept
<1>3. Past(i)'
  BY <1>1, PastStays
<1> QED
  BY <1>1, <1>2, <1>3 DEF RowFor, SamePair, Pair

LEMMA RowFound ==
  ASSUME TypeOK, Shape, Graph, NEW q \in Reqs, SocialEffect(q), pc[q] # "done",
         NEW i \in FindOne(call'[q])
  PROVE  RowFor(q, i)' /\ i # NoRow /\ i \in rows /\ SamePair(q, i)'
<1>1. i \in rows /\ i \in Reqs /\ Pair(call[i]) = Pair(call'[q]) /\ Moves(q)
  BY DEF FindOne, TypeOK, SocialTypeOK, SocialEffect
<1>2. Adds(i) /\ Past(i) /\ q \notin before[i]
  BY <1>1 DEF Graph, RowsAdded, BeforeOver, Over
<1>3. call'[i] = call[i] /\ before'[i] = before[i] /\ Adds(i)'
  BY <1>1, <1>2, SocialKept
<1>4. Past(i)'
  BY <1>1, <1>2, PastStays
<1> QED
  BY <1>1, <1>2, <1>3, <1>4, NoRowAssumption DEF RowFor, SamePair, Pair

LEMMA FindingsKept ==
  ASSUME TypeOK, Shape, Graph, NEW q \in Reqs, SocialEffect(q)
  PROVE  Findings'
<1>0. Moves(q) /\ Findings /\ found \in [Reqs -> Reqs \cup {NoRow}]
      /\ target \in [Reqs -> Reqs \cup {NoRow}]
  BY DEF Graph, TypeOK, SocialTypeOK, SocialEffect
<1> SUFFICES ASSUME NEW d \in Reqs
             PROVE  /\ found'[d] # NoRow => Removes(d)' /\ pc'[d] # "find" /\ RowFor(d, found[d])'
                    /\ target'[d] # NoRow =>
                         found'[d] # NoRow /\ RowFor(d, target[d])' /\ "findAgain" \notin chores'[d]
                    /\ "findAgain" \in chores'[d] => found'[d] # NoRow
                    /\ Deletes(d)' => target'[d] # NoRow
  BY DEF Findings
<1>1. ASSUME found'[d] = found[d], found[d] # NoRow
      PROVE  Removes(d)' /\ RowFor(d, found[d])' /\ pc[d] \notin {"idle", "find"}
  <2>1. Removes(d) /\ pc[d] # "find" /\ RowFor(d, found[d])
    BY <1>0, <1>1 DEF Findings
  <2>2. RowFor(d, found[d])'
    <3>1. \A i : i = found[d] => RowFor(d, i)'
      BY <2>1, RowForStays
    <3> QED
      BY <1>1, <3>1 DEF RowFor
  <2> QED
    BY <1>0, <2>1, <2>2, SocialKept
<1>2. ASSUME target'[d] = target[d], target[d] # NoRow
      PROVE  RowFor(d, target[d])' /\ found[d] # NoRow
  <2>1. Removes(d) /\ RowFor(d, target[d]) /\ found[d] # NoRow
    BY <1>0, <1>2 DEF Findings
  <2>2. \A i : i = target[d] => RowFor(d, i)'
    BY <2>1, RowForStays
  <2> QED
    BY <1>2, <2>1, <2>2 DEF RowFor
<1>3. CASE d # q
  <2>1. /\ found'[d] = found[d] /\ target'[d] = target[d] /\ pc'[d] = pc[d]
        /\ chores'[d] = chores[d]
    BY <1>0, <1>3 DEF Moves, SocialEffect, Looks, Elsewhere, Inserts, Notes, Finds, FindsAgain, DropsRow,
                DropsNotice, socialVars
  <2> QED
    BY <1>0, <1>1, <1>2, <2>1 DEF Findings, Deletes
<1>4. CASE d = q /\ Looks(q)
  <2>1. found' = found /\ target' = target
    BY <1>4 DEF Looks, socialVars
  <2>2. CASE Removes(q)'
    BY <1>1, <1>2, <1>4, <2>1, <2>2 DEF Looks
  <2>3. CASE ~ Removes(q)'
    <3>1. Adds(q)' /\ Tidy(q)'
      BY <1>4, <2>3 DEF Looks, Adds, Removes, SocialOps, SocialEffect
    <3>2. ~ Deletes(q)' /\ "findAgain" \notin chores'[q]
      BY <3>1 DEF Tidy, Adds, AddSteps, Deletes
    <3> QED
      BY <1>1, <1>2, <1>4, <2>1, <2>3, <3>2
  <2> QED
    BY <2>2, <2>3
<1>5. CASE d = q /\ (Elsewhere(q) \/ Inserts(q) \/ Notes(q))
  <2>1. found' = found /\ target' = target
    BY <1>5 DEF Elsewhere, Inserts, Notes, socialVars
  <2>2. ~ Removes(q)'
    BY <1>0, <1>5, SocialKept DEF Elsewhere, Inserts, Notes, Adds, Removes, SocialOps
  <2>3. ~ Deletes(q)' /\ "findAgain" \notin chores'[q]
    <3>1. CASE Elsewhere(q)
      BY <3>1 DEF Elsewhere
    <3>2. CASE Inserts(q) \/ Notes(q)
      BY <1>0, <3>2, SocialKept DEF Inserts, Notes, SocialEffect, Tidy, Adds, AddSteps, Deletes
    <3> QED
      BY <1>5, <3>1, <3>2
  <2> QED
    BY <1>1, <1>2, <1>5, <2>1, <2>2, <2>3
<1>6. CASE d = q /\ Finds(q)
  <2>1. PICK i \in FindOne(call'[q]) :
          /\ found' = [found EXCEPT ![q] = i]
          /\ \/ target' = [target EXCEPT ![q] = i] /\ pc'[q] = "deleteRow" /\ chores'[q] = {}
             \/ /\ target' = target /\ pc'[q] = "chores"
                /\ chores'[q] = {"deleteNotice", "findAgain"}
    BY <1>6 DEF Finds
  <2>2. RowFor(q, i)' /\ i # NoRow /\ found'[q] = i
    BY <1>0, <1>6, <2>1, RowFound DEF Finds
  <2>3. target[q] = NoRow
    <3>1. target[q] # NoRow => Removes(q) /\ pc[q] # "find"
      BY <1>0 DEF Findings
    <3> QED
      BY <1>6, <3>1, SocialKept, <1>0 DEF Finds
  <2>4. RowFor(q, found[q])'
    BY <2>2 DEF RowFor
  <2>5. target'[q] # NoRow => target'[q] = i /\ chores'[q] = {}
    BY <1>0, <2>1, <2>3
  <2>6. target'[q] # NoRow => RowFor(q, target[q])' /\ "findAgain" \notin chores'[q]
    BY <2>2, <2>5 DEF RowFor
  <2> QED
    BY <1>0, <1>6, <2>1, <2>2, <2>4, <2>6 DEF Finds, Deletes
<1>7. CASE d = q /\ FindsAgain(q)
  <2>1. PICK i \in FindOne(call[q]) : target' = [target EXCEPT ![q] = i]
    BY <1>7 DEF FindsAgain
  <2>2. call'[q] = call[q] /\ pc[q] # "done" /\ found' = found
    BY <1>0, <1>7, SocialKept DEF FindsAgain, Graph, AllTidy, Tidy
  <2>3. RowFor(q, i)' /\ i # NoRow /\ target'[q] = i
    BY <1>0, <2>1, <2>2, RowFound
  <2>4. RowFor(q, target[q])' /\ target'[q] # NoRow
    BY <2>3 DEF RowFor
  <2>5. found[q] # NoRow
    BY <1>0, <1>7 DEF Findings, FindsAgain
  <2> QED
    BY <1>1, <1>7, <2>2, <2>4, <2>5 DEF FindsAgain
<1>8. CASE d = q /\ (DropsRow(q) \/ DropsNotice(q))
  <2>1. found' = found /\ target' = target
    BY <1>8 DEF DropsRow, DropsNotice
  <2>2. pc'[q] # "find" /\ ("findAgain" \in chores'[q] => "findAgain" \in chores[q])
        /\ (Deletes(q)' => Deletes(q))
    BY <1>8 DEF DropsRow, DropsNotice, RowDoomed
  <2> QED
    BY <1>0, <1>1, <1>2, <1>8, <2>1, <2>2 DEF Findings
<1> QED
  BY <1>3, <1>4, <1>5, <1>6, <1>7, <1>8 DEF SocialEffect

(* What a step may do to the rows, the notifications and what was found.    *)
LEMMA RowsChange ==
  ASSUME TypeOK, Shape, Graph, NEW q \in Reqs, SocialEffect(q)
  PROVE  /\ \A i \in rows' : i \in rows \/ (i = q /\ Inserts(q))
         /\ \A i \in rows : i \in rows' \/ (i = target[q] /\ DropsRow(q))
         /\ \A i \in notices' : i \in notices \/ (i = q /\ Notes(q))
         /\ \A i \in notices : i \in notices' \/ (i = found[q] /\ DropsNotice(q))
         /\ \A d \in Reqs : d # q => found'[d] = found[d] /\ target'[d] = target[d]
         /\ Finds(q) \/ found'[q] = found[q]
         /\ Finds(q) \/ FindsAgain(q) \/ target'[q] = target[q]
  BY DEF SocialEffect, Looks, Elsewhere, Inserts, Notes, Finds, FindsAgain, DropsRow,
         DropsNotice, socialVars, TypeOK, SocialTypeOK

LEMMA FoundStays ==
  ASSUME TypeOK, Shape, Graph, NEW q \in Reqs, SocialEffect(q), NEW d \in Reqs
  PROVE  /\ found[d] # NoRow => found'[d] = found[d]
         /\ target[d] # NoRow => target'[d] = target[d]
<1>0. Findings /\ Moves(q)
  BY DEF Graph, SocialEffect
<1>1. Finds(q) => found[q] = NoRow /\ target[q] = NoRow
  <2>1. found[q] # NoRow => Removes(q) /\ pc[q] \notin {"idle", "find"}
    BY <1>0, SocialKept DEF Findings
  <2> QED
    BY <1>0, <2>1 DEF Finds, Findings
<1>2. FindsAgain(q) => target[q] = NoRow
  BY <1>0 DEF Findings, FindsAgain
<1> QED
  BY <1>1, <1>2, RowsChange

LEMMA FoundBefore ==
  ASSUME TypeOK, Shape, Graph, NEW q \in Reqs, SocialEffect(q), NEW d \in Reqs, found[d] # NoRow
  PROVE  /\ Removes(d) /\ Removes(d)' /\ found'[d] = found[d] /\ call'[d] = call[d]
         /\ before'[d] = before[d] /\ pc[d] \notin {"idle", "find"} /\ pc'[d] # "idle"
         /\ RowFor(d, found[d]) /\ call'[found[d]] = call[found[d]]
         /\ Doubled(d) => Doubled(d)'
<1>1. Removes(d) /\ pc[d] # "find" /\ RowFor(d, found[d]) /\ Moves(q)
  BY DEF Graph, Findings, SocialEffect
<1>2. found[d] \in Reqs /\ Adds(found[d])
  BY <1>1 DEF RowFor
<1>3. call'[found[d]] = call[found[d]]
  BY <1>1, <1>2, SocialKept
<1> QED
  BY <1>1, <1>3, SocialKept, FoundStays, DoubledStays

(* Two rows of one pair.                                                    *)
LEMMA DoubledNext ==
  ASSUME TypeOK, Shape, Graph, NEW q \in Reqs, SocialEffect(q), NEW d \in Reqs,
         NEW i \in rows, NEW j \in rows, i # j,
         Pair(call[i]) = Pair(call'[d]), Pair(call[j]) = Pair(call'[d])
  PROVE  Doubled(d)'
<1>1. i \in Reqs /\ j \in Reqs /\ Adds(i) /\ Adds(j) /\ Moves(q)
  BY DEF Graph, RowsAdded, TypeOK, SocialTypeOK, SocialEffect
<1>2. Overlap(i, j)
  BY DEF Graph, RowsOverlap, SamePair, Pair
<1>3. Overlap(i, j)' /\ call'[i] = call[i] /\ call'[j] = call[j]
  BY <1>1, <1>2, OverlapStays, SocialKept
<1> QED
  BY <1>1, <1>3 DEF Doubled, SamePair, Pair, Adds

LEMMA RowGoneStays ==
  ASSUME TypeOK, Shape, Graph, NEW q \in Reqs, SocialEffect(q), NEW d \in Reqs, found[d] # NoRow,
         RowGone(d)
  PROVE  RowGone(d)'
<1>1. Past(found[d]) /\ found'[d] = found[d] /\ (Doubled(d) => Doubled(d)')
  BY FoundBefore DEF RowFor
<1>2. found[d] \notin rows => found[d] \notin rows'
  BY <1>1, RowsChange DEF Inserts, Past
<1> QED
  BY <1>1, <1>2 DEF RowGone

LEMMA RowsGoKept ==
  ASSUME TypeOK, Shape, Graph, NEW q \in Reqs, SocialEffect(q)
  PROVE  RowsGo'
<1> SUFFICES ASSUME NEW d \in Reqs, found'[d] # NoRow
             PROVE  /\ Deletes(d)' => target'[d] = found'[d] \/ RowGone(d)'
                    /\ ~ RowDoomed(d)' => RowGone(d)' \/ d \in broken'
  BY DEF RowsGo
<1>0. Moves(q) /\ RowsGo
  BY DEF Graph, SocialEffect
<1>1. CASE d # q
  <2>1. /\ found'[d] = found[d] /\ target'[d] = target[d] /\ pc'[d] = pc[d]
        /\ chores'[d] = chores[d] /\ (d \in broken => d \in broken')
    BY <1>0, <1>1, RowsChange DEF Moves
  <2> QED
    BY <1>0, <2>1, RowGoneStays DEF RowsGo, Deletes, RowDoomed
<1>2. CASE d = q /\ Finds(q)
  <2>1. PICK i \in FindOne(call'[q]) :
          /\ found' = [found EXCEPT ![q] = i]
          /\ \/ target' = [target EXCEPT ![q] = i] /\ pc'[q] = "deleteRow" /\ chores'[q] = {}
             \/ /\ target' = target /\ pc'[q] = "chores"
                /\ chores'[q] = {"deleteNotice", "findAgain"}
    BY <1>2 DEF Finds
  <2> QED
    BY <1>2, <2>1 DEF Deletes, RowDoomed, TypeOK, SocialTypeOK
<1>3. CASE d = q /\ ~ Finds(q)
  <2>1. /\ found[q] # NoRow /\ found'[q] = found[q] /\ Removes(q) /\ Removes(q)'
        /\ call'[q] = call[q] /\ RowFor(q, found[q])
        /\ Pair(call[found[q]]) = Pair(call[q])
    BY <1>3, RowsChange, FoundBefore DEF RowFor, SamePair
  <2>2. CASE Looks(q)
    <3>1. FindOne(call[q]) = {} => found[q] \notin rows'
      BY <2>1, <2>2 DEF FindOne, Looks, socialVars
    <3> QED
      BY <1>3, <2>1, <2>2, <3>1 DEF Looks, RowGone
  <2>3. CASE FindsAgain(q)
    <3>1. PICK i \in rows : target' = [target EXCEPT ![q] = i] /\ Pair(call[i]) = Pair(call[q])
      BY <2>3 DEF FindsAgain, FindOne
    <3>2. target'[q] = i
      BY <3>1 DEF TypeOK, SocialTypeOK
    <3>3. i # found[q] /\ found[q] \in rows => Doubled(q)'
      BY <2>1, <3>1, DoubledNext
    <3>4. rows' = rows /\ RowDoomed(q)'
      BY <2>3 DEF FindsAgain, RowDoomed, Deletes
    <3> QED
      BY <1>3, <2>1, <3>2, <3>3, <3>4 DEF RowGone
  <2>4. CASE DropsRow(q)
    <3>1. ~ Deletes(q)' /\ rows' = rows \ {target[q]} /\ Deletes(q)
      BY <2>4 DEF DropsRow, RowDoomed
    <3>2. target[q] = found[q] \/ RowGone(q)
      BY <1>0, <2>1, <3>1 DEF RowsGo
    <3>3. RowGone(q)'
      <4>1. CASE RowGone(q)
        BY <2>1, <4>1, RowGoneStays
      <4>2. CASE target[q] = found[q]
        BY <2>1, <3>1, <4>2 DEF RowGone
      <4> QED
        BY <3>2, <4>1, <4>2
    <3> QED
      BY <1>3, <3>1, <3>3
  <2>5. CASE DropsNotice(q)
    <3>1. /\ Deletes(q)' => Deletes(q)
          /\ ~ RowDoomed(q)' => ~ RowDoomed(q)
          /\ target' = target
      BY <2>5 DEF DropsNotice, RowDoomed
    <3>2. RowGone(q) => RowGone(q)'
      BY <2>1, RowGoneStays
    <3> QED
      BY <1>0, <1>3, <2>1, <3>1, <3>2 DEF RowsGo, Moves
  <2>6. CASE Elsewhere(q) \/ Inserts(q) \/ Notes(q)
    BY <2>1, <2>6 DEF Elsewhere, Inserts, Notes, Adds, Removes, SocialOps
  <2> QED
    BY <1>3, <2>2, <2>3, <2>4, <2>5, <2>6 DEF SocialEffect
<1> QED
  BY <1>1, <1>2, <1>3

LEMMA NoneElseKept ==
  ASSUME TypeOK, Shape, Graph, NEW q \in Reqs, SocialEffect(q)
  PROVE  NoneElse'
<1> SUFFICES ASSUME NEW d \in Reqs, found'[d] # NoRow
             PROVE  /\ \A i \in rows' : SamePair(d, i)' /\ i \in before'[d] =>
                         i = found'[d] \/ Doubled(d)'
                    /\ target'[d] \in before'[d] => target'[d] = found'[d] \/ Doubled(d)'
  BY DEF NoneElse
<1>0. /\ Moves(q) /\ NoneElse /\ BeforeOver /\ RowsAdded /\ rows \subseteq Reqs
      /\ before \in [Reqs -> SUBSET Reqs]
  BY DEF Graph, SocialEffect, TypeOK, SocialTypeOK
<1>1. \A i \in rows : call'[i] = call[i]
  BY <1>0, SocialKept DEF RowsAdded
<1>2. CASE found'[d] = found[d]
  <2>1. /\ call'[d] = call[d] /\ before'[d] = before[d] /\ (Doubled(d) => Doubled(d)')
        /\ found[d] # NoRow
    BY <1>2, FoundBefore
  <2>2. ASSUME NEW i \in rows', SamePair(d, i)', i \in before'[d]
        PROVE  i = found'[d] \/ Doubled(d)'
    <3>1. i \in rows
      BY <1>0, <2>1, <2>2, RowsChange DEF Inserts, BeforeOver, Over
    <3> QED
      BY <1>0, <1>1, <1>2, <2>1, <2>2, <3>1 DEF NoneElse, SamePair, Pair
  <2>3. ASSUME target'[d] \in before'[d]
        PROVE  target'[d] = found'[d] \/ Doubled(d)'
    <3>1. CASE target'[d] = target[d]
      BY <1>0, <1>2, <2>1, <2>3, <3>1 DEF NoneElse
    <3>2. CASE d = q /\ FindsAgain(q)
      <4>1. PICK i \in rows : target' = [target EXCEPT ![q] = i] /\ Pair(call[i]) = Pair(call[q])
        BY <3>2 DEF FindsAgain, FindOne
      <4>2. target'[q] = i
        BY <4>1 DEF TypeOK, SocialTypeOK
      <4> QED
        BY <1>0, <1>2, <2>1, <2>3, <3>2, <4>1, <4>2 DEF NoneElse, SamePair
    <3>3. CASE d = q /\ Finds(q)
      <4>1. found[q] # NoRow => pc[q] \notin {"idle", "find"}
        BY FoundBefore
      <4> QED
        BY <2>1, <3>3, <4>1 DEF Finds
    <3> QED
      BY <3>1, <3>2, <3>3, RowsChange
  <2> QED
    BY <2>2, <2>3
<1>3. CASE d = q /\ Finds(q)
  <2>1. PICK i \in FindOne(call'[q]) :
          /\ found' = [found EXCEPT ![q] = i]
          /\ target' = [target EXCEPT ![q] = i] \/ target' = target
    BY <1>3 DEF Finds
  <2>2. found'[q] = i /\ rows' = rows /\ i \in rows /\ Pair(call[i]) = Pair(call'[q])
    BY <1>3, <2>1 DEF TypeOK, SocialTypeOK, Finds, FindOne
  <2>3. ASSUME NEW j \in rows, SamePair(q, j)', j # i
        PROVE  Doubled(q)'
    <3>1. Pair(call[j]) = Pair(call'[q])
      BY <1>1, <2>3 DEF SamePair, Pair
    <3> QED
      BY <2>2, <2>3, <3>1, DoubledNext
  <2>4. target'[q] = i \/ target'[q] = NoRow
    <3>1. target[q] = NoRow
      <4>1. target[q] # NoRow => found[q] # NoRow
        BY DEF Graph, Findings
      <4>2. found[q] # NoRow => pc[q] \notin {"idle", "find"}
        BY FoundBefore
      <4> QED
        BY <1>3, <4>1, <4>2 DEF Finds
    <3> QED
      BY <2>1, <3>1 DEF TypeOK, SocialTypeOK
  <2>5. before'[q] \subseteq Reqs
    BY <1>0 DEF Moves
  <2> QED
    BY <1>3, <2>2, <2>3, <2>4, <2>5, NoRowAssumption
<1> QED
  BY <1>2, <1>3, RowsChange

LEMMA NoticesGoKept ==
  ASSUME TypeOK, Shape, Graph, NEW q \in Reqs, SocialEffect(q)
  PROVE  NoticesGo'
<1> SUFFICES ASSUME NEW d \in Reqs, found'[d] # NoRow, call'[d].kind # "block", ~ NoticeDoomed(d)'
             PROVE  found'[d] \notin notices' \/ Overlap(d, found[d])' \/ d \in broken'
  BY DEF NoticesGo
<1>0. Moves(q) /\ NoticesGo /\ BeforeOver /\ AllTidy
  BY DEF Graph, SocialEffect
<1>1. CASE found'[d] = found[d]
  <2>1. /\ call'[d] = call[d] /\ found[d] # NoRow /\ pc[d] # "idle" /\ RowFor(d, found[d])
        /\ Removes(d) /\ Removes(d)'
    BY <1>1, FoundBefore
  <2>2. CASE ~ NoticeDoomed(d)
    <3>1. CASE Overlap(d, found[d])
      <4>1. found[d] \in Reqs
        BY <2>1 DEF RowFor
      <4>2. \A i \in Reqs : i = found[d] => Overlap(d, i)'
        BY <1>0, <3>1, OverlapStays
      <4> QED
        BY <1>1, <4>1, <4>2 DEF Overlap
    <3>2. CASE d \in broken
      BY <1>0, <3>2 DEF Moves
    <3>3. CASE found[d] \notin notices
      <4>1. CASE found[d] = q /\ Notes(q)
        <5>1. pc[q] # "idle" /\ ~ Over(q) /\ d \notin before[q] /\ d # q
          BY <1>0, <2>1, <4>1
          DEF Notes, NoticeDue, Over, AllTidy, Tidy, RowFor, Adds, Removes, AddSteps
        <5>2. Overlap(d, q)
          BY <1>0, <2>1, <5>1 DEF Overlap, BeforeOver
        <5>3. Overlap(d, q)'
          BY <1>0, <5>2, OverlapStays
        <5> QED
          BY <1>1, <4>1, <5>3 DEF Overlap
      <4>2. CASE ~(found[d] = q /\ Notes(q))
        BY <1>1, <3>3, <4>2, RowsChange
      <4> QED
        BY <4>1, <4>2
    <3> QED
      BY <1>0, <2>1, <2>2, <3>1, <3>2, <3>3 DEF NoticesGo
  <2>3. CASE NoticeDoomed(d)
    <3>1. d = q
      BY <1>0, <2>3 DEF Moves, NoticeDoomed
    <3>2. Looks(q) => q \in broken'
      BY <2>1, <2>3, <3>1 DEF Looks
    <3>3. ~ FindsAgain(q)
      BY <1>0, <2>3, <3>1 DEF FindsAgain, NoticeDoomed, AllTidy, Tidy
    <3>4. ~ DropsRow(q)
      BY <2>1, <2>3, <3>1 DEF DropsRow
    <3>5. DropsNotice(q) => found'[q] \notin notices'
      BY DEF DropsNotice
    <3>6. ~ Finds(q)
      BY <3>1 DEF Finds, NoticeDoomed
    <3>7. ~(Elsewhere(q) \/ Inserts(q) \/ Notes(q))
      BY <2>1, <3>1 DEF Elsewhere, Inserts, Notes, Adds, Removes, SocialOps
    <3> QED
      BY <3>1, <3>2, <3>3, <3>4, <3>5, <3>6, <3>7 DEF SocialEffect
  <2> QED
    BY <2>2, <2>3
<1>2. CASE d = q /\ Finds(q)
  BY <1>2 DEF Finds, NoticeDoomed
<1> QED
  BY <1>1, <1>2, RowsChange

LEMMA NoticesHaveRowsKept ==
  ASSUME TypeOK, Shape, Graph, NEW q \in Reqs, SocialEffect(q)
  PROVE  NoticesHaveRows'
<1> SUFFICES ASSUME NEW r \in Reqs, r \in notices' \/ (Adds(r)' /\ NoticeDue(r)')
             PROVE  r \in rows' \/ \E d \in Reqs : target'[d] = r
  BY DEF NoticesHaveRows
<1>0. Moves(q) /\ NoticesHaveRows /\ AllTidy /\ Tidy(q)'
  BY DEF Graph, SocialEffect
<1>1. CASE r \in notices \/ (Adds(r) /\ NoticeDue(r))
  <2>1. CASE r \in rows
    <3>1. r \in rows' \/ (r = target[q] /\ DropsRow(q))
      BY <2>1, RowsChange
    <3> QED
      BY <3>1 DEF DropsRow
  <2>2. CASE \E d \in Reqs : target[d] = r
    <3>1. PICK d \in Reqs : target[d] = r
      BY <2>2
    <3> QED
      BY <3>1, FoundStays, NoRowAssumption
  <2> QED
    BY <1>0, <1>1, <2>1, <2>2 DEF NoticesHaveRows
<1>2. CASE ~(r \in notices \/ (Adds(r) /\ NoticeDue(r)))
  <2>1. r \notin notices'
    BY <1>2, RowsChange DEF Notes
  <2>2. Adds(r)' /\ NoticeDue(r)'
    BY <2>1
  <2>3. r = q
    BY <1>0, <1>2, <2>2 DEF Moves, Adds, NoticeDue
  <2>4. pc'[q] \in {"saveNotice", "chores"} /\ ~ Removes(q)' /\ ~ Removes(q)
    BY <1>0, <2>2, <2>3, SocialKept DEF Tidy, NoticeDue, Adds, Removes
  <2>5. Inserts(q)
    BY <2>2, <2>3, <2>4
    DEF SocialEffect, Looks, Elsewhere, Notes, Finds, FindsAgain, DropsRow, DropsNotice,
        Adds, SocialOps
  <2> QED
    BY <2>3, <2>5 DEF Inserts
<1> QED
  BY <1>1, <1>2

LEMMA RowsHaveNoticesKept ==
  ASSUME TypeOK, Shape, Graph, NEW q \in Reqs, SocialEffect(q)
  PROVE  RowsHaveNotices'
<1> SUFFICES ASSUME NEW r \in rows', Notifies(r)'
             PROVE  \/ r \in notices' \/ NoticeDue(r)' \/ r \in broken'
                    \/ \E d \in Reqs : found'[d] = r
  BY DEF RowsHaveNotices
<1>0. Moves(q) /\ RowsHaveNotices /\ RowsAdded /\ AllTidy /\ rows \subseteq Reqs
  BY DEF Graph, SocialEffect, TypeOK, SocialTypeOK
<1>1. CASE r \in rows
  <2>1. Adds(r) /\ Adds(r)' /\ call'[r] = call[r] /\ r \in Reqs /\ Past(r)
    BY <1>0, <1>1, SocialKept DEF RowsAdded
  <2>2. Notifies(r)
    BY <2>1 DEF Notifies, Receiver
  <2>3. CASE r \in notices
    <3>1. r \in notices' \/ (r = found[q] /\ DropsNotice(q))
      BY <2>3, RowsChange
    <3> QED
      BY <3>1 DEF DropsNotice
  <2>4. CASE NoticeDue(r)
    <3>1. CASE r # q
      BY <1>0, <2>1, <2>4, <3>1 DEF Moves, NoticeDue
    <3>2. CASE r = q
      <4>1. Looks(q) \/ Notes(q)
        BY <2>1, <3>2
        DEF SocialEffect, Elsewhere, Inserts, Finds, FindsAgain, DropsRow, DropsNotice,
            Adds, Removes, SocialOps, Past
      <4> QED
        BY <2>1, <2>4, <3>2, <4>1 DEF Looks, Notes
    <3> QED
      BY <3>1, <3>2
  <2>5. CASE r \in broken
    BY <1>0, <2>5 DEF Moves
  <2>6. CASE \E d \in Reqs : found[d] = r
    BY <2>1, <2>6, FoundStays, NoRowAssumption
  <2> QED
    BY <1>0, <1>1, <2>2, <2>3, <2>4, <2>5, <2>6 DEF RowsHaveNotices
<1>2. CASE r \notin rows
  <2>1. r = q /\ Inserts(q)
    BY <1>2, RowsChange
  <2>2. call'[q] = call[q]
    BY <1>0, <2>1 DEF Inserts, Moves
  <2> QED
    BY <2>1, <2>2 DEF Inserts, Notifies, Receiver
<1> QED
  BY <1>1, <1>2

LEMMA GraphEnds ==
  ASSUME TypeOK, Shape, Graph, Ends, UNCHANGED socialVars
  PROVE  Graph'
<1> USE DEF socialVars
<1>0. /\ call' = call /\ before' = before /\ UNCHANGED <<rows, notices, found, target>>
      /\ \A r \in Reqs : chores'[r] = {} /\ (Underway(r) => pc'[r] = "done" /\ r \in broken')
      /\ \A r \in Reqs : ~ Underway(r) => pc'[r] = pc[r]
      /\ broken \subseteq broken' /\ rows \subseteq Reqs /\ notices \subseteq Reqs
  BY DEF Ends, TypeOK, SocialTypeOK
<1>1. AllTidy' /\ BeforeOver'
  BY TidyEnds, BeforeEnds DEF Graph
<1>2. \A r \in Reqs : /\ Past(r) => Past(r)'
                      /\ ~ Looked(r)' /\ ~ NoticeDue(r)' /\ ~ NoticeDoomed(r)'
                      /\ ~ RowDoomed(r)' /\ ~ Deletes(r)'
                      /\ pc'[r] = "find" => pc[r] = "find"
  BY <1>0 DEF Past, Looked, NoticeDue, NoticeDoomed, RowDoomed, Deletes, Underway
<1>3. \A r \in Reqs : Adds(r) \/ Removes(r) =>
        /\ NoticeDue(r) \/ NoticeDoomed(r) \/ RowDoomed(r) => r \in broken'
  BY <1>0 DEF Graph, AllTidy, Tidy, NoticeDue, NoticeDoomed, RowDoomed, Deletes, Underway
<1>4. \A r, s \in Reqs : Overlap(r, s) => Overlap(r, s)'
  BY <1>0, OverlapStays
<1>5. \A r \in Reqs : Doubled(r) => Doubled(r)'
  BY <1>0, <1>4 DEF Doubled, SamePair, Pair, Adds
<1>6. RowsAdded' /\ RowsOverlap' /\ NoneSeen'
  BY <1>0, <1>2, <1>4 DEF Graph, RowsAdded, RowsOverlap, NoneSeen, Adds, SamePair, Pair
<1>7. \A d \in Reqs, i \in Reqs : RowFor(d, i) => RowFor(d, i)'
  BY <1>0, <1>2 DEF RowFor, Adds, SamePair, Pair
<1>8. Findings'
  <2> SUFFICES ASSUME NEW d \in Reqs
               PROVE  /\ found[d] # NoRow => Removes(d)' /\ pc'[d] # "find" /\ RowFor(d, found[d])'
                      /\ target[d] # NoRow => found[d] # NoRow /\ RowFor(d, target[d])'
    BY <1>0, <1>2 DEF Findings
  <2>1. found[d] # NoRow => Removes(d) /\ pc[d] # "find" /\ RowFor(d, found[d])
    BY DEF Graph, Findings
  <2>2. target[d] # NoRow => found[d] # NoRow /\ RowFor(d, target[d])
    BY DEF Graph, Findings
  <2>3. found[d] # NoRow => RowFor(d, found[d])'
    BY <1>0, <1>2, <2>1 DEF RowFor, Adds, SamePair, Pair
  <2>4. target[d] # NoRow => RowFor(d, target[d])'
    BY <1>0, <1>2, <2>2 DEF RowFor, Adds, SamePair, Pair
  <2> QED
    BY <1>0, <1>2, <2>1, <2>2, <2>3, <2>4 DEF Removes
<1>9. \A d \in Reqs : found[d] # NoRow => Removes(d) /\ RowFor(d, found[d])
  BY DEF Graph, Findings
<1>10. RowsGo' /\ NoneElse'
  <2>1. \A d \in Reqs : RowGone(d) => RowGone(d)'
    BY <1>0, <1>5 DEF RowGone
  <2>2. RowsGo'
    BY <1>0, <1>2, <1>3, <1>9, <2>1 DEF Graph, RowsGo
  <2>3. NoneElse'
    BY <1>0, <1>5 DEF Graph, NoneElse, SamePair, Pair
  <2> QED
    BY <2>2, <2>3
<1>11. NoticesGo'
  <2> SUFFICES ASSUME NEW d \in Reqs, found[d] # NoRow, call[d].kind # "block"
               PROVE  found[d] \notin notices \/ Overlap(d, found[d])' \/ d \in broken'
    BY <1>0 DEF NoticesGo
  <2>1. found[d] \in Reqs /\ Removes(d)
    BY <1>9 DEF RowFor
  <2>2. Overlap(d, found[d]) => Overlap(d, found[d])'
    BY <1>0, <1>4, <2>1 DEF Overlap
  <2> QED
    BY <1>0, <1>3, <2>1, <2>2 DEF Graph, NoticesGo
<1>12. NoticesHaveRows' /\ RowsHaveNotices'
  <2>1. NoticesHaveRows'
    BY <1>0, <1>2 DEF Graph, NoticesHaveRows
  <2>2. ASSUME NEW r \in rows, Notifies(r)'
        PROVE  r \in notices \/ r \in broken' \/ \E d \in Reqs : found[d] = r
    <3>1. Notifies(r) /\ Adds(r) /\ r \in Reqs
      BY <1>0, <2>2 DEF Notifies, Receiver, Graph, RowsAdded
    <3> QED
      BY <1>0, <1>3, <3>1 DEF Graph, RowsHaveNotices
  <2> QED
    BY <1>0, <2>1, <2>2 DEF RowsHaveNotices
<1> QED
  BY <1>1, <1>6, <1>8, <1>10, <1>11, <1>12 DEF Graph

LEMMA GraphInit ==
  ASSUME Init
  PROVE  Graph
<1> USE OldAssumption
<1>1. \A r \in Reqs : /\ pc[r] \in {"idle", "done"} /\ chores[r] = {} /\ before[r] = {}
                      /\ pc[r] = "idle" => call[r].op = "none"
                      /\ ~ Removes(r)
                      /\ r \in OldRow => pc[r] = "done" /\ Adds(r)
                      /\ found[r] = NoRow /\ target[r] = NoRow
  BY DEF Init, RequestsInit, SocialInit, NoCall, Adds, Removes
<1>2. rows = OldRow /\ notices = OldRow
  BY DEF Init, SocialInit
<1>3. \A r \in Reqs : ~ Looked(r) /\ ~ NoticeDue(r) /\ ~ Deletes(r) /\ "findAgain" \notin chores[r]
  BY <1>1 DEF Looked, NoticeDue, Deletes
<1>4. AllTidy /\ BeforeOver
  BY <1>1 DEF AllTidy, Tidy, BeforeOver, Adds, Removes, AddSteps
<1>5. RowsAdded /\ RowsOverlap /\ NoneSeen
  BY <1>1, <1>2, <1>3 DEF RowsAdded, RowsOverlap, NoneSeen, Past, Overlap
<1>6. Findings /\ RowsGo /\ NoneElse /\ NoticesGo
  BY <1>1, <1>3 DEF Findings, RowsGo, NoneElse, NoticesGo
<1>7. NoticesHaveRows /\ RowsHaveNotices
  BY <1>1, <1>2, <1>3 DEF NoticesHaveRows, RowsHaveNotices
<1> QED
  BY <1>4, <1>5, <1>6, <1>7 DEF Graph

LEMMA GraphStep ==
  ASSUME TypeOK, Shape, Graph, [Next]_vars
  PROVE  Graph'
<1>1. ASSUME NEW q \in Reqs, SocialEffect(q)
      PROVE  Graph'
  <2>1. AllTidy' /\ BeforeOver'
    <3>1. Base
      BY DEF TypeOK, Base
    <3> QED
      BY <1>1, <3>1, TidyKept, BeforeMoves DEF SocialEffect, Graph
  <2> QED
    BY <1>1, <2>1, RowsAddedKept, RowsOverlapKept, FindingsKept, RowsGoKept, NoneElseKept,
       NoticesGoKept, NoticesHaveRowsKept, RowsHaveNoticesKept DEF Graph
<1>2. CASE Ends /\ UNCHANGED socialVars
  BY <1>2, GraphEnds
<1>3. CASE UNCHANGED vars
  <2>1. UNCHANGED <<pc, call, chores, before, broken, rows, notices, found, target>>
    BY <1>3 DEF vars, requestVars, socialVars
  <2>2. AllTidy' /\ BeforeOver'
    BY <2>1 DEF Graph, AllTidy, Tidy, BeforeOver, Over, Adds, Removes
  <2>3. RowsAdded' /\ RowsOverlap' /\ NoneSeen' /\ Findings'
    BY <2>1 DEF Graph, RowsAdded, RowsOverlap, NoneSeen, Findings, RowFor, Adds, Removes, Past,
                Looked, Deletes, SamePair, Pair, Overlap
  <2>4. RowsGo' /\ NoneElse'
    BY <2>1 DEF Graph, RowsGo, NoneElse, RowGone, RowDoomed, Deletes, Doubled, SamePair, Pair,
                Overlap, Adds
  <2>5. NoticesGo' /\ NoticesHaveRows' /\ RowsHaveNotices'
    BY <2>1 DEF Graph, NoticesGo, NoticesHaveRows, RowsHaveNotices, NoticeDoomed, NoticeDue,
                Overlap, Adds, Notifies, Receiver
  <2> QED
    BY <2>2, <2>3, <2>4, <2>5 DEF Graph
<1> QED
  BY <1>1, <1>2, <1>3, StepSocial DEF Graph

(* What the invariant says of a row and its notification.                   *)
LEMMA GraphMatches ==
  ASSUME TypeOK, Shape, Graph
  PROVE  NoticesMatchRows
<1> SUFFICES ASSUME NEW r \in Reqs, Adds(r), Over(r), r \notin broken, Notifies(r),
                    ~ (r \in rows <=> r \in notices), ~ Doubled(r),
                    \A d \in Reqs : Removes(d) /\ SamePair(r, d) =>
                      ~ Underway(d) /\ d \notin broken /\ ~ Overlap(d, r)
             PROVE  FALSE
  BY DEF NoticesMatchRows
<1>0. ~ NoticeDue(r) /\ pc[r] # "idle"
  BY DEF Graph, AllTidy, Tidy, NoticeDue, Over
<1>1. \A d \in Reqs : SamePair(d, r) => (Doubled(d) <=> Doubled(r))
  BY DEF Doubled, SamePair
<1>2. ASSUME NEW d \in Reqs, Removes(d), SamePair(d, r)
      PROVE  /\ ~ Doubled(d) /\ Over(d) /\ d \notin broken /\ ~ Overlap(d, r)
             /\ ~ RowDoomed(d) /\ ~ NoticeDoomed(d) /\ d # r
  <2>1. ~ Underway(d) /\ d \notin broken /\ ~ Overlap(d, r) /\ ~ Doubled(d)
    BY <1>1, <1>2 DEF SamePair
  <2>2. pc[d] # "idle"
    BY <1>2 DEF Graph, AllTidy, Tidy, RemoveSteps
  <2>3. Over(d) /\ chores[d] = {}
    BY <1>2, <2>1, <2>2 DEF Over, Underway, Graph, AllTidy, Tidy
  <2> QED
    BY <1>2, <2>1, <2>3 DEF Over, RowDoomed, NoticeDoomed, Deletes, Adds, Removes
<1>3. CASE r \in rows /\ r \notin notices
  <2>1. PICK d \in Reqs : found[d] = r
    BY <1>0, <1>3 DEF Graph, RowsHaveNotices
  <2>2. found[d] # NoRow /\ Removes(d) /\ SamePair(d, r)
    BY <2>1, NoRowAssumption DEF Graph, Findings, RowFor
  <2> QED
    BY <1>2, <1>3, <2>1, <2>2 DEF Graph, RowsGo, RowGone
<1>4. CASE r \in notices /\ r \notin rows
  <2>1. PICK d \in Reqs : target[d] = r
    BY <1>4 DEF Graph, NoticesHaveRows
  <2>2. /\ found[d] # NoRow /\ Removes(d) /\ SamePair(d, r) /\ d \notin before[r]
        /\ RowFor(d, found[d])
    BY <2>1, NoRowAssumption DEF Graph, Findings, RowFor
  <2>3. r \in before[d] /\ call[d].kind # "block"
    BY <1>0, <1>2, <2>2 DEF Overlap, Over, SamePair, Pair, Notifies
  <2>4. found[d] = r
    BY <1>2, <2>1, <2>2, <2>3 DEF Graph, NoneElse
  <2> QED
    BY <1>2, <1>4, <2>2, <2>3, <2>4 DEF Graph, NoticesGo
<1> QED
  BY <1>3, <1>4

\* A good or a follow inserts a row and a notification in two steps, the second of a
\* good without await, and a removal deletes them in two: they are there together, or
\* neither is, unless one of the requests broke off or a removal overlapped.
THEOREM NoticesFollowRows ==
  Spec => []NoticesMatchRows
<1> DEFINE IInv == TypeOK /\ Shape /\ Graph
<1>1. Init => IInv
  BY InitShape, GraphInit
<1>2. IInv /\ [Next]_vars => IInv'
  BY StepActs, GraphStep
<1>3. IInv => NoticesMatchRows
  BY GraphMatches
<1> QED
  BY <1>1, <1>2, <1>3, PTL DEF Spec

-----------------------------------------------------------------------------
(* The last request about a pair                                            *)

Last(r) ==
  \A s \in Reqs \ {r} : (Adds(s) \/ Removes(s)) /\ SamePair(r, s) => s \in before[r]

LastWords ==
  \A r \in Reqs : Last(r) /\ r \notin broken =>
    /\ Adds(r) /\ Past(r) => FindOne(call[r]) # {}
    /\ Removes(r) /\ Deletes(r) => FindOne(call[r]) \subseteq {target[r]} \/ Doubled(r)
    /\ Removes(r) /\ ~ RowDoomed(r) => FindOne(call[r]) = {} \/ Doubled(r)

LEMMA LastStays ==
  ASSUME Shape, NEW q \in Reqs, Moves(q) \/ Ends, NEW r \in Reqs, Adds(r) \/ Removes(r), Last(r)'
  PROVE  Last(r)
<1> SUFFICES ASSUME NEW s \in Reqs \ {r}, Adds(s) \/ Removes(s), SamePair(r, s)
             PROVE  s \in before[r]
  BY DEF Last
<1>1. call'[s] = call[s] /\ call'[r] = call[r] /\ before'[r] = before[r]
  BY SocialKept
<1> QED
  BY <1>1 DEF Last, Adds, Removes, SamePair, Pair

(* The rows of its pair stay as they are while nobody else is about.        *)
LEMMA LastAlone ==
  ASSUME TypeOK, Shape, Graph, NEW q \in Reqs, SocialEffect(q), NEW r \in Reqs, r # q,
         Adds(r) \/ Removes(r), Last(r)
  PROVE  FindOne(call[r])' = FindOne(call[r])
<1>0. Moves(q) /\ BeforeOver /\ AllTidy /\ Findings /\ RowsAdded /\ rows \subseteq Reqs
  BY DEF Graph, SocialEffect, TypeOK, SocialTypeOK
<1>1. call'[r] = call[r] /\ \A i \in rows : call'[i] = call[i]
  BY <1>0, SocialKept DEF RowsAdded
<1>2. ASSUME Adds(q) \/ Removes(q), SamePair(r, q)
      PROVE  Over(q)
  BY <1>0, <1>2 DEF Last, BeforeOver
<1>3. ASSUME NEW i \in rows', i \notin rows
      PROVE  Pair(call'[i]) # Pair(call'[r])
  <2>1. i = q /\ Inserts(q) /\ call'[q] = call[q]
    BY <1>0, <1>3, RowsChange, SocialKept DEF Inserts
  <2>2. ~ SamePair(r, q)
    BY <1>2, <2>1 DEF Inserts, Over
  <2> QED
    BY <1>1, <2>1, <2>2 DEF SamePair
<1>4. ASSUME NEW i \in rows, i \notin rows'
      PROVE  Pair(call[i]) # Pair(call[r])
  <2>1. i = target[q] /\ DropsRow(q)
    BY <1>4, RowsChange
  <2>2. Removes(q) /\ ~ Over(q)
    BY <1>0, <2>1 DEF DropsRow, AllTidy, Tidy, Deletes, Over
  <2>3. SamePair(q, i)
    BY <1>0, <2>1 DEF DropsRow, Findings, RowFor
  <2> QED
    BY <1>2, <2>2, <2>3 DEF SamePair
<1> QED
  BY <1>1, <1>3, <1>4 DEF FindOne, Pair

LEMMA LastWordsKept ==
  ASSUME TypeOK, Shape, Graph, LastWords, NEW q \in Reqs, SocialEffect(q)
  PROVE  LastWords'
<1> SUFFICES ASSUME NEW r \in Reqs, Last(r)', r \notin broken'
             PROVE  /\ Adds(r)' /\ Past(r)' => FindOne(call[r])' # {}
                    /\ Removes(r)' /\ Deletes(r)' =>
                         FindOne(call[r])' \subseteq {target'[r]} \/ Doubled(r)'
                    /\ Removes(r)' /\ ~ RowDoomed(r)' => FindOne(call[r])' = {} \/ Doubled(r)'
  BY DEF LastWords
<1>0. /\ Moves(q) /\ RowsAdded /\ rows \subseteq Reqs /\ r \notin broken
      /\ \A i \in rows : call'[i] = call[i]
  <2>1. Moves(q) /\ RowsAdded /\ rows \subseteq Reqs
    BY DEF Graph, SocialEffect, TypeOK, SocialTypeOK
  <2> QED
    BY <2>1, SocialKept DEF RowsAdded, Moves
<1>1. ASSUME Adds(r) \/ Removes(r)
      PROVE  /\ Last(r) /\ call'[r] = call[r] /\ (Adds(r)' <=> Adds(r)) /\ (Removes(r)' <=> Removes(r))
             /\ Doubled(r) => Doubled(r)'
  BY <1>0, <1>1, LastStays, SocialKept, DoubledStays
<1>2. CASE r # q
  <2>1. /\ pc'[r] = pc[r] /\ chores'[r] = chores[r] /\ call'[r] = call[r]
        /\ target'[r] = target[r]
    BY <1>0, <1>2, RowsChange DEF Moves
  <2>2. CASE Adds(r) \/ Removes(r)
    <3>1. FindOne(call[r])' = FindOne(call[r])
      BY <1>1, <1>2, <2>2, LastAlone
    <3> QED
      BY <1>0, <1>1, <2>1, <2>2, <3>1 DEF LastWords, Past, Deletes, RowDoomed
  <2>3. CASE ~(Adds(r) \/ Removes(r))
    BY <2>1, <2>3 DEF Adds, Removes
  <2> QED
    BY <2>2, <2>3
<1>3. ASSUME rows' = rows
      PROVE  FindOne(call[r])' = FindOne(call'[r])
  BY <1>0, <1>3 DEF FindOne, Pair
<1>4. CASE r = q /\ Looks(q)
  BY <1>3, <1>4 DEF Looks, socialVars
<1>5. CASE r = q /\ Elsewhere(q)
  BY <1>5 DEF Elsewhere, Adds, Removes, SocialOps
<1>6. CASE r = q /\ Inserts(q)
  <2>1. q \in FindOne(call[q])'
    BY <1>6 DEF Inserts, FindOne
  <2> QED
    BY <1>1, <1>6, <2>1 DEF Inserts, Adds, Removes
<1>7. CASE r = q /\ Notes(q)
  <2>1. Past(q) /\ Adds(q) /\ rows' = rows
    BY <1>7 DEF Notes, NoticeDue, Past, Graph, AllTidy, Tidy
  <2> QED
    BY <1>0, <1>1, <1>3, <1>7, <2>1 DEF LastWords, Adds, Removes
<1>8. ASSUME r = q, rows' = rows, NEW i \in FindOne(call'[q])
      PROVE  FindOne(call[r])' \subseteq {i} \/ Doubled(r)'
  <2>1. i \in rows /\ Pair(call[i]) = Pair(call'[q])
    BY <1>8 DEF FindOne
  <2>2. ASSUME NEW j \in FindOne(call'[q]), j # i
        PROVE  Doubled(q)'
    BY <2>1, <2>2, DoubledNext DEF FindOne
  <2> QED
    BY <1>3, <1>8, <2>2
<1>9. CASE r = q /\ Finds(q)
  <2>1. PICK i \in FindOne(call'[q]) :
          \/ target' = [target EXCEPT ![q] = i]
          \/ ~ Deletes(q)'
    BY <1>9 DEF Finds, Deletes
  <2>2. target'[q] = i \/ ~ Deletes(q)'
    BY <2>1 DEF TypeOK, SocialTypeOK
  <2>3. RowDoomed(q)' /\ ~ Adds(q)' /\ rows' = rows
    BY <1>9 DEF Finds, RowDoomed, Deletes, Adds, Removes
  <2> QED
    BY <1>8, <1>9, <2>1, <2>2, <2>3
<1>10. CASE r = q /\ FindsAgain(q)
  <2>1. PICK i \in FindOne(call[q]) : target' = [target EXCEPT ![q] = i]
    BY <1>10 DEF FindsAgain
  <2>2. target'[q] = i
    BY <2>1 DEF TypeOK, SocialTypeOK
  <2>3. RowDoomed(q)' /\ ~ Adds(q)' /\ rows' = rows /\ call'[q] = call[q]
    BY <1>1, <1>10 DEF FindsAgain, RowDoomed, Deletes, Adds, Removes
  <2> QED
    BY <1>8, <1>10, <2>1, <2>2, <2>3
<1>11. CASE r = q /\ DropsRow(q)
  <2>1. /\ Removes(q) /\ Deletes(q) /\ ~ RowDoomed(q)' /\ rows' = rows \ {target[q]}
        /\ ~ Deletes(q)' /\ ~ Adds(q)'
    BY <1>1, <1>11 DEF DropsRow, RowDoomed, Adds, Removes
  <2>2. FindOne(call[q]) \subseteq {target[q]} \/ Doubled(q)
    BY <1>0, <1>1, <1>11, <2>1 DEF LastWords
  <2>3. FindOne(call[q])' = FindOne(call[q]) \ {target[q]}
    BY <1>0, <1>1, <1>11, <2>1 DEF FindOne, Pair
  <2> QED
    BY <1>1, <1>11, <2>1, <2>2, <2>3
<1>12. CASE r = q /\ DropsNotice(q)
  <2>1. /\ Removes(q) /\ rows' = rows /\ target' = target /\ ~ Adds(q)'
        /\ (RowDoomed(q)' <=> RowDoomed(q)) /\ (Deletes(q)' <=> Deletes(q))
    BY <1>1, <1>12 DEF DropsNotice, RowDoomed, Adds, Removes
  <2>2. FindOne(call[q])' = FindOne(call[q])
    BY <1>1, <1>3, <1>12, <2>1
  <2> QED
    BY <1>0, <1>1, <1>12, <2>1, <2>2 DEF LastWords
<1> QED
  BY <1>2, <1>4, <1>5, <1>6, <1>7, <1>9, <1>10, <1>11, <1>12 DEF SocialEffect

LEMMA FiniteKept ==
  ASSUME TypeOK, Shape, Graph, IsFiniteSet(rows), NEW q \in Reqs, SocialEffect(q)
  PROVE  IsFiniteSet(rows')
<1>1. rows' \subseteq rows \cup {q}
  BY RowsChange
<1>2. IsFiniteSet(rows \cup {q})
  BY FS_AddElement
<1> QED
  BY <1>1, <1>2, FS_Subset

LEMMA LastStep ==
  ASSUME TypeOK, Shape, Graph, LastWords, IsFiniteSet(rows), [Next]_vars
  PROVE  LastWords' /\ IsFiniteSet(rows')
<1>1. ASSUME NEW q \in Reqs, SocialEffect(q)
      PROVE  LastWords' /\ IsFiniteSet(rows')
  BY <1>1, LastWordsKept, FiniteKept
<1>2. CASE Ends /\ UNCHANGED socialVars
  <2>1. call' = call /\ before' = before /\ rows' = rows /\ target' = target
    BY <1>2 DEF Ends, socialVars
  <2>2. ASSUME NEW r \in Reqs, Last(r)', r \notin broken'
        PROVE  /\ Adds(r)' /\ Past(r)' => FindOne(call[r])' # {}
               /\ ~ Deletes(r)'
               /\ Removes(r)' => FindOne(call[r])' = {} \/ Doubled(r)'
    <3>1. /\ Last(r) /\ r \notin broken /\ (Adds(r)' <=> Adds(r)) /\ (Removes(r)' <=> Removes(r))
          /\ FindOne(call[r])' = FindOne(call[r])
      BY <1>2, <2>1, <2>2 DEF Last, Adds, Removes, SamePair, Pair, FindOne, Ends
    <3>2. ~ Underway(r) /\ pc'[r] = pc[r] /\ chores'[r] = {}
      BY <1>2, <2>2 DEF Ends
    <3>3. ~ Deletes(r)' /\ (Past(r)' => Past(r))
      BY <3>2 DEF Deletes, Past, Underway
    <3>4. Removes(r) => ~ RowDoomed(r)
      BY <3>2 DEF Graph, AllTidy, Tidy, RowDoomed, Deletes, Underway
    <3>5. Removes(r) /\ Doubled(r) => Doubled(r)'
      BY <1>2, DoubledStays
    <3> QED
      BY <3>1, <3>3, <3>4, <3>5 DEF LastWords
  <2> QED
    BY <2>1, <2>2 DEF LastWords
<1>3. CASE UNCHANGED vars
  BY <1>3 DEF vars, requestVars, socialVars, LastWords, Last, Adds, Removes, SamePair, Pair, Past,
              Deletes, RowDoomed, FindOne, Doubled, Overlap
<1> QED
  BY <1>1, <1>2, <1>3, StepSocial DEF Graph

LEMMA LastInit ==
  ASSUME Init
  PROVE  LastWords /\ IsFiniteSet(rows)
<1> USE OldAssumption
<1>1. rows = OldRow
  BY DEF Init, SocialInit
<1>2. \A r \in Reqs : Adds(r) /\ Past(r) => r \in OldRow \cup OldResult
  BY DEF Init, RequestsInit, Adds, Past
<1>3. \A r \in OldResult : ~ Adds(r) \/ r \in OldRow
  BY DEF Init, RequestsInit, Adds
<1>4. \A r \in Reqs : ~ Removes(r)
  BY DEF Init, RequestsInit, Removes, NoCall
<1>5. \A r \in OldRow : r \in FindOne(call[r])
  BY <1>1 DEF FindOne
<1> QED
  BY <1>1, <1>2, <1>3, <1>4, <1>5 DEF LastWords

LEMMA LastCounts ==
  ASSUME TypeOK, Shape, Graph, LastWords, IsFiniteSet(rows)
  PROVE  LastWordCounts
<1> SUFFICES
      ASSUME NEW r \in Reqs, Adds(r) \/ Removes(r), Over(r), r \notin broken, Last(r)
      PROVE  /\ \/ Cardinality(FindOne(call[r])) = (IF Adds(r) THEN 1 ELSE 0)
                \/ Doubled(r) /\ FindOne(call[r]) # {}
             /\ call[r].kind = "good" /\ ~ Doubled(r) =>
                  /\ GoodsShown(call[r].to, call[r].by).isGood = Adds(r)
                  /\ Adds(r) => GoodsShown(call[r].to, call[r].by).count > 0
             /\ call[r].kind = "follow" /\ ~ Doubled(r) =>
                  /\ GetGallery(call[r].to, call[r].by).isFollowed = Adds(r)
                  /\ Adds(r) => GetGallery(call[r].to, call[r].by).followerCount > 0
  BY DEF LastWordCounts, Last
<1> DEFINE F == FindOne(call[r])
<1>1. Past(r) /\ (Removes(r) => ~ RowDoomed(r))
  BY DEF Past, Over, Graph, AllTidy, Tidy, RowDoomed, Deletes
<1>2. Adds(r) => F # {}
  BY <1>1 DEF LastWords
<1>3. Removes(r) => F = {} \/ Doubled(r)
  BY <1>1 DEF LastWords
<1>4. Adds(r) <=> ~ Removes(r)
  BY DEF Adds, Removes
<1>5. ASSUME NEW i \in F, NEW j \in F, i # j
      PROVE  Doubled(r)
  <2>1. i \in rows /\ j \in rows /\ SamePair(r, i) /\ SamePair(r, j) /\ SamePair(i, j)
    BY DEF FindOne, SamePair
  <2>2. Overlap(i, j) /\ Adds(i) /\ Adds(j) /\ i \in Reqs /\ j \in Reqs
    BY <1>5, <2>1 DEF Graph, RowsOverlap, RowsAdded, TypeOK, SocialTypeOK
  <2> QED
    BY <2>1, <2>2 DEF Doubled
<1>6. ~ Doubled(r) => Cardinality(F) = (IF Adds(r) THEN 1 ELSE 0)
  <2>1. CASE Adds(r) /\ ~ Doubled(r)
    <3>1. PICK i \in F : TRUE
      BY <1>2, <2>1
    <3>2. F = {i}
      BY <1>5, <2>1, <3>1
    <3> QED
      BY <2>1, <3>2, FS_Singleton
  <2>2. CASE ~ Adds(r) /\ ~ Doubled(r)
    BY <1>3, <1>4, <2>2, FS_EmptySet
  <2> QED
    BY <2>1, <2>2
<1>7. Cardinality(F) = 0 <=> F = {}
  BY FS_Subset, FS_EmptySet DEF FindOne
<1>8. \/ Cardinality(F) = (IF Adds(r) THEN 1 ELSE 0)
      \/ Doubled(r) /\ F # {}
  BY <1>2, <1>4, <1>6, <1>7
<1>9. ASSUME NEW S \in SUBSET rows, NEW i \in S
      PROVE  Cardinality(S) > 0
  <2>1. IsFiniteSet(S)
    BY FS_Subset
  <2>2. Cardinality(S) \in Nat /\ Cardinality(S) # 0
    BY <2>1, <1>9, FS_CardinalityType, FS_EmptySet
  <2> QED
    BY <2>2
<1>10. ASSUME call[r].kind = "good", ~ Doubled(r)
       PROVE  /\ GoodsShown(call[r].to, call[r].by).isGood = Adds(r)
              /\ Adds(r) => GoodsShown(call[r].to, call[r].by).count > 0
  <2>1. {i \in rows : Pair(call[i]) = <<"good", call[r].by, call[r].to>>} = F
    BY <1>10 DEF FindOne, Pair
  <2>2. GoodsShown(call[r].to, call[r].by).isGood = (Cardinality(F) # 0)
    BY <2>1 DEF GoodsShown, CountGoodByParentIdAndMemberId
  <2>3. (Cardinality(F) # 0) = Adds(r)
    BY <1>6, <1>10 DEF Adds
  <2>4. ASSUME Adds(r)
        PROVE  CountGood(call[r].to) > 0
    <3>1. PICK i \in F : TRUE
      BY <1>2, <2>4
    <3>2. i \in {x \in rows : call[x].kind = "good" /\ call[x].to = call[r].to}
      BY <1>10, <3>1 DEF FindOne, Pair
    <3> QED
      BY <1>9, <3>2 DEF CountGood
  <2> QED
    BY <2>2, <2>3, <2>4 DEF GoodsShown
<1>11. ASSUME call[r].kind = "follow", ~ Doubled(r)
       PROVE  /\ GetGallery(call[r].to, call[r].by).isFollowed = Adds(r)
              /\ Adds(r) => GetGallery(call[r].to, call[r].by).followerCount > 0
  <2>1. \A i \in rows : (i \in FindMyFollower(call[r].to) /\ call[i].by = call[r].by) <=> i \in F
    BY <1>11 DEF FindMyFollower, FindOne, Pair
  <2>2. (\E i \in FindMyFollower(call[r].to) : call[i].by = call[r].by) <=> F # {}
    BY <2>1 DEF FindMyFollower, FindOne
  <2>3. F # {} <=> Adds(r)
    BY <1>2, <1>3, <1>4, <1>11
  <2>4. GetGallery(call[r].to, call[r].by).isFollowed = Adds(r)
    BY <2>2, <2>3 DEF GetGallery, Adds
  <2>5. ASSUME Adds(r)
        PROVE  Cardinality(FindMyFollower(call[r].to)) > 0
    <3>1. PICK i \in F : TRUE
      BY <1>2, <2>5
    <3>2. i \in FindMyFollower(call[r].to) /\ FindMyFollower(call[r].to) \in SUBSET rows
      BY <2>1, <3>1 DEF FindMyFollower, FindOne
    <3> QED
      BY <1>9, <3>2
  <2> QED
    BY <2>4, <2>5 DEF GetGallery
<1> QED
  BY <1>8, <1>10, <1>11

\* A request about a row that comes when all others of its pair are over, and does not
\* break off, has the last word: one row, or none, and what a post or a gallery shows.
THEOREM LastWordsCount ==
  Spec => []LastWordCounts
<1> DEFINE IInv == TypeOK /\ Shape /\ Graph /\ LastWords /\ IsFiniteSet(rows)
<1>1. Init => IInv
  BY InitShape, GraphInit, LastInit
<1>2. IInv /\ [Next]_vars => IInv'
  BY StepActs, GraphStep, LastStep
<1>3. IInv => LastWordCounts
  BY LastCounts
<1> QED
  BY <1>1, <1>2, <1>3, PTL DEF Spec

-----------------------------------------------------------------------------
(* The marks of a timeline: what comes to it                                *)

(* What has a status, is decided on, rewritten or applied for has content.  *)
Contents ==
  \A r \in Reqs :
    /\ review[r] # "none" => content[r] \in Reqs
    /\ call[r].op \in {"modify", "review"} => content[call[r].on] \in Reqs
    /\ call[r].op \in {"register", "modify"} /\ pc[r] = "chores" => content[ResultOf(r)] \in Reqs

LEMMA ContentsKept ==
  ASSUME TypeOK, Shape, Registry, Contents, NEW q \in Reqs, Effect(q)
  PROVE  Contents'
<1>0. Moves(q) /\ AboutRegistered /\ content \in [Reqs -> Reqs \cup {Nobody}]
      /\ review \in [Reqs -> ReviewStatus]
  BY DEF Effect, Registry, TypeOK, FishingTypeOK
<1>1. ASSUME NEW x \in Reqs, content[x] \in Reqs
      PROVE  content'[x] \in Reqs
  BY <1>0, <1>1 DEF Effect, Quiet, Arrives, Writes, Saves, Decides, fishingVars
<1>2. ASSUME NEW r \in Reqs, review'[r] # "none"
      PROVE  content'[r] \in Reqs
  <2>1. CASE review[r] # "none"
    BY <1>1, <2>1 DEF Contents
  <2>2. CASE Saves(q) /\ ResultOf(q) = r
    BY <1>1, <2>2 DEF Contents, Saves
  <2>3. CASE Decides(q) /\ call[q].on = r
    BY <1>1, <2>3 DEF Contents, Decides
  <2> QED
    BY <1>0, <1>2, <2>1, <2>2, <2>3 DEF Effect, Quiet, Arrives, Writes, Saves, Decides, fishingVars
<1>3. ASSUME NEW r \in Reqs, call'[r].op \in {"modify", "review"}
      PROVE  content'[call'[r].on] \in Reqs
  <2>1. CASE pc[r] # "idle"
    <3>1. call'[r] = call[r] /\ call[r].on \in Reqs /\ content[call[r].on] \in Reqs
      BY <1>0, <1>3, <2>1 DEF Moves, AboutRegistered, Contents
    <3> QED
      BY <1>1, <3>1
  <2>2. CASE pc[r] = "idle"
    <3>1. r = q
      <4>1. call[r].op # "none" => pc[r] # "idle"
        BY <1>0, FishingKept
      <4> QED
        BY <1>0, <1>3, <2>2, <4>1 DEF Moves
    <3>2. Arrives(q)
      BY <1>3, <2>2, <3>1 DEF Effect, Quiet, Writes, Saves, Decides, FishingOps
    <3>3. /\ call'[q].on \in Reqs /\ content' = content
          /\ content[call'[q].on] # Nobody \/ review[call'[q].on] # "none"
      BY <1>3, <3>1, <3>2 DEF Arrives, fishingVars
    <3> QED
      BY <1>0, <3>1, <3>3 DEF Contents
  <2> QED
    BY <2>1, <2>2
<1>4. ASSUME NEW r \in Reqs, call'[r].op \in {"register", "modify"}, pc'[r] = "chores"
      PROVE  content'[ResultOf(r)'] \in Reqs
  <2>1. /\ pc[r] = "chores" \/ (r = q /\ Writes(q))
        /\ pc[r] # "idle"
    <3>1. CASE r # q
      BY <1>0, <1>4, <3>1 DEF Moves
    <3>2. CASE r = q
      BY <1>4, <3>2 DEF Effect, Quiet, Arrives, Writes, Saves, Decides, FishingOps
    <3> QED
      BY <3>1, <3>2
  <2>2. call'[r] = call[r] /\ ResultOf(r)' = ResultOf(r)
    BY <1>0, <2>1 DEF Moves, ResultOf
  <2>3. ResultOf(r) \in Reqs
    BY <1>0, <1>4, <2>2 DEF ResultOf, AboutRegistered
  <2>4. CASE pc[r] = "chores"
    BY <1>1, <1>4, <2>2, <2>3, <2>4 DEF Contents
  <2>5. CASE r = q /\ Writes(q)
    BY <1>0, <2>2, <2>3, <2>5 DEF Writes
  <2> QED
    BY <2>1, <2>4, <2>5
<1> QED
  BY <1>2, <1>3, <1>4 DEF Contents

LEMMA ContentsInit ==
  ASSUME Init
  PROVE  Contents
<1> USE OldAssumption
<1>1. \A r \in Reqs : /\ pc[r] \in {"idle", "done"}
                      /\ call[r].op \notin {"modify", "review"}
                      /\ review[r] # "none" => content[r] = r
  BY DEF Init, RequestsInit, NoCall, FishingInit
<1> QED
  BY <1>1 DEF Contents

LEMMA ContentsStep ==
  ASSUME TypeOK, Shape, Registry, Contents, [Next]_vars
  PROVE  Contents'
<1>1. ASSUME NEW q \in Reqs, Effect(q)
      PROVE  Contents'
  BY <1>1, ContentsKept
<1>2. CASE Ends /\ UNCHANGED fishingVars
  <2>1. call' = call /\ content' = content /\ review' = review
    BY <1>2 DEF Ends, fishingVars
  <2>2. \A r \in Reqs : pc'[r] = "chores" => pc[r] = "chores"
    BY <1>2 DEF Ends
  <2> QED
    BY <2>1, <2>2 DEF Contents, ResultOf
<1>3. CASE UNCHANGED vars
  BY <1>3 DEF vars, requestVars, fishingVars, Contents, ResultOf
<1> QED
  BY <1>1, <1>2, <1>3, StepEffect DEF Registry

(* A post appears when it is posted.                                        *)
Posted(q) ==
  \A p \in Post : post'[p] = "live" /\ post[p] # "live" =>
    pc[q] = "idle" /\ call'[q].op = "post" /\ call'[q].on = p

LEMMA RequestPosts ==
  ASSUME TypeOK, Shape, NEW q \in Reqs, ByRequest(q)
  PROVE  Posted(q)
<1>1. CASE ByPosts(q) /\ RegisterPost(q)
  <2>1. PICK p \in Post :
          /\ Arrive(q, [op |-> "post", by |-> Author[p], on |-> p], "reward")
          /\ post' = [post EXCEPT ![p] = "live"]
    BY <1>1 DEF RegisterPost
  <2>2. pc[q] = "idle" /\ call'[q] = [op |-> "post", by |-> Author[p], on |-> p]
    BY <2>1 DEF Arrive, TypeOK
  <2> QED
    BY <2>1, <2>2 DEF Posted, TypeOK, PostsTypeOK
<1>2. CASE ByPosts(q) /\ ~ RegisterPost(q)
  BY <1>2 DEF ByPosts, OfPosts, PostStep, RewardPost, EditPost, SavePost, CheckOwnPost, DeletePost,
              postVars, Posted, TypeOK, PostsTypeOK
<1>3. CASE ~ ByPosts(q)
  BY <1>3 DEF ByRequest, ByMembers, BySocialGraph, ByFishing, ByTimeline, ByThrow, AllStay,
              OfMembers, OfSocialGraph, OfFishing, OfTimeline, postVars, Posted
<1> QED
  BY <1>1, <1>2, <1>3

(* What a request has to show, or to announce.                              *)
Marking(r) == pc[r] \in {"findMark", "insertMark", "updateMark"}
Covered(r, t) == \A x \in Listed(call[r].by, t) : x \in got[r] \/ CameDuring(r, t, x)

(* Two requests that are under way at the same time.                        *)
LEMMA MeetNow ==
  ASSUME BeforeOver, NEW q \in Reqs, Moves(q), NEW r \in Reqs, r # q,
         pc[r] \notin {"idle", "done"}, pc[q] # "done"
  PROVE  Overlap(r, q)'
<1>1. r \notin before'[q] /\ q \notin before'[r] /\ pc'[r] # "idle" /\ pc'[q] # "idle"
  BY DEF Moves, BeforeOver, Over
<1> QED
  BY <1>1 DEF Overlap

(* What comes to a timeline comes with a request that is under way.         *)
LEMMA ListedBefore ==
  ASSUME TypeOK, Shape, Registry, Contents, Graph, NEW q \in Reqs, ByRequest(q),
         NEW m, NEW t \in Types, NEW x \in Listed(m, t)'
  PROVE  \/ x \in Listed(m, t) /\ Owner(t, x)' = Owner(t, x)
         \/ /\ pc[q] # "done"
            /\ \/ call'[q].op = "post" /\ call'[q].on = x
               \/ AboutResult(q, x)'
               \/ Adds(q)' /\ Pair(call'[q]) = <<"follow", m, Owner(t, x)'>>
<1>0. /\ SocialEffect(q) /\ Effect(q) /\ Posted(q) /\ Moves(q)
      /\ content \in [Reqs -> Reqs \cup {Nobody}] /\ review \in [Reqs -> ReviewStatus]
      /\ post \in [Post -> {"none", "live", "deleted"}]
  BY RequestSocial, RequestEffect, RequestPosts
  DEF Graph, Registry, Effect, TypeOK, FishingTypeOK, PostsTypeOK
<1>1. x \in Items(t)' /\ \E i \in rows' : Pair(call'[i]) = <<"follow", m, Owner(t, x)'>>
  BY DEF Listed, Pair
<1>2. ASSUME pc[q] \notin {"idle", "done"}, call[q].op \in FishingOps, ResultOf(q) = x
      PROVE  AboutResult(q, x)'
  <2>1. call'[q] = call[q]
    BY <1>0, <1>2 DEF Moves
  <2> QED
    BY <1>2, <2>1 DEF AboutResult, ResultOf, FishingOps
<1>3. CASE x \notin Items(t)
  <2>1. CASE t = "SNS"
    <3>1. x \in Post /\ post'[x] = "live" /\ post[x] # "live"
      BY <1>1, <1>3, <2>1 DEF Items, FindPost
    <3> QED
      BY <1>0, <3>1 DEF Posted
  <2>2. CASE t # "SNS"
    <3>1. x \in Reqs /\ review'[x] = "APPROVE" /\ review[x] # "APPROVE"
      BY <1>1, <1>3, <2>2 DEF Items
    <3>2. Decides(q) /\ call[q].on = x
      BY <1>0, <3>1 DEF Effect, Quiet, Arrives, Writes, Saves, Decides, fishingVars
    <3> QED
      BY <1>2, <3>2 DEF Decides, ResultOf, FishingOps
  <2> QED
    BY <2>1, <2>2
<1>4. CASE x \in Items(t) /\ Owner(t, x)' # Owner(t, x)
  <2>1. t # "SNS" /\ x \in Reqs /\ review[x] = "APPROVE"
    BY <1>4 DEF Owner, Items
  <2>2. content[x] \in Reqs /\ call[content[x]].op # "none"
    BY <2>1, NobodyAssumption DEF Contents, Registry, WrittenAbout
  <2>3. content'[x] # content[x]
    <3>1. call'[content[x]] = call[content[x]]
      BY <1>0, <2>2, FishingKept
    <3> QED
      BY <1>4, <2>1, <3>1 DEF Owner
  <2>4. Writes(q) /\ ResultOf(q) = x
    BY <1>0, <2>1, <2>3 DEF Effect, Quiet, Arrives, Writes, Saves, Decides, fishingVars
  <2> QED
    BY <1>2, <2>4 DEF Writes, FishingOps
<1>5. CASE x \in Items(t) /\ Owner(t, x)' = Owner(t, x)
  <2>1. PICK i \in rows' : Pair(call'[i]) = <<"follow", m, Owner(t, x)>>
    BY <1>1, <1>5
  <2>2. CASE i \in rows
    <3>1. call'[i] = call[i]
      BY <1>0, <2>2, SocialKept DEF Graph, RowsAdded, TypeOK, SocialTypeOK
    <3> QED
      BY <1>5, <2>1, <2>2, <3>1 DEF Listed
  <2>3. CASE i \notin rows
    <3>1. i = q /\ Inserts(q)
      BY <1>0, <2>3, RowsChange
    <3>2. pc[q] # "done" /\ Adds(q)'
      BY <1>0, <3>1, SocialKept DEF Inserts
    <3> QED
      BY <1>5, <2>1, <3>1, <3>2
  <2> QED
    BY <2>2, <2>3
<1> QED
  BY <1>3, <1>4, <1>5

LEMMA CameStays ==
  ASSUME Shape, NEW q \in Reqs, Moves(q), NEW r \in Reqs, pc[r] # "idle", NEW t, NEW x,
         CameDuring(r, t, x), Owner(t, x)' = Owner(t, x)
  PROVE  CameDuring(r, t, x)'
<1>1. PICK s \in Reqs :
        /\ Overlap(r, s)
        /\ \/ call[s].op = "post" /\ call[s].on = x
           \/ AboutResult(s, x)
           \/ Adds(s) /\ Pair(call[s]) = <<"follow", call[r].by, Owner(t, x)>>
  BY DEF CameDuring
<1>2. Overlap(r, s)' /\ call'[r] = call[r] /\ call'[s] = call[s]
  BY <1>1, OverlapStays DEF Overlap, Moves
<1> QED
  BY <1>1, <1>2 DEF CameDuring, AboutResult, ResultOf, Adds, Pair

LEMMA CoveredStays ==
  ASSUME TypeOK, Shape, Registry, Contents, Graph, NEW q \in Reqs, ByRequest(q),
         NEW r \in Reqs, r # q, Marking(r), NEW t \in Types, Covered(r, t), got'[r] = got[r]
  PROVE  Covered(r, t)'
<1>0. Moves(q) /\ BeforeOver /\ pc[r] \notin {"idle", "done"}
  BY RequestSocial DEF SocialEffect, Graph, Marking
<1>1. call'[r] = call[r]
  BY <1>0 DEF Moves
<1> SUFFICES ASSUME NEW m, m = call[r].by, NEW x \in Listed(m, t)'
             PROVE  x \in got[r] \/ CameDuring(r, t, x)'
  BY <1>1 DEF Covered, Listed
<1>2. CASE x \in Listed(m, t) /\ Owner(t, x)' = Owner(t, x)
  <2>1. x \in got[r] \/ CameDuring(r, t, x)
    BY <1>2 DEF Covered
  <2> QED
    BY <1>0, <1>2, <2>1, CameStays
<1>3. CASE /\ pc[q] # "done"
           /\ \/ call'[q].op = "post" /\ call'[q].on = x
              \/ AboutResult(q, x)'
              \/ Adds(q)' /\ Pair(call'[q]) = <<"follow", m, Owner(t, x)'>>
  <2>1. Overlap(r, q)'
    BY <1>0, <1>3, MeetNow
  <2> QED
    BY <1>1, <1>3, <2>1 DEF CameDuring, AboutResult, ResultOf, Adds, Pair
<1> QED
  BY <1>2, <1>3, ListedBefore

LEMMA ListedSame ==
  ASSUME TypeOK, Shape, Registry, Contents, Graph, NEW q \in Reqs, Moves(q),
         UNCHANGED <<rows, post, content, review>>, NEW m, NEW t \in Types
  PROVE  Listed(m, t)' = Listed(m, t) /\ \A x \in Items(t) : Owner(t, x)' = Owner(t, x)
<1>1. \A i \in rows : call'[i] = call[i]
  BY SocialKept DEF Graph, RowsAdded, TypeOK, SocialTypeOK
<1>2. ASSUME NEW x \in Items(t)
      PROVE  Owner(t, x)' = Owner(t, x)
  <2>1. CASE t = "SNS"
    BY <2>1 DEF Owner
  <2>2. CASE t # "SNS"
    <3>1. x \in Reqs /\ review[x] = "APPROVE"
      BY <1>2, <2>2 DEF Items
    <3>2. content[x] \in Reqs /\ call[content[x]].op # "none"
      BY <3>1, NobodyAssumption DEF Contents, Registry, WrittenAbout
    <3>3. call'[content[x]] = call[content[x]]
      BY <3>2, FishingKept
    <3> QED
      BY <2>2, <3>3 DEF Owner
  <2> QED
    BY <2>1, <2>2
<1>3. Items(t)' = Items(t)
  BY DEF Items, FindPost
<1> QED
  BY <1>1, <1>2, <1>3 DEF Listed, Pair

(* How a request comes to set a mark.                                       *)
ToMark(q) ==
  /\ UNCHANGED <<rows, post, content, review>>
  /\ call'[q].op \in TimelineOps
  /\ \/ /\ pc[q] = "idle" /\ call'[q].op = "view"
        /\ \A t \in Types : Listed(call'[q].by, t) \subseteq got'[q]
     \/ /\ pc[q] = "count" /\ type'[q] = type[q] /\ call'[q] = call[q]
        /\ Listed(call[q].by, type[q]) \subseteq got'[q]
     \/ /\ Marking(q) /\ call'[q] = call[q] /\ got'[q] = got[q]
        /\ type'[q] = type[q] \/ call[q].op = "view"

Checking(r) == pc[r] \in {"read", "count"} => call[r].op = "check"

LEMMA RequestMarks ==
  ASSUME TypeOK, Shape, NEW q \in Reqs, Checking(q), ByRequest(q)
  PROVE  /\ \A r \in Reqs : r # q => got'[r] = got[r] /\ type'[r] = type[r]
         /\ type'[q] \in Types
         /\ Marking(q)' => ToMark(q)
         /\ Checking(q)'
<1>0. Moves(q) /\ ShapeOf(call'[q].op, pc'[q], chores'[q], q \in broken')
  BY DEF ByRequest, ByMembers, ByPosts, BySocialGraph, ByFishing, ByTimeline, ByThrow, Acts
<1>1. CASE ~ ByTimeline(q)
  <2>1. UNCHANGED timelineVars
    BY <1>1 DEF ByRequest, ByMembers, ByPosts, BySocialGraph, ByFishing, ByThrow, AllStay, OfMembers,
                OfPosts, OfSocialGraph, OfFishing
  <2>2. call'[q].op \notin TimelineOps \/ pc'[q] = "done"
    BY <1>1 DEF ByRequest, ByMembers, ByPosts, BySocialGraph, ByFishing, ByThrow, Acts, MemberOps,
                PostOps, SocialOps, FishingOps, TimelineOps
  <2>3. pc'[q] \notin TimelineSteps
    BY <1>0, <2>2 DEF ShapeOf, Fits, TimelineSteps, MemberSteps, SocialSteps
  <2> QED
    BY <2>1, <2>3 DEF timelineVars, Marking, Checking, TimelineSteps, TypeOK, TimelineTypeOK
<1>2. CASE ByTimeline(q)
  <2>1. /\ TimelineStep(q) /\ UNCHANGED <<rows, post, content, review>>
        /\ call'[q].op \in TimelineOps
    BY <1>2 DEF ByTimeline, OfTimeline, Acts, postVars, socialVars, fishingVars
  <2>2. /\ pc \in [Reqs -> Steps] /\ got \in [Reqs -> SUBSET (Post \cup Reqs)]
        /\ type \in [Reqs -> Types] /\ call \in [Reqs -> Calls \cup {NoCall}]
    BY DEF TypeOK, TimelineTypeOK
  <2>3. CASE GetFollowerTimelines(q)
    <3>1. PICK m \in Member :
            /\ Arrive(q, [op |-> "view", by |-> m], "findMark")
            /\ got' = [got EXCEPT ![q] = UNION {Listed(m, t) : t \in Types}]
            /\ UNCHANGED <<mark, type, since>>
      BY <2>3 DEF GetFollowerTimelines
    <3>2. /\ pc[q] = "idle" /\ pc'[q] = "findMark" /\ call'[q] = [op |-> "view", by |-> m]
          /\ got'[q] = UNION {Listed(m, t) : t \in Types}
      BY <2>2, <3>1 DEF Arrive
    <3>3. \A t \in Types : Listed(m, t) \subseteq got'[q]
      BY <3>2
    <3>4. ToMark(q)
      BY <2>1, <3>2, <3>3 DEF ToMark
    <3> QED
      BY <2>2, <3>1, <3>2, <3>4 DEF Checking
  <2>4. CASE HasUnreadTimeline(q)
    <3>1. PICK m \in Member :
            Arrive(q, [op |-> "check", by |-> m], "count") /\ UNCHANGED <<mark, type, got>>
      BY <2>4 DEF HasUnreadTimeline
    <3>2. pc'[q] = "count" /\ call'[q].op = "check"
      BY <2>2, <3>1 DEF Arrive
    <3> QED
      BY <2>2, <3>1, <3>2 DEF Marking, Checking
  <2>5. CASE ReadMark(q) \/ FindMark(q)
    <3>1. /\ \/ pc[q] = "read" /\ pc'[q] = "count"
             \/ Marking(q) /\ pc'[q] \in {"insertMark", "updateMark"}
          /\ call'[q] = call[q] /\ UNCHANGED <<type, got>>
      BY <2>2, <2>5 DEF ReadMark, FindMark, Goto, timelineVars, Marking
    <3> QED
      BY <2>1, <2>2, <3>1 DEF ToMark, Marking, Checking
  <2>6. CASE CountUnread(q)
    <3>1. /\ pc[q] = "count" /\ call'[q] = call[q]
          /\ got' = [got EXCEPT ![q] = @ \cup (Listed(call[q].by, type[q]) \ since[q])]
      BY <2>6 DEF CountUnread, NextType, Goto
    <3>2. CASE since[q] = NoMark /\ Goto(q, "findMark") /\ UNCHANGED type
      <4>1. Listed(call[q].by, type[q]) \subseteq got'[q]
        BY <2>2, <3>1, <3>2, ItemsTyped, NoMarkAssumption
      <4> QED
        BY <2>1, <2>2, <3>1, <3>2, <4>1 DEF ToMark, Goto, Marking, Checking
    <3>3. CASE NextType(q)
      <4>1. pc'[q] \in {"done", "findMark", "read"} /\ type' = [type EXCEPT ![q] = "SNS"]
            /\ (pc'[q] = "findMark" => call[q].op = "view")
            /\ (pc'[q] = "read" => call[q].op # "view")
        BY <2>2, <3>3 DEF NextType, Goto
      <4>2. call[q].op = "check"
        BY <3>1 DEF Checking
      <4> QED
        BY <2>2, <3>1, <4>1, <4>2 DEF Types, Marking, Checking
    <3> QED
      BY <2>6, <3>2, <3>3 DEF CountUnread
  <2>7. CASE InsertMark(q) \/ UpdateMark(q)
    <3>1. /\ Marking(q) /\ call'[q] = call[q] /\ got' = got
          /\ type' = [type EXCEPT ![q] = "SNS"]
          /\ pc'[q] \in {"done", "findMark", "read"}
          /\ pc'[q] = "findMark" => call[q].op = "view"
          /\ pc'[q] = "read" => call[q].op # "view"
      BY <2>2, <2>7 DEF InsertMark, UpdateMark, NextType, Goto, Marking
    <3>2. pc'[q] = "read" => call'[q].op = "check"
      BY <2>1, <3>1 DEF TimelineOps
    <3> QED
      BY <2>1, <2>2, <3>1, <3>2 DEF ToMark, Types, Marking, Checking
  <2> QED
    BY <2>1, <2>3, <2>4, <2>5, <2>6, <2>7 DEF TimelineStep
<1> QED
  BY <1>1, <1>2

(* The invariant: a request that sets marks shows or announces all that was *)
(* there before it came.                                                    *)
Covers ==
  \A r \in Reqs :
    /\ Checking(r)
    /\ Marking(r) =>
         /\ Covered(r, type[r])
         /\ call[r].op = "view" => \A t \in Types : Covered(r, t)

LEMMA CoversKept ==
  ASSUME TypeOK, Shape, Registry, Contents, Graph, Covers, NEW q \in Reqs, ByRequest(q), TypeOK'
  PROVE  Covers'
<1>0. /\ Moves(q) /\ BeforeOver /\ Checking(q)
      /\ \A r \in Reqs : r # q => got'[r] = got[r] /\ type'[r] = type[r]
      /\ type \in [Reqs -> Types] /\ type'[q] \in Types
      /\ Marking(q)' => ToMark(q)
      /\ Checking(q)'
  BY RequestSocial, RequestMarks DEF SocialEffect, Graph, Covers, TypeOK, TimelineTypeOK
<1>1. ASSUME NEW r \in Reqs, r # q
      PROVE  /\ Checking(r)'
             /\ Marking(r)' => /\ Covered(r, type[r])'
                               /\ call'[r].op = "view" => \A t \in Types : Covered(r, t)'
  <2>1. pc'[r] = pc[r] /\ call'[r] = call[r] /\ got'[r] = got[r] /\ type'[r] = type[r]
    BY <1>0, <1>1 DEF Moves
  <2>2. Checking(r)'
    BY <2>1 DEF Covers, Checking
  <2>3. ASSUME Marking(r), NEW t \in Types, Covered(r, t)
        PROVE  Covered(r, t)'
    BY <1>1, <2>1, <2>3, CoveredStays
  <2>4. \A t \in Types : t = type[r] /\ Marking(r) => Covered(r, t)'
    BY <2>3 DEF Covers
  <2>5. Marking(r) => Covered(r, type[r])'
    BY <1>0, <2>1, <2>4 DEF Covered, Listed
  <2> QED
    BY <2>1, <2>2, <2>3, <2>5 DEF Covers, Marking

<1>2. ASSUME Marking(q)', NEW t \in Types, t = type'[q] \/ call'[q].op = "view"
      PROVE  Covered(q, t)'
  <2>0. ToMark(q)
    BY <1>0, <1>2
  <2>1. \A m : Listed(m, t)' = Listed(m, t) /\ \A x \in Items(t) : Owner(t, x)' = Owner(t, x)
    BY <1>0, <2>0, ListedSame DEF ToMark
  <2> SUFFICES ASSUME NEW m, m = call'[q].by, NEW x \in Listed(m, t)
               PROVE  x \in got'[q] \/ CameDuring(q, t, x)'
    BY <2>1 DEF Covered, Listed
  <2>2. CASE /\ pc[q] = "idle" /\ call'[q].op = "view"
             /\ \A s \in Types : Listed(call'[q].by, s) \subseteq got'[q]
    BY <2>2
  <2>3. CASE /\ pc[q] = "count" /\ type'[q] = type[q] /\ call'[q] = call[q]
             /\ Listed(call[q].by, type[q]) \subseteq got'[q]
    <3>1. t = type[q] /\ m = call[q].by
      BY <1>0, <1>2, <2>3 DEF Checking
    <3> QED
      BY <2>3, <3>1
  <2>4. CASE /\ Marking(q) /\ call'[q] = call[q] /\ got'[q] = got[q]
             /\ type'[q] = type[q] \/ call[q].op = "view"
    <3>1. Covered(q, t)
      BY <1>2, <2>4 DEF Covers
    <3>2. x \in got[q] \/ CameDuring(q, t, x)
      BY <2>4, <3>1 DEF Covered
    <3>3. Owner(t, x)' = Owner(t, x)
      BY <2>1 DEF Listed
    <3>4. CameDuring(q, t, x) => CameDuring(q, t, x)'
      BY <1>0, <2>4, <3>3, CameStays DEF Marking
    <3> QED
      BY <2>4, <3>2, <3>4
  <2> QED
    BY <2>0, <2>2, <2>3, <2>4 DEF ToMark
<1>3. Marking(q)' => Covered(q, type[q])'
  <2>1. \A t \in Types : t = type'[q] /\ Marking(q)' => Covered(q, t)'
    BY <1>2
  <2> QED
    BY <1>0, <2>1 DEF Covered, Listed
<1> QED
  BY <1>0, <1>1, <1>2, <1>3 DEF Covers

LEMMA CoversInit ==
  ASSUME Init
  PROVE  Covers
<1>1. \A r \in Reqs : pc[r] \in {"idle", "done"}
  BY DEF Init, RequestsInit
<1> QED
  BY <1>1 DEF Covers, Checking, Marking

LEMMA CoversStep ==
  ASSUME TypeOK, Shape, Registry, Contents, Graph, Covers, [Next]_vars
  PROVE  Covers'
<1>1. TypeOK'
  BY StepActs
<1>2. ASSUME NEW q \in Reqs, ByRequest(q)
      PROVE  Covers'
  BY <1>1, <1>2, CoversKept
<1>3. CASE ByEnd
  <2>1. \A r \in Reqs : pc'[r] \notin {"read", "count", "findMark", "insertMark", "updateMark"}
    BY <1>3 DEF ByEnd, Ends, Underway
  <2> QED
    BY <2>1 DEF Covers, Checking, Marking
<1>4. CASE UNCHANGED vars
  BY <1>4 DEF vars, requestVars, postVars, socialVars, fishingVars, timelineVars, Covers, Checking,
              Marking, Covered, Listed, Items, FindPost, Owner, CameDuring, Overlap, AboutResult,
              ResultOf, Adds, Pair
<1> QED
  BY <1>2, <1>3, <1>4, StepActs DEF ByRequest

MarkShown ==
  \A r \in Reqs : pc[r] \in {"insertMark", "updateMark"} /\ mark' # mark =>
    LET m == call[r].by
        t == type[r]
    IN (mark'[m][t] # mark[m][t] /\ pc'[r] # pc[r]) =>
         \A x \in (Listed(m, t) \cap mark'[m][t]) \ mark[m][t] :
           x \in got[r] \/ CameDuring(r, t, x)

\* TimelineService: a view or a check marks as read only what it shows or announces,
\* and what came while it was under way, for any number of members, posts and requests.
THEOREM ViewsMarkWhatTheyShow ==
  Spec => MarksWhatItShows
<1> DEFINE IInv == TypeOK /\ Shape /\ Registry /\ ApprovalsHold /\ Contents /\ Graph /\ Covers
<1>1. Init => IInv
  BY InitShape, ReviewInit, ContentsInit, GraphInit, CoversInit
<1>2. IInv /\ [Next]_vars => IInv'
  BY StepActs, ReviewStep, ContentsStep, GraphStep, CoversStep
<1>3. IInv /\ [Next]_vars => [MarkShown]_mark
  <2> SUFFICES ASSUME Covers PROVE MarkShown
    OBVIOUS
  <2>1. \A r \in Reqs : pc[r] \in {"insertMark", "updateMark"} =>
          \A x \in Listed(call[r].by, type[r]) : x \in got[r] \/ CameDuring(r, type[r], x)
    BY DEF Covers, Marking, Covered
  <2> QED
    BY <2>1 DEF MarkShown
<1>4. Spec => [][MarkShown]_mark
  BY <1>1, <1>2, <1>3, PTL DEF Spec
<1> QED
  BY <1>4 DEF MarksWhatItShows, MarkShown
=============================================================================
