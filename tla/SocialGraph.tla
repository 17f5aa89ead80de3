---------------------------- MODULE SocialGraph ----------------------------
(***************************************************************************)
(* Good, follow, block and report, with the notifications of the first     *)
(* two: the four services, their DAOs and NotificationService.  A request  *)
(* looks for a row and inserts one if it finds none; no index makes rows   *)
(* unique.  A row has the name of the request that inserted it, and so has *)
(* the notification whose parentId is the row.                             *)
(*                                                                         *)
(* A good is for a post here; a fishing result as its parent goes the same *)
(* way and cannot be deleted.  Reports of one pair of members are of one   *)
(* type.                                                                   *)
(***************************************************************************)
EXTENDS Posts, FiniteSets

VARIABLES
  rows,      \* rows of good, follow, block and report
  notices,   \* rows of notification
  found,     \* [Reqs -> the row a removal has found, or none]
  target     \* [Reqs -> the row it is about to delete]

socialVars == <<rows, notices, found, target>>

NoRow == "none"

ASSUME NoRowAssumption == NoRow \notin Reqs

\* What the four controllers take.
GoodRequests == [op : {"add", "remove"}, kind : {"good"}, by : Member, to : Post]
FollowRequests == [op : {"add", "remove"}, kind : {"follow"}, by : Member, to : Member]
BlockRequests == [op : {"add", "remove"}, kind : {"block"}, by : Member, to : Member]
ReportRequests == [op : {"add"}, kind : {"report"}, by : Member, to : Member]
SocialCalls == GoodRequests \cup FollowRequests \cup BlockRequests \cup ReportRequests

SocialSteps ==
  {"owner", "lookup", "available", "insertRow", "saveNotice", "find", "deleteRow", "deleteNotice"}

SocialTypeOK ==
  /\ rows \subseteq Reqs
  /\ notices \subseteq Reqs
  /\ found \in [Reqs -> Reqs \cup {NoRow}]
  /\ target \in [Reqs -> Reqs \cup {NoRow}]

\* R: the rows that are there from the start, and their notices.
SocialInit(R) ==
  /\ rows = R
  /\ notices = R
  /\ found = [r \in Reqs |-> NoRow]
  /\ target = [r \in Reqs |-> NoRow]

\* Whom a row tells.
Receiver(c) == IF c.kind = "good" THEN Author[c.to] ELSE c.to

\* Does a row of the request come with a notification?
Notifies(r) ==
  \/ call[r].kind = "follow"
  \/ call[r].kind = "good" /\ Receiver(call[r]) # call[r].by

Pair(c) == <<c.kind, c.by, c.to>>

\* findOne(by, to) returns any one of them, or nothing.
FindOne(c) == {i \in rows : Pair(call[i]) = Pair(c)}

CountGood(p) == Cardinality({i \in rows : call[i].kind = "good" /\ call[i].to = p})
CountGoodByParentIdAndMemberId(p, m) ==
  Cardinality({i \in rows : Pair(call[i]) = <<"good", m, p>>})

\* GET /good/:parentId: how many goods a post has, and whether one of them is m's.
GoodsShown(p, m) ==
  [count |-> CountGood(p), isGood |-> CountGoodByParentIdAndMemberId(p, m) # 0]

FindMyFollower(m) == {i \in rows : call[i].kind = "follow" /\ call[i].to = m}

\* GET /gallery/:userName of m, as me sees it: what it tells of follows.
GetGallery(m, me) ==
  [followerCount |-> Cardinality(FindMyFollower(m)),
   isFollowed |-> \E i \in FindMyFollower(m) : call[i].by = me]

-----------------------------------------------------------------------------
(* Adding a row *)

\* POST /good/:parentId: getGoodType finds the post.
AddGood(r) ==
  \E m \in Member, p \in Post :
    /\ FindPost(p)
    /\ Arrive(r, [op |-> "add", kind |-> "good", by |-> m, to |-> p], "owner")
    /\ UNCHANGED socialVars

\* getGoodPostMemberId finds it again; deleted by then, it has no memberId.
FindOwner(r) ==
  /\ pc[r] = "owner"
  /\ IF FindPost(call[r].to) THEN Goto(r, "lookup") ELSE Refuse(r)
  /\ UNCHANGED socialVars

\* Mutant: any good for the parent will do.
LookUpAnyGood(r) ==
  /\ pc[r] = "lookup"
  /\ Goto(r, IF \E i \in rows : call[i].kind = "good" /\ call[i].to = call[r].to
             THEN "done" ELSE "insertRow")
  /\ UNCHANGED socialVars

\* GoodDao.register looks for a row.
LookUpGood(r) ==
  /\ pc[r] = "lookup"
  /\ Goto(r, IF FindOne(call[r]) = {} THEN "insertRow" ELSE "done")
  /\ UNCHANGED socialVars

\* follow, block and report look for a row first; if there is one they are done.
AddFor(r, c) ==
  /\ Arrive(r, c, IF FindOne(c) = {} THEN "available" ELSE "done")
  /\ UNCHANGED socialVars

AddFollow(r) == \E c \in FollowRequests : c.op = "add" /\ AddFor(r, c)
AddBlock(r) == \E c \in BlockRequests : c.op = "add" /\ AddFor(r, c)
AddReport(r) == \E c \in ReportRequests : AddFor(r, c)

\* findAvailableOneById of the other member
FindMember(r) ==
  /\ pc[r] = "available"
  /\ IF Available(call[r].to) THEN Goto(r, "insertRow") ELSE Refuse(r)
  /\ UNCHANGED socialVars

\* The row is saved; follow awaits its notification, a good does not.
InsertRow(r) ==
  /\ pc[r] = "insertRow"
  /\ rows' = rows \cup {r}
  /\ CASE ~ Notifies(r)            -> Goto(r, "done")
       [] call[r].kind = "follow"  -> Goto(r, "saveNotice")
       [] OTHER                    -> Leave(r, {"saveNotice"})
  /\ UNCHANGED <<notices, found, target>>

\* createNotification
SaveNotice(r) ==
  /\ \/ pc[r] = "saveNotice" /\ Goto(r, "done")
     \/ "saveNotice" \in chores[r] /\ FinishChore(r, "saveNotice", {})
  /\ notices' = notices \cup {r}
  /\ UNCHANGED <<rows, found, target>>

-----------------------------------------------------------------------------
(* Removing a row *)

\* DELETE /good/:parentId: getGoodType finds the post.
RemoveGood(r) ==
  \E m \in Member, p \in Post :
    /\ FindPost(p)
    /\ Arrive(r, [op |-> "remove", kind |-> "good", by |-> m, to |-> p], "find")
    /\ UNCHANGED socialVars

\* The row is found, and two chores delete its notification and, once they have
\* found it again, the row.  A good that is not there is a TypeError.
FindGood(r) ==
  /\ pc[r] = "find"
  /\ IF FindOne(call[r]) = {}
     THEN Refuse(r) /\ UNCHANGED found
     ELSE /\ \E i \in FindOne(call[r]) : found' = [found EXCEPT ![r] = i]
          /\ Leave(r, {"deleteNotice", "findAgain"})
  /\ UNCHANGED <<rows, notices, target>>

\* GoodDao.delete: with no row left there is nothing to delete.
FindGoodAgain(r) ==
  /\ "findAgain" \in chores[r]
  /\ \/ FindOne(call[r]) = {} /\ FinishChore(r, "findAgain", {}) /\ UNCHANGED target
     \/ \E i \in FindOne(call[r]) :
          /\ target' = [target EXCEPT ![r] = i]
          /\ FinishChore(r, "findAgain", {"deleteRow"})
  /\ UNCHANGED <<rows, notices, found>>

\* unFollow and unblock look for the row first; without one they are done.
RemoveFor(r, c) ==
  /\ \/ /\ FindOne(c) = {}
        /\ Arrive(r, c, "done")
        /\ UNCHANGED <<found, target>>
     \/ \E i \in FindOne(c) :
          /\ Arrive(r, c, "deleteRow")
          /\ found' = [found EXCEPT ![r] = i]
          /\ target' = [target EXCEPT ![r] = i]
  /\ UNCHANGED <<rows, notices>>

RemoveFollow(r) == \E c \in FollowRequests : c.op = "remove" /\ RemoveFor(r, c)
RemoveBlock(r) == \E c \in BlockRequests : c.op = "remove" /\ RemoveFor(r, c)

\* Mutant: the notification of a follow stays.
DeleteRowOnly(r) ==
  /\ \/ pc[r] = "deleteRow" /\ Goto(r, "done")
     \/ "deleteRow" \in chores[r] /\ FinishChore(r, "deleteRow", {})
  /\ rows' = rows \ {target[r]}
  /\ UNCHANGED <<notices, found, target>>

DeleteRow(r) ==
  /\ \/ pc[r] = "deleteRow" /\ Goto(r, IF call[r].kind = "follow" THEN "deleteNotice" ELSE "done")
     \/ "deleteRow" \in chores[r] /\ FinishChore(r, "deleteRow", {})
  /\ rows' = rows \ {target[r]}
  /\ UNCHANGED <<notices, found, target>>

\* deleteNotificationByParentIdAndType
DeleteNotice(r) ==
  /\ \/ pc[r] = "deleteNotice" /\ Goto(r, "done")
     \/ "deleteNotice" \in chores[r] /\ FinishChore(r, "deleteNotice", {})
  /\ notices' = notices \ {found[r]}
  /\ UNCHANGED <<rows, found, target>>

SocialStep(r) ==
  \/ AddGood(r) \/ FindOwner(r) \/ LookUpGood(r)
  \/ AddFollow(r) \/ AddBlock(r) \/ AddReport(r) \/ FindMember(r)
  \/ InsertRow(r) \/ SaveNotice(r)
  \/ RemoveGood(r) \/ FindGood(r) \/ FindGoodAgain(r)
  \/ RemoveFollow(r) \/ RemoveBlock(r)
  \/ DeleteRow(r) \/ DeleteNotice(r)

-----------------------------------------------------------------------------
(* Properties *)

Adds(r) == call[r].op = "add"
Removes(r) == call[r].op = "remove"
SamePair(r, s) == Pair(call[r]) = Pair(call[s])

\* Two requests each found no row of their pair and inserted one.
Doubled(r) ==
  \E s, t \in Reqs : Adds(s) /\ Adds(t) /\ SamePair(r, s) /\ SamePair(r, t) /\ Overlap(s, t)

\* A row and its notification are there together, or neither is, once the request
\* that inserts them is over; unless it broke off, a removal of the pair is under way,
\* broke off or overlapped, or the pair has doubled rows.
NoticesMatchRows ==
  \A r \in Reqs :
    (Adds(r) /\ Over(r) /\ r \notin broken /\ Notifies(r)) =>
      \/ r \in rows <=> r \in notices
      \/ Doubled(r)
      \/ \E d \in Reqs :
           /\ Removes(d) /\ SamePair(r, d)
           /\ Underway(d) \/ d \in broken \/ Overlap(d, r)

\* The last request about a pair has the last word: once it is over, and the others
\* were over when it arrived, there is one row, or none, as it asked for, and a post
\* is shown with the member's good, or without, a gallery as followed, or not.  Only
\* doubled rows are too many.
LastWordCounts ==
  \A r \in Reqs :
    (/\ Adds(r) \/ Removes(r)
     /\ Over(r) /\ r \notin broken
     /\ \A s \in Reqs \ {r} : (Adds(s) \/ Removes(s)) /\ SamePair(r, s) => s \in before[r])
    => /\ \/ Cardinality(FindOne(call[r])) = (IF Adds(r) THEN 1 ELSE 0)
          \/ Doubled(r) /\ FindOne(call[r]) # {}
       /\ call[r].kind = "good" /\ ~ Doubled(r) =>
            /\ GoodsShown(call[r].to, call[r].by).isGood = Adds(r)
            /\ Adds(r) => GoodsShown(call[r].to, call[r].by).count > 0
       /\ call[r].kind = "follow" /\ ~ Doubled(r) =>
            LET shown == GetGallery(call[r].to, call[r].by)
            IN shown.isFollowed = Adds(r) /\ (Adds(r) => shown.followerCount > 0)
=============================================================================
