---------------------------- MODULE TimelineRead ----------------------------
(***************************************************************************)
(* The timeline of the members one follows, and the marks that tell what   *)
(* of it has been read: TimelineService with its two DAOs.  A view selects *)
(* the timeline and then sets the marks of both types to the time of the   *)
(* database; the check for unread items counts those after the mark and    *)
(* sets a mark where there is none.                                        *)
(*                                                                         *)
(* A mark is the set of items that were there when it was set.  The SQL is *)
(* not in the repository: items are the posts that are not deleted and the *)
(* approved fishing results, by members that the member follows, and count *)
(* from the post or the approval.                                          *)
(***************************************************************************)
EXTENDS SocialGraph, FishingReview

VARIABLES
  mark,    \* [Member -> [Types -> NoMark or the items the mark covers]]
  type,    \* [Reqs -> the type the request is busy with]
  since,   \* [Reqs -> the mark it has read]
  got      \* [Reqs -> the items it shows or announces]

timelineVars == <<mark, type, since, got>>

Types == {"FISHING_RESULT", "SNS"}
NoMark == {"no mark"}

ASSUME NoMarkAssumption == NoMark \cap (Post \cup Reqs) = {}

TimelineCalls == [op : {"view", "check"}, by : Member]
TimelineSteps == {"read", "count", "findMark", "insertMark", "updateMark"}

TimelineTypeOK ==
  /\ mark \in [Member -> [Types -> (SUBSET (Post \cup Reqs)) \cup {NoMark}]]
  /\ type \in [Reqs -> Types]
  /\ since \in [Reqs -> (SUBSET (Post \cup Reqs)) \cup {NoMark}]
  /\ got \in [Reqs -> SUBSET (Post \cup Reqs)]

TimelineInit ==
  /\ mark = [m \in Member |-> [t \in Types |-> NoMark]]
  /\ type = [r \in Reqs |-> "FISHING_RESULT"]
  /\ since = [r \in Reqs |-> NoMark]
  /\ got = [r \in Reqs |-> {}]

-----------------------------------------------------------------------------
(* Queries *)

\* What is there, whoever may see it.
Items(t) ==
  IF t = "SNS" THEN {p \in Post : FindPost(p)} ELSE {x \in Reqs : review[x] = "APPROVE"}

Owner(t, x) == IF t = "SNS" THEN Author[x] ELSE call[content[x]].by

\* The timeline of the members that m follows.
Listed(m, t) ==
  {x \in Items(t) : \E i \in rows : Pair(call[i]) = <<"follow", m, Owner(t, x)>>}

-----------------------------------------------------------------------------
\* Mutant: a view shows the posts and marks both types.
GetFollowerPosts(r) ==
  \E m \in Member :
    /\ Arrive(r, [op |-> "view", by |-> m], "findMark")
    /\ got' = [got EXCEPT ![r] = Listed(m, "SNS")]
    /\ UNCHANGED <<mark, type, since>>

\* GET /timelines/follower: the timeline is selected.
GetFollowerTimelines(r) ==
  \E m \in Member :
    /\ Arrive(r, [op |-> "view", by |-> m], "findMark")
    /\ got' = [got EXCEPT ![r] = UNION {Listed(m, t) : t \in Types}]
    /\ UNCHANGED <<mark, type, since>>

\* GET /timelines/exists-unread: the mark of the first type is read.
HasUnreadTimeline(r) ==
  \E m \in Member :
    /\ Arrive(r, [op |-> "check", by |-> m], "count")
    /\ since' = [since EXCEPT ![r] = mark[m]["FISHING_RESULT"]]
    /\ UNCHANGED <<mark, type, got>>

\* findByMemberId, for the second type.
ReadMark(r) ==
  /\ pc[r] = "read"
  /\ since' = [since EXCEPT ![r] = mark[call[r].by][type[r]]]
  /\ Goto(r, "count")
  /\ UNCHANGED <<mark, type, got>>

\* The first type is done with, or both are.
NextType(r) ==
  /\ type' = [type EXCEPT ![r] = "SNS"]
  /\ Goto(r, IF type[r] = "SNS" THEN "done"
             ELSE IF call[r].op = "view" THEN "findMark" ELSE "read")

\* hasUnreadTimelineByLastReadAt: without a mark, what came since INITIAL_DATE.
CountUnread(r) ==
  /\ pc[r] = "count"
  /\ got' = [got EXCEPT ![r] = @ \cup (Listed(call[r].by, type[r]) \ since[r])]
  /\ IF since[r] = NoMark THEN Goto(r, "findMark") /\ UNCHANGED type ELSE NextType(r)
  /\ UNCHANGED <<mark, since>>

\* TimelineAlreadyReadDao.save looks for the mark.
FindMark(r) ==
  /\ pc[r] = "findMark"
  /\ Goto(r, IF mark[call[r].by][type[r]] = NoMark THEN "insertMark" ELSE "updateMark")
  /\ UNCHANGED timelineVars

\* An insert is refused when another request was faster; saveTimelineAlreadyRead
\* swallows that.
InsertMark(r) ==
  /\ pc[r] = "insertMark"
  /\ mark' = IF mark[call[r].by][type[r]] = NoMark
             THEN [mark EXCEPT ![call[r].by][type[r]] = Items(type[r])]
             ELSE mark
  /\ NextType(r)
  /\ UNCHANGED <<since, got>>

UpdateMark(r) ==
  /\ pc[r] = "updateMark"
  /\ mark' = [mark EXCEPT ![call[r].by][type[r]] = Items(type[r])]
  /\ NextType(r)
  /\ UNCHANGED <<since, got>>

TimelineStep(r) ==
  \/ GetFollowerTimelines(r) \/ HasUnreadTimeline(r) \/ ReadMark(r) \/ CountUnread(r)
  \/ FindMark(r) \/ InsertMark(r) \/ UpdateMark(r)

-----------------------------------------------------------------------------
\* Did item x of type t come to the timeline of r's member while r was under way?
CameDuring(r, t, x) ==
  \E s \in Reqs :
    /\ Overlap(r, s)
    /\ \/ call[s].op = "post" /\ call[s].on = x
       \/ AboutResult(s, x)
       \/ Adds(s) /\ Pair(call[s]) = <<"follow", call[r].by, Owner(t, x)>>

\* A request sets the mark over an item of the timeline only if it shows or announces
\* the item, or if the item came while the request was under way: that one is lost,
\* neither shown nor ever counted as unread.
MarksWhatItShows ==
  [][\A r \in Reqs : pc[r] \in {"insertMark", "updateMark"} /\ mark' # mark =>
       LET m == call[r].by
           t == type[r]
       IN (mark'[m][t] # mark[m][t] /\ pc'[r] # pc[r]) =>
            \A x \in (Listed(m, t) \cap mark'[m][t]) \ mark[m][t] :
              x \in got[r] \/ CameDuring(r, t, x)]_mark
=============================================================================
