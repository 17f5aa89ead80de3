---------------------------- MODULE FishingReview ----------------------------
(***************************************************************************)
(* Fishing results and their review: FishingResultController and           *)
(* FishingResultService with their DAOs.  A result is inserted and its     *)
(* review status is saved without await; a rejected one may be modified,   *)
(* and then applies again.  The reviewer works through the admin service,  *)
(* which is not in the repository and calls adminFishingResultUpdateById.  *)
(*                                                                         *)
(* A result has the name of the request that registered it, its content    *)
(* that of the request that wrote it last (freeTextLure, which modify does *)
(* not write, stays as it was registered and is left out).  Of the status  *)
(* rows of a result only the latest counts, as the reviewer's update       *)
(* writes all of them.                                                     *)
(***************************************************************************)
EXTENDS Members, Integers

CONSTANT Dates   \* caughtYearAt, caughtMonthAt and caughtDayAt that clients send

VARIABLES
  content,    \* [Reqs -> the request that wrote the result, if it is there]
  review,     \* [Reqs -> latest status of the result]
  reviewed    \* history: [Reqs -> the content that the last decision was made on]

fishingVars == <<content, review, reviewed>>

Nobody == "nobody"

ASSUME NobodyAssumption == Nobody \notin Reqs

ReviewStatus == {"none", "APPLY", "APPROVE", "REJECT"}
FishingSteps == {"masters", "insertResult", "latest", "updateResult", "decide"}

FishingTypeOK ==
  /\ content \in [Reqs -> Reqs \cup {Nobody}]
  /\ review \in [Reqs -> ReviewStatus]
  /\ reviewed \in [Reqs -> Reqs \cup {Nobody}]

\* R: the results that are there from the start, rejected as they are.
FishingInit(R) ==
  /\ content = [r \in Reqs |-> IF r \in R THEN r ELSE Nobody]
  /\ reviewed = content
  /\ review = [r \in Reqs |-> IF r \in R THEN "REJECT" ELSE "none"]

-----------------------------------------------------------------------------
(* The bodies of the requests *)

\* FishingResultApplyRequestDto: a lure of the member's.
ApplyRequest == [by : Member, date : Dates, lure : {"lureId"}]

\* FishingResultApplyRequestForOtherLuresDto: a lure in free text.
ApplyRequestForOtherLures == [by : Member, date : Dates, lure : {"freeTextLure"}]

\* Min and Max of the three fields of the date
InRange(t) == t[1] \in 2000..3000 /\ t[2] \in 1..12 /\ t[3] \in 1..31

LeapYear(y) == y % 4 = 0 /\ (y % 100 # 0 \/ y % 400 = 0)
DaysInMonth(y, m) ==
  IF m = 2 THEN (IF LeapYear(y) THEN 29 ELSE 28) ELSE IF m \in {4, 6, 9, 11} THEN 30 ELSE 31

\* Date.setFullYear: a day past the end of the month is one of the next month.
SetFullYear(t) ==
  IF t[3] <= DaysInMonth(t[1], t[2]) THEN t
  ELSE <<IF t[2] = 12 THEN t[1] + 1 ELSE t[1], (t[2] % 12) + 1, t[3] - DaysInMonth(t[1], t[2])>>

\* buildDate refuses a date that setFullYear has moved.
BuildDate(t) == SetFullYear(t) = t

Accepted(c) == InRange(c.date) /\ BuildDate(c.date)

ToRegisterModel(c) == [op |-> "register", by |-> c.by]
ToModifyModel(x, c) == [op |-> "modify", by |-> c.by, on |-> x]

\* seen: history, the content that was on the reviewer's screen.
FishingCalls ==
  [op : {"register"}, by : Member] \cup [op : {"modify"}, by : Member, on : Reqs]
    \cup [op : {"review"}, on : Reqs, as : {"APPROVE", "REJECT"}, seen : Reqs \cup {Nobody}]

\* The result a request is about.
ResultOf(r) == IF call[r].op = "register" THEN r ELSE call[r].on
AboutResult(r, x) == call[r].op \in {"register", "modify", "review"} /\ ResultOf(r) = x

-----------------------------------------------------------------------------
(* The tables *)

FindLatestByFishingResultId(x) == review[x]
SaveStatus(x, v) == review' = [review EXCEPT ![x] = v]

\* insert and update: the result is what r says.
WriteResult(x, r) == content' = [content EXCEPT ![x] = r]

-----------------------------------------------------------------------------
RegisterAs(r, c) ==
  /\ Accepted(c)
  /\ Arrive(r, ToRegisterModel(c), "masters")
  /\ UNCHANGED fishingVars

\* POST /fishing-results and /fishing-results/other-lures
RegisterResult(r) == \E c \in ApplyRequest : RegisterAs(r, c)
RegisterOtherLures(r) == \E c \in ApplyRequestForOtherLures : RegisterAs(r, c)

ModifyAs(r, c) ==
  \E x \in Reqs :
    /\ content[x] # Nobody
    /\ Accepted(c)
    /\ Arrive(r, ToModifyModel(x, c), "masters")
    /\ UNCHANGED fishingVars

\* PATCH /fishing-results/:id and /fishing-results/other-lures/:id
ModifyResult(r) == \E c \in ApplyRequest : ModifyAs(r, c)
ModifyOtherLures(r) == \E c \in ApplyRequestForOtherLures : ModifyAs(r, c)

\* Field, line, reel and rod are in the master tables, or the request ends with 404.
CheckExistsMasterId(r) ==
  /\ pc[r] = "masters"
  /\ \/ Goto(r, IF call[r].op = "register" THEN "insertResult" ELSE "latest")
     \/ Refuse(r)
  /\ UNCHANGED fishingVars

InsertResult(r) ==
  /\ pc[r] = "insertResult"
  /\ WriteResult(r, r)
  /\ Leave(r, {"saveReviewStatus"})
  /\ UNCHANGED <<review, reviewed>>

\* Mutant: any status will do.
CheckLatestAny(r) ==
  /\ pc[r] = "latest"
  /\ IF FindLatestByFishingResultId(call[r].on) # "none" THEN Goto(r, "updateResult") ELSE Refuse(r)
  /\ UNCHANGED fishingVars

\* Only a rejected result may be modified.
CheckLatestReject(r) ==
  /\ pc[r] = "latest"
  /\ IF FindLatestByFishingResultId(call[r].on) = "REJECT" THEN Goto(r, "updateResult") ELSE Refuse(r)
  /\ UNCHANGED fishingVars

UpdateResult(r) ==
  /\ pc[r] = "updateResult"
  /\ WriteResult(call[r].on, r)
  /\ Leave(r, {"saveReviewStatus"})
  /\ UNCHANGED <<review, reviewed>>

\* saveReviewStatus, which nobody awaits: a new row with APPLY, then the log.
SaveReviewStatus(r) ==
  /\ "saveReviewStatus" \in chores[r]
  /\ SaveStatus(ResultOf(r), "APPLY")
  /\ FinishChore(r, "saveReviewStatus", {"log"})
  /\ UNCHANGED <<content, reviewed>>

InsertLog(r) ==
  /\ "log" \in chores[r]
  /\ FinishChore(r, "log", {})
  /\ UNCHANGED fishingVars

\* adminFishingResultUpdateById: with a status row there, all rows of the result are
\* written.  What the status is by then is not asked.
AdminUpdate(r) ==
  \E x \in Reqs, v \in {"APPROVE", "REJECT"} :
    /\ review[x] # "none"
    /\ Arrive(r, [op |-> "review", on |-> x, as |-> v, seen |-> content[x]], "decide")
    /\ UNCHANGED fishingVars

Decide(r) ==
  /\ pc[r] = "decide"
  /\ review' = [review EXCEPT ![call[r].on] = call[r].as]
  /\ reviewed' = [reviewed EXCEPT ![call[r].on] = call[r].seen]
  /\ Goto(r, "done")
  /\ UNCHANGED content

FishingStep(r) ==
  \/ RegisterResult(r) \/ RegisterOtherLures(r) \/ ModifyResult(r) \/ ModifyOtherLures(r)
  \/ CheckExistsMasterId(r)
  \/ InsertResult(r) \/ CheckLatestReject(r) \/ UpdateResult(r)
  \/ SaveReviewStatus(r) \/ InsertLog(r)
  \/ AdminUpdate(r) \/ Decide(r)

-----------------------------------------------------------------------------
\* The approval that counts was of another content, and came while the present one
\* was being written.
ApprovedUnseen(x) ==
  \E a \in Reqs :
    /\ call[a].op = "review" /\ call[a].on = x /\ call[a].as = "APPROVE"
    /\ call[a].seen = reviewed[x]
    /\ Overlap(a, content[x])

\* A result reaches the reviewer, unless its registration broke off.  What counts as
\* approved is what the reviewer had seen when the decision was sent, unless the request
\* that wrote it overlapped that decision, is about to apply again, or broke off.  An
\* approval is final, unless the reviewer decides again or another request about the
\* result overlapped it.
ReviewHolds ==
  /\ \A x \in Reqs : content[x] # Nobody =>
       /\ Over(x) /\ x \notin broken => review[x] # "none"
       /\ review[x] = "APPROVE" =>
            \/ content[x] = reviewed[x]
            \/ Underway(content[x]) \/ content[x] \in broken
            \/ ApprovedUnseen(x)
  /\ \A a \in Reqs :
       (call[a].op = "review" /\ call[a].as = "APPROVE" /\ Over(a) /\ a \notin broken) =>
         \/ review[ResultOf(a)] = "APPROVE" /\ content[ResultOf(a)] = reviewed[ResultOf(a)]
         \/ \E s \in Reqs :
              /\ AboutResult(s, ResultOf(a))
              /\ Overlap(a, s) \/ (call[s].op = "review" /\ a \in before[s])
=============================================================================
