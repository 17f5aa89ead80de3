--------------------------- MODULE LureRegistration ---------------------------
(***************************************************************************)
(* How lures come into being: lure/lure.service.ts over dao/lure.dao.ts,   *)
(* dao/lure-review-status.dao.ts and dao/one-time-token.dao.ts.            *)
(*                                                                         *)
(* A member registers a lure it holds and types its serial code, buys one  *)
(* with a QR code and gets the next serial code, sends in a rejected lure  *)
(* again, or redeems a one-time token for digital lures.  A serial code is *)
(* "color/number", so color and number stand for it; number 0, "000", is   *)
(* that of lures that need no unique one.  Each step is the code between   *)
(* two awaits; the review status is saved by a call that nobody awaits.    *)
(*                                                                         *)
(* Left out: the pictures and their upload (which may throw, like every    *)
(* await), the review log, the flags for lost and legendary lures.         *)
(***************************************************************************)
EXTENDS Naturals

CONSTANTS
  Requests,     \* requests that may be under way together
  Asks,         \* what a request may ask for
  Members, Types, Colors, Tokens,
  DigitalType,  \* LureType.MOSAIC_LURE
  CodeAsMember, \* a serial code that stands where a member id is expected
  Unset,        \* an argument that is left out: no condition on the column
  NoRow, NoAsk, NoLure,
  LastPadded,   \* the greatest number that padStart(3, '0') brings to length 3
  Radix,        \* 10
  MaxQuantity,  \* bound: digital lures per request
  MaxMishaps    \* bound: how often an await throws or the process dies

Kinds == {"register", "purchase", "modify", "redeem"}
AskRecords ==
  [kind : Kinds, member : Members, type : Types, color : Colors, number : Nat,
   token : Tokens, quantity : 0..MaxQuantity]

\* Every lure a request may insert has its id, as if drawn beforehand.
Lures == Requests \X (1..MaxQuantity)
Rows == [owner : Members, type : Types, color : Colors, number : Nat]

ASSUME AsksAssumption == Asks \subseteq AskRecords /\ NoAsk \notin Asks
ASSUME NamesAssumption ==
  /\ NoRow \notin Rows
  /\ NoLure \notin Lures
  /\ CodeAsMember \notin Members
  /\ Unset \notin Members \cup Types \cup Colors \cup Nat \cup {CodeAsMember}
  /\ DigitalType \in Types
ASSUME BoundsAssumption ==
  /\ LastPadded \in Nat /\ Radix \in Nat \ {0}
  /\ MaxQuantity \in Nat \ {0} /\ MaxMishaps \in Nat

VARIABLES
  row,         \* [Lures -> Rows \cup {NoRow}], the table lure
  mint,        \* [Lures -> {"none", "column", "linked"}]: placeholder missing,
               \* in the row only, and in mint_master too
  status,      \* [Lures -> review status]; NONE: no row in lure_review_status
  tokens,      \* rows of one_time_token
  owed,        \* pairs of a request and a lure: saveReviewStatus under way
  decisions,   \* a reviewer's updates under way: pairs of a lure and the
               \* version of it that the reviewer has seen
  ask, pc,
  number,      \* the number in the serial code at hand
  target,      \* the lure at hand
  left,        \* digital lures still to be inserted
  version,     \* history: how often a lure was modified
  decided,     \* history: the version the reviewer approved
  numberedAt,  \* history: lures there when the latest code was read
  checkedAt,   \* history: lures there when a purchase was checked
  company,     \* history: redemptions under way when the token was found
  crowded,     \* history: lures with two modifications, or a modification and
               \* a reviewer's update, under way at a time
  torn,        \* history: lures whose request ended before the status
  mishaps

db == <<row, mint, status, tokens>>
local == <<ask, pc, number, target, left>>
history == <<decisions, version, decided, numberedAt, checkedAt, company, crowded, torn>>
vars == <<db, owed, local, history, mishaps>>

Statuses == {"NONE", "APPLY", "REJECT", "APPROVE"}
Ends == {"done", "refused", "failed"}
Labels == {"idle", "number", "once", "unique", "insert", "upload", "own", "state",
           "save", "token", "digital", "column", "link", "delete"} \cup Ends

TypeOK ==
  /\ row \in [Lures -> Rows \cup {NoRow}]
  /\ mint \in [Lures -> {"none", "column", "linked"}]
  /\ status \in [Lures -> Statuses]
  /\ tokens \subseteq Tokens
  /\ owed \subseteq Requests \X Lures
  /\ decisions \subseteq Lures \X Nat
  /\ ask \in [Requests -> Asks \cup {NoAsk}]
  /\ pc \in [Requests -> Labels]
  /\ \A r \in Requests : pc[r] # "idle" => ask[r] \in Asks
  /\ number \in [Requests -> Nat]
  /\ target \in [Requests -> Lures \cup {NoLure}]
  /\ left \in [Requests -> 0..MaxQuantity]
  /\ version \in [Lures -> Nat] /\ decided \in [Lures -> Nat]
  /\ numberedAt \in [Requests -> SUBSET Lures]
  /\ checkedAt \in [Requests -> SUBSET Lures]
  /\ company \in [Requests -> SUBSET Requests]
  /\ crowded \subseteq Lures /\ torn \subseteq Lures
  /\ mishaps \in 0..MaxMishaps

Init ==
  /\ row = [l \in Lures |-> NoRow]
  /\ mint = [l \in Lures |-> "none"]
  /\ status = [l \in Lures |-> "NONE"]
  /\ tokens = Tokens
  /\ owed = {} /\ decisions = {}
  /\ ask = [r \in Requests |-> NoAsk]
  /\ pc = [r \in Requests |-> "idle"]
  /\ number = [r \in Requests |-> 0]
  /\ target = [r \in Requests |-> NoLure]
  /\ left = [r \in Requests |-> 0]
  /\ version = [l \in Lures |-> 0] /\ decided = [l \in Lures |-> 0]
  /\ numberedAt = [r \in Requests |-> {}]
  /\ checkedAt = [r \in Requests |-> {}]
  /\ company = [r \in Requests |-> {}]
  /\ crowded = {} /\ torn = {}
  /\ mishaps = 0

-----------------------------------------------------------------------------
(* Helpers *)

Made == {l \in Lures : row[l] # NoRow}

Goto(r, label) == pc' = [pc EXCEPT ![r] = label]

\* The state but for what request r keeps in local variables.
Tables == <<db, owed, decisions, version, decided, crowded, torn, mishaps>>
Notes == <<numberedAt, checkedAt, company>>

\* The row that request r writes.
RowFor(r) == [owner |-> ask[r].member, type |-> ask[r].type,
              color |-> ask[r].color, number |-> number[r]]

\* Column v matches a condition w of the query; none, if w was left out.
Fits(v, w) == w \in {v, Unset}

\* isLureDuplicated: among the lures of the type one has the serial code, and
\* one the color and the owner.  The second set is not empty, so that the
\* statuses of the first one, which it reads as well, do not matter.  No caller
\* gives the last argument, so the second query finds no more than the first,
\* and the two count as one read.
Duplicated(type, member, color, num) ==
  /\ \E l \in Made : row[l].type = type /\ Fits(row[l].number, num)
  /\ \E l \in Made : /\ row[l].type = type
                     /\ Fits(row[l].color, color)
                     /\ Fits(row[l].owner, member)

\* Serial codes are ordered as strings: "1000" comes right after "100".
Cut(n) == IF n > LastPadded THEN n \div Radix ELSE n
SortsBefore(m, n) == Cut(m) < Cut(n) \/ (Cut(m) = Cut(n) /\ m < n)

\* The lures of a type and color, and the last of their serial codes.
SameLine(type, color) == {l \in Made : row[l].type = type /\ row[l].color = color}
\* Mutant: the order is ascending.
First(l, S) == l \in S /\ \A k \in S : ~SortsBefore(row[k].number, row[l].number)
Latest(l, S) == l \in S /\ \A k \in S : ~SortsBefore(row[l].number, row[k].number)

\* findLatestByLureId of LureReviewStatusDao, and what its save and its update,
\* which writes all rows of a lure, make the latest row be: the one that counts.
FindLatestByLureId(l) == status[l]
SaveStatus(l, s) == status' = [status EXCEPT ![l] = s]

\* The request has passed a point from where it modifies the lure l.
Unsettled(r, l) ==
  /\ ask[r] # NoAsk /\ ask[r].kind = "modify"
  /\ (pc[r] = "save" /\ target[r] = l) \/ <<r, l>> \in owed

\* The request has found its token and not yet deleted it.
Redeeming(r) == pc[r] \in {"digital", "column", "link", "delete"}

-----------------------------------------------------------------------------
(* The four requests begin.  registerLure does not check the number 0.     *)

Entry(a) ==
  CASE a.kind = "register" -> IF a.number = 0 THEN "insert" ELSE "unique"
    [] a.kind = "purchase" -> "number"
    [] a.kind = "modify" -> "own"
    [] a.kind = "redeem" -> "token"

Arrive(r, a) ==
  /\ pc[r] = "idle"
  /\ ask' = [ask EXCEPT ![r] = a]
  /\ number' = [number EXCEPT ![r] = IF a.kind = "redeem" THEN 0 ELSE a.number]
  /\ left' = [left EXCEPT ![r] = a.quantity]
  /\ IF a.kind = "modify" THEN \E l \in Made : target' = [target EXCEPT ![r] = l]
     ELSE UNCHANGED target
  /\ Goto(r, Entry(a))
  /\ UNCHANGED <<Tables, Notes>>

-----------------------------------------------------------------------------
(* purchaseLureWithQR: the next number, then the check for a second lure.  *)

GenerateSerialCode(r) ==
  LET S == SameLine(ask[r].type, ask[r].color)
  IN
  /\ pc[r] = "number"
  /\ \/ S = {} /\ number' = [number EXCEPT ![r] = 1]
     \/ \E l \in S : Latest(l, S) /\ number' = [number EXCEPT ![r] = row[l].number + 1]
  /\ numberedAt' = [numberedAt EXCEPT ![r] = Made]
  /\ Goto(r, "once")
  /\ UNCHANGED <<Tables, checkedAt, company, ask, target, left>>

\* Mutant: the arguments are shifted as in registerLure.
CheckOnceShifted(r) ==
  /\ pc[r] = "once"
  /\ checkedAt' = [checkedAt EXCEPT ![r] = Made]
  /\ Goto(r, IF Duplicated(ask[r].type, CodeAsMember, ask[r].color, Unset)
             THEN "refused" ELSE "unique")
  /\ UNCHANGED <<Tables, numberedAt, company, ask, number, target, left>>

CheckOnce(r) ==
  /\ pc[r] = "once"
  /\ checkedAt' = [checkedAt EXCEPT ![r] = Made]
  /\ Goto(r, IF Duplicated(ask[r].type, ask[r].member, ask[r].color, Unset)
             THEN "refused" ELSE "unique")
  /\ UNCHANGED <<Tables, numberedAt, company, ask, number, target, left>>

\* registerLure and modifyLure hand the serial code over as the member id.
CheckUnique(r) ==
  /\ pc[r] = "unique"
  /\ Goto(r, IF Duplicated(ask[r].type, CodeAsMember, Unset, Unset) THEN "refused"
             ELSE IF ask[r].kind = "modify" THEN "state" ELSE "insert")
  /\ UNCHANGED <<Tables, Notes, ask, number, target, left>>

\* registerLure: the row, then the picture, whose name needs the row's id.
InsertLure(r) ==
  /\ pc[r] = "insert"
  /\ row' = [row EXCEPT ![<<r, 1>>] = RowFor(r)]
  /\ target' = [target EXCEPT ![r] = <<r, 1>>]
  /\ Goto(r, "upload")
  /\ UNCHANGED <<mint, status, tokens, owed, ask, number, left, history, mishaps>>

\* Mutant: the status is saved only for lures with a number of their own.
FinishRegisterSoft(r) ==
  /\ pc[r] = "upload"
  /\ owed' = IF number[r] = 0 THEN owed ELSE owed \cup {<<r, target[r]>>}
  /\ Goto(r, "done")
  /\ UNCHANGED <<db, ask, number, target, left, history, mishaps>>

\* The answer is sent while the status is still being saved.
FinishRegister(r) ==
  /\ pc[r] = "upload"
  /\ owed' = owed \cup {<<r, target[r]>>}
  /\ Goto(r, "done")
  /\ UNCHANGED <<db, ask, number, target, left, history, mishaps>>

-----------------------------------------------------------------------------
(* modifyLure.  All of it but the check of the owner stands inside the     *)
(* condition on the number: with 0 the request changes nothing.            *)

CheckOwn(r) ==
  /\ pc[r] = "own"
  /\ Goto(r, IF row[target[r]].owner # ask[r].member THEN "refused"
             ELSE IF number[r] = 0 THEN "done" ELSE "unique")
  /\ UNCHANGED <<Tables, Notes, ask, number, target, left>>

\* Another modification of the lure l is past its check, or a reviewer's update of
\* it is under way.
Meets(r, l) ==
  \/ \E q \in Requests \ {r} : Unsettled(q, l)
  \/ \E d \in decisions : d[1] = l

\* Mutant: only a lure without a status is refused.
CheckReviewed(r) ==
  /\ pc[r] = "state"
  /\ LET open == FindLatestByLureId(target[r]) # "NONE"
     IN /\ Goto(r, IF open THEN "save" ELSE "refused")
        /\ crowded' = IF open /\ Meets(r, target[r]) THEN crowded \cup {target[r]} ELSE crowded
  /\ UNCHANGED <<db, owed, decisions, version, decided, torn, mishaps, Notes,
                 ask, number, target, left>>

CheckRejected(r) ==
  /\ pc[r] = "state"
  /\ LET rejected == FindLatestByLureId(target[r]) = "REJECT"
     IN /\ Goto(r, IF rejected THEN "save" ELSE "refused")
        /\ crowded' = IF rejected /\ Meets(r, target[r]) THEN crowded \cup {target[r]} ELSE crowded
  /\ UNCHANGED <<db, owed, decisions, version, decided, torn, mishaps, Notes,
                 ask, number, target, left>>

\* The pictures are awaited; then the row is written, and the save begins.
SaveModified(r) ==
  /\ pc[r] = "save"
  /\ row' = [row EXCEPT ![target[r]] = RowFor(r)]
  /\ version' = [version EXCEPT ![target[r]] = @ + 1]
  /\ owed' = owed \cup {<<r, target[r]>>}
  /\ Goto(r, "done")
  /\ UNCHANGED <<mint, status, tokens, decisions, decided, crowded, torn, mishaps,
                 Notes, ask, number, target, left>>

-----------------------------------------------------------------------------
(* registerDigitalLure: the token is found first and deleted last.         *)

FindToken(r) ==
  /\ pc[r] = "token"
  /\ Goto(r, IF ask[r].token \notin tokens THEN "refused"
             ELSE IF left[r] = 0 THEN "delete" ELSE "digital")
  /\ company' = [company EXCEPT ![r] =
       {q \in Requests \ {r} : Redeeming(q) /\ ask[q].token = ask[r].token}]
  /\ UNCHANGED <<Tables, numberedAt, checkedAt, ask, number, target, left>>

InsertDigital(r) ==
  /\ pc[r] = "digital"
  /\ row' = [row EXCEPT ![<<r, left[r]>>] = [RowFor(r) EXCEPT !.type = DigitalType]]
  /\ target' = [target EXCEPT ![r] = <<r, left[r]>>]
  /\ Goto(r, "column")
  /\ UNCHANGED <<mint, status, tokens, owed, ask, number, left, history, mishaps>>

\* Mutant: the status is saved before mint_master is written.
UpdateMintIdAndReview(r) ==
  /\ pc[r] = "column"
  /\ mint' = [mint EXCEPT ![target[r]] = "column"]
  /\ owed' = owed \cup {<<r, target[r]>>}
  /\ Goto(r, "link")
  /\ UNCHANGED <<row, status, tokens, ask, number, target, left, history, mishaps>>

UpdateMintId(r) ==
  /\ pc[r] = "column"
  /\ mint' = [mint EXCEPT ![target[r]] = "column"]
  /\ Goto(r, "link")
  /\ UNCHANGED <<row, status, tokens, owed, ask, number, target, left, history, mishaps>>

InsertMintMaster(r) ==
  /\ pc[r] = "link"
  /\ mint' = [mint EXCEPT ![target[r]] = "linked"]
  /\ owed' = owed \cup {<<r, target[r]>>}
  /\ left' = [left EXCEPT ![r] = @ - 1]
  /\ Goto(r, IF left[r] = 1 THEN "delete" ELSE "digital")
  /\ UNCHANGED <<row, status, tokens, ask, number, target, history, mishaps>>

\* Mutant: the token stays.
DeleteNothing(r) ==
  /\ pc[r] = "delete"
  /\ Goto(r, "done")
  /\ UNCHANGED <<db, owed, ask, number, target, left, history, mishaps>>

DeleteToken(r) ==
  /\ pc[r] = "delete"
  /\ tokens' = tokens \ {ask[r].token}
  /\ Goto(r, "done")
  /\ UNCHANGED <<row, mint, status, owed, ask, number, target, left, history, mishaps>>

-----------------------------------------------------------------------------
(* Saves that nobody awaits, the reviewer, failures                        *)

SaveReviewStatus(r, l) ==
  /\ <<r, l>> \in owed
  /\ owed' = owed \ {<<r, l>>}
  /\ SaveStatus(l, IF ask[r].kind = "redeem" THEN "APPROVE" ELSE "APPLY")
  /\ decided' = IF ask[r].kind = "redeem" THEN [decided EXCEPT ![l] = version[l]]
                ELSE decided
  /\ UNCHANGED <<row, mint, tokens, local, decisions, version, crowded, torn, mishaps, Notes>>

\* The admin services call updateReviewStatusById: a row of the lure must be there.
\* The reviewer has seen the lure by then.
FindReviewed(l) ==
  /\ status[l] # "NONE"
  /\ decisions' = decisions \cup {<<l, version[l]>>}
  /\ crowded' = IF \E r \in Requests : Unsettled(r, l) THEN crowded \cup {l} ELSE crowded
  /\ UNCHANGED <<db, owed, local, version, decided, torn, mishaps, Notes>>

\* The rows are written.  What the status is by then is not asked.
UpdateReviewStatus(l, v) ==
  /\ <<l, v>> \in decisions
  /\ decisions' = decisions \ {<<l, v>>}
  /\ \E s \in {"APPROVE", "REJECT"} : SaveStatus(l, s)
  /\ decided' = [decided EXCEPT ![l] = v]
  /\ UNCHANGED <<row, mint, tokens, owed, local, version, crowded, torn, mishaps, Notes>>

\* The await at which request r waits throws.
Throw(r) ==
  /\ pc[r] \notin {"idle"} \cup Ends
  /\ mishaps < MaxMishaps
  /\ mishaps' = mishaps + 1
  /\ Goto(r, "failed")
  /\ torn' = IF pc[r] \in {"upload", "column", "link"} THEN torn \cup {target[r]} ELSE torn
  /\ UNCHANGED <<db, owed, decisions, ask, number, target, left, version, decided, crowded, Notes>>

\* The process dies: for its own reasons, or of a rejection that nobody
\* handles, as when a save that nobody awaits throws.  The admin services are
\* processes of their own.
Crash ==
  /\ mishaps < MaxMishaps
  /\ mishaps' = mishaps + 1
  /\ pc' = [r \in Requests |-> IF pc[r] \in {"idle"} \cup Ends THEN pc[r] ELSE "failed"]
  /\ owed' = {}
  /\ torn' = torn \cup {l \in Made : status[l] = "NONE"}
  /\ UNCHANGED <<db, decisions, ask, number, target, left, version, decided, crowded, Notes>>

Next ==
  \/ \E r \in Requests :
       \/ \E a \in Asks : Arrive(r, a)
       \/ GenerateSerialCode(r) \/ CheckOnce(r) \/ CheckUnique(r)
       \/ InsertLure(r) \/ FinishRegister(r)
       \/ CheckOwn(r) \/ CheckRejected(r) \/ SaveModified(r)
       \/ FindToken(r) \/ InsertDigital(r) \/ UpdateMintId(r)
       \/ InsertMintMaster(r) \/ DeleteToken(r)
       \/ \E l \in Lures : SaveReviewStatus(r, l)
       \/ Throw(r)
  \/ \E l \in Lures : FindReviewed(l)
  \/ \E d \in decisions : UpdateReviewStatus(d[1], d[2])
  \/ Crash

Spec == Init /\ [][Next]_vars

-----------------------------------------------------------------------------
(* What the registration of lures promises *)

Maker(l) == ask[l[1]]
\* A lure that was bought and not modified since.
Bought(l) == l \in Made /\ Maker(l).kind = "purchase" /\ version[l] = 0
Alike(k, l) == row[k].type = row[l].type /\ row[k].color = row[l].color

\* A serial code given to a bought lure is a new one: a lure that has the same
\* came after the code was read, was modified since, or has a number beyond
\* LastPadded, where the order of the strings is not that of the numbers.
NumbersDistinct ==
  \A k, l \in Made :
    /\ Bought(l) /\ version[k] = 0 /\ Alike(k, l) /\ row[k].number = row[l].number
    => k = l \/ k \notin numberedAt[l[1]] \/ row[k].number > LastPadded

\* "A user cannot purchase the same lure type and color": a member that buys a
\* lure has no second one of the kind, unless that was not there when the
\* purchase was checked, or was modified since.
PurchaseOnce ==
  \A k, l \in Made :
    /\ Bought(l) /\ k # l /\ version[k] = 0 /\ Alike(k, l)
    => row[k].owner # row[l].owner \/ k \notin checkedAt[l[1]]

\* A lure without a review status, which no reviewer's list shows, is on its
\* way to one, unless its request was cut short.
LureHasReview ==
  \A l \in Made : status[l] = "NONE" =>
    \/ l \in torn
    \/ <<l[1], l>> \in owed
    \/ target[l[1]] = l /\ pc[l[1]] \in {"upload", "column", "link"}

\* A digital lure that counts as approved has its placeholder in both tables,
\* where the minting job looks for it.
ApprovedCanBeMinted ==
  \A l \in Made :
    status[l] = "APPROVE" /\ Maker(l).kind = "redeem" => mint[l] = "linked"

\* An approved lure is as the reviewer saw it, unless two modifications of it, or
\* one and a reviewer's update, were under way together: a modification goes by
\* the status that its check has read, and an update by none.
ApprovedAsReviewed ==
  \A l \in Made : status[l] = "APPROVE" /\ decided[l] # version[l] => l \in crowded

\* A one-time token serves one request: two that got lures with it were under
\* way together, or one of them broke off.
TokenOnce ==
  \A k, l \in Made :
    /\ Maker(k).kind = "redeem" /\ Maker(l).kind = "redeem"
    /\ Maker(k).token = Maker(l).token /\ k[1] # l[1]
    => \/ k[1] \in company[l[1]] \/ l[1] \in company[k[1]]
       \/ pc[k[1]] = "failed" \/ pc[l[1]] = "failed"

\* "lureType and serialCode must be unique": registerLure and modifyLure let no
\* code pass that an approved lure of the type has already.
UniqueChecked ==
  [][\A r \in Requests :
       pc[r] = "unique" /\ pc'[r] \in {"insert", "state"} =>
         ~\E l \in SameLine(ask[r].type, ask[r].color) :
            row[l].number = number[r] /\ status[l] = "APPROVE"]_vars
=============================================================================
