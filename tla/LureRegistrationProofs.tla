------------------------ MODULE LureRegistrationProofs ------------------------
(***************************************************************************)
(* Proofs about LureRegistration, for any requests, lures and bounds.      *)
(***************************************************************************)
EXTENDS LureRegistration, TLAPS

-----------------------------------------------------------------------------
(* Which kind of request waits where, and what it has at hand              *)

KindAt(label) ==
  CASE label \in {"number", "once"} -> {"purchase"}
    [] label \in {"insert", "upload"} -> {"register", "purchase"}
    [] label = "unique" -> {"register", "purchase", "modify"}
    [] label \in {"own", "state", "save"} -> {"modify"}
    [] label \in {"token", "digital", "column", "link", "delete"} -> {"redeem"}
    [] OTHER -> Kinds

\* The local variables of a request fit the await it is at.
Shaped ==
  \A r \in Requests :
    /\ pc[r] = "idle" => ask[r] = NoAsk
    /\ pc[r] # "idle" => ask[r].kind \in KindAt(pc[r])
    /\ pc[r] # "idle" /\ ask[r].kind = "modify" => target[r] \in Made
    /\ pc[r] \in {"upload", "column", "link"} => target[r] \in Made
    /\ pc[r] \in {"digital", "column", "link"} => left[r] > 0
    /\ pc[r] = "upload" => target[r] = <<r, 1>>
    /\ pc[r] \in {"column", "link"} => target[r] = <<r, left[r]>>

Typed == TypeOK /\ Shaped

\* A lure's id is a request and an index.
LEMMA LureId ==
  /\ \A r \in Requests, i \in 1..MaxQuantity : <<r, i>> \in Lures
  /\ \A l \in Lures : l[1] \in Requests /\ l[2] \in 1..MaxQuantity /\ l = <<l[1], l[2]>>
BY DEF Lures

\* What a request asks for has the fields of the request's body.
LEMMA AskFields ==
  ASSUME NEW a \in Asks
  PROVE  /\ a.kind \in Kinds /\ a.member \in Members /\ a.type \in Types
         /\ a.color \in Colors /\ a.number \in Nat /\ a.token \in Tokens
         /\ a.quantity \in 0..MaxQuantity
BY AsksAssumption DEF AskRecords

\* The rows written are rows.
LEMMA RowsFit ==
  ASSUME TypeOK, NEW r \in Requests, pc[r] # "idle"
  PROVE  /\ RowFor(r) \in Rows
         /\ [RowFor(r) EXCEPT !.type = DigitalType] \in Rows
<1>1. ask[r] \in Asks /\ number[r] \in Nat
  BY DEF TypeOK
<1> QED
  BY <1>1, AskFields, NamesAssumption DEF RowFor, Rows

LEMMA InitTyped == Init => Typed
<1> SUFFICES ASSUME Init PROVE Typed
  OBVIOUS
<1>1. TypeOK
  BY BoundsAssumption DEF Init, TypeOK, Statuses, Labels
<1>2. Shaped
  BY DEF Init, Shaped
<1> QED
  BY <1>1, <1>2 DEF Typed

\* Each kind of request that is there begins at its own await.
LEMMA EntryFits ==
  ASSUME NEW a \in Asks
  PROVE  /\ Entry(a) \in {"insert", "unique", "number", "own", "token"}
         /\ a.kind \in KindAt(Entry(a))
BY AskFields DEF Entry, KindAt, Kinds

LEMMA NextTyped == Typed /\ [Next]_vars => Typed'
<1> SUFFICES ASSUME Typed, [Next]_vars PROVE Typed'
  OBVIOUS
<1>t. TypeOK /\ Shaped
  BY DEF Typed
<1> USE <1>t
<1>1. ASSUME NEW r \in Requests, NEW a \in Asks, Arrive(r, a)
      PROVE  Typed'
  <2>1. /\ ask' = [ask EXCEPT ![r] = a]
        /\ number' \in [Requests -> Nat]
        /\ left' = [left EXCEPT ![r] = a.quantity]
        /\ pc' = [pc EXCEPT ![r] = Entry(a)]
        /\ target' \in [Requests -> Lures \cup {NoLure}]
        /\ \A q \in Requests : q # r => target'[q] = target[q]
        /\ a.kind = "modify" => target'[r] \in Made
        /\ Made' = Made
    BY <1>1, AskFields DEF Arrive, Goto, TypeOK, Made, Tables, db
  <2>2. TypeOK'
    BY <1>1, <2>1, EntryFits, AskFields DEF Arrive, TypeOK, Tables, Notes, db, Labels
  <2>3. Shaped'
    BY <2>1, EntryFits, <2>2 DEF Shaped, TypeOK, Kinds
  <2> QED
    BY <2>2, <2>3 DEF Typed
<1>2. ASSUME NEW r \in Requests, GenerateSerialCode(r) PROVE Typed'
  <2>0. number' \in [Requests -> Nat]
    <3>1. \A l \in Made : row[l].number + 1 \in Nat
      BY DEF TypeOK, Made, Rows
    <3>2. \A l \in SameLine(ask[r].type, ask[r].color) : l \in Made
      BY DEF SameLine
    <3> QED
      BY <1>2, <3>1, <3>2 DEF GenerateSerialCode, TypeOK
  <2>1. TypeOK'
    BY <1>2, <2>0 DEF GenerateSerialCode, TypeOK, Goto, Tables, db, Labels, Made
  <2>2. Made' = Made
    BY <1>2 DEF GenerateSerialCode, Made, Tables, db
  <2>3. Shaped'
    BY <1>2, <2>1, <2>2 DEF GenerateSerialCode, Shaped, KindAt, Goto
  <2> QED
    BY <2>1, <2>3 DEF Typed
<1>3. ASSUME NEW r \in Requests, CheckOnce(r) PROVE Typed'
  <2>1. TypeOK'
    BY <1>3 DEF CheckOnce, TypeOK, Goto, Tables, db, Labels, Ends, Made
  <2>2. Made' = Made
    BY <1>3 DEF CheckOnce, Made, Tables, db
  <2>3. Shaped'
    BY <1>3, <2>1, <2>2 DEF CheckOnce, Shaped, KindAt, Goto, Kinds
  <2> QED
    BY <2>1, <2>3 DEF Typed
<1>4. ASSUME NEW r \in Requests, CheckUnique(r) PROVE Typed'
  <2>1. TypeOK'
    BY <1>4 DEF CheckUnique, TypeOK, Goto, Tables, Notes, db, Labels, Ends
  <2>2. Made' = Made
    BY <1>4 DEF CheckUnique, Made, Tables, db
  <2>3. Shaped'
    BY <1>4, <2>1, <2>2 DEF CheckUnique, Shaped, KindAt, Goto, Kinds
  <2> QED
    BY <2>1, <2>3 DEF Typed
<1>5. ASSUME NEW r \in Requests, InsertLure(r) PROVE Typed'
  <2>1. /\ <<r, 1>> \in Lures /\ RowFor(r) \in Rows
    <3>1. 1 \in 1..MaxQuantity /\ pc[r] # "idle"
      BY <1>5, BoundsAssumption DEF InsertLure
    <3> QED
      BY <3>1, LureId, RowsFit
  <2>2. TypeOK'
    BY <1>5, <2>1 DEF InsertLure, TypeOK, Goto, history, Labels
  <2>3. Made \subseteq Made' /\ target'[r] \in Made'
    BY <1>5, <2>1, NamesAssumption DEF InsertLure, TypeOK, Made
  <2>4. Shaped'
    BY <1>5, <2>1, <2>2, <2>3 DEF InsertLure, TypeOK, Shaped, KindAt, Goto
  <2> QED
    BY <2>2, <2>4 DEF Typed
<1>6. ASSUME NEW r \in Requests, FinishRegister(r) PROVE Typed'
  <2>1. TypeOK'
    BY <1>6 DEF FinishRegister, TypeOK, Goto, Shaped, db, history, Labels, Ends, Made
  <2>2. Made' = Made
    BY <1>6 DEF FinishRegister, Made, db
  <2>3. Shaped'
    BY <1>6, <2>1, <2>2 DEF FinishRegister, Shaped, KindAt, Goto, Kinds
  <2> QED
    BY <2>1, <2>3 DEF Typed
<1>7. ASSUME NEW r \in Requests, CheckOwn(r) PROVE Typed'
  <2>1. TypeOK'
    BY <1>7 DEF CheckOwn, TypeOK, Goto, Tables, Notes, db, Labels, Ends
  <2>2. Made' = Made
    BY <1>7 DEF CheckOwn, Made, Tables, db
  <2>3. Shaped'
    BY <1>7, <2>1, <2>2 DEF CheckOwn, Shaped, KindAt, Goto, Kinds
  <2> QED
    BY <2>1, <2>3 DEF Typed
<1>8. ASSUME NEW r \in Requests, CheckRejected(r) PROVE Typed'
  <2>1. TypeOK'
    <3>1. pc[r] # "idle" /\ ask[r].kind = "modify"
      BY <1>8 DEF CheckRejected, FindLatestByLureId, Shaped, KindAt
    <3>2. target[r] \in Lures
      BY <3>1 DEF Shaped, Made
    <3>3. crowded' \subseteq Lures
      BY <1>8, <3>2, Zenon DEF CheckRejected, FindLatestByLureId, TypeOK
    <3>4. pc' \in [Requests -> Labels] /\ \A q \in Requests : pc'[q] # "idle" => pc[q] # "idle"
      BY <1>8 DEF CheckRejected, FindLatestByLureId, TypeOK, Goto, Labels, Ends
    <3> QED
      BY <1>8, <3>3, <3>4 DEF CheckRejected, FindLatestByLureId, TypeOK, Notes, db
  <2>2. Made' = Made
    BY <1>8 DEF CheckRejected, FindLatestByLureId, Made, db
  <2>3. Shaped'
    BY <1>8, <2>1, <2>2 DEF CheckRejected, FindLatestByLureId, Shaped, KindAt, Goto, Kinds
  <2> QED
    BY <2>1, <2>3 DEF Typed
<1>9. ASSUME NEW r \in Requests, SaveModified(r) PROVE Typed'
  <2>1. /\ target[r] \in Made /\ RowFor(r) \in Rows
    <3>1. pc[r] # "idle" /\ ask[r].kind = "modify"
      BY <1>9 DEF SaveModified, Shaped, KindAt
    <3> QED
      BY <3>1, RowsFit DEF Shaped
  <2>2. TypeOK'
    BY <1>9, <2>1 DEF SaveModified, TypeOK, Goto, Notes, Labels, Ends, Made
  <2>3. Made \subseteq Made' /\ target'[r] \in Made'
    BY <1>9, <2>1, NamesAssumption DEF SaveModified, TypeOK, Made
  <2>4. Shaped'
    BY <1>9, <2>1, <2>2, <2>3 DEF SaveModified, Shaped, KindAt, Goto, Kinds
  <2> QED
    BY <2>2, <2>4 DEF Typed
<1>10. ASSUME NEW r \in Requests, FindToken(r) PROVE Typed'
  <2>1. TypeOK'
    BY <1>10 DEF FindToken, TypeOK, Goto, Tables, db, Labels, Ends
  <2>2. Made' = Made
    BY <1>10 DEF FindToken, Made, Tables, db
  <2>3. Shaped'
    BY <1>10, <2>1, <2>2 DEF FindToken, TypeOK, Shaped, KindAt, Goto, Kinds
  <2> QED
    BY <2>1, <2>3 DEF Typed
<1>11. ASSUME NEW r \in Requests, InsertDigital(r) PROVE Typed'
  <2>1. /\ <<r, left[r]>> \in Lures /\ [RowFor(r) EXCEPT !.type = DigitalType] \in Rows
    <3>1. left[r] \in 1..MaxQuantity
      BY <1>11, BoundsAssumption DEF InsertDigital, Shaped, TypeOK
    <3> QED
      BY <1>11, <3>1, LureId, RowsFit DEF InsertDigital
  <2>2. TypeOK'
    BY <1>11, <2>1 DEF InsertDigital, TypeOK, Goto, history, Labels
  <2>3. Made \subseteq Made' /\ target'[r] \in Made'
    BY <1>11, <2>1, NamesAssumption DEF InsertDigital, TypeOK, Made
  <2>4. Shaped'
    BY <1>11, <2>1, <2>2, <2>3 DEF InsertDigital, TypeOK, Shaped, KindAt, Goto
  <2> QED
    BY <2>2, <2>4 DEF Typed
<1>12. ASSUME NEW r \in Requests, UpdateMintId(r) PROVE Typed'
  <2>1. TypeOK'
    BY <1>12 DEF UpdateMintId, TypeOK, Goto, history, Labels
  <2>2. Made' = Made
    BY <1>12 DEF UpdateMintId, Made
  <2>3. Shaped'
    BY <1>12, <2>1, <2>2 DEF UpdateMintId, Shaped, KindAt, Goto
  <2> QED
    BY <2>1, <2>3 DEF Typed
<1>13. ASSUME NEW r \in Requests, InsertMintMaster(r) PROVE Typed'
  <2>1. TypeOK'
    BY <1>13, BoundsAssumption DEF InsertMintMaster, TypeOK, Goto, Shaped, history,
         Labels, Made
  <2>2. Made' = Made
    BY <1>13 DEF InsertMintMaster, Made
  <2>3. Shaped'
    BY <1>13, <2>1, <2>2 DEF InsertMintMaster, TypeOK, Shaped, KindAt, Goto
  <2> QED
    BY <2>1, <2>3 DEF Typed
<1>14. ASSUME NEW r \in Requests, DeleteToken(r) PROVE Typed'
  <2>1. TypeOK'
    BY <1>14 DEF DeleteToken, TypeOK, Goto, history, Labels, Ends
  <2>2. Made' = Made
    BY <1>14 DEF DeleteToken, Made
  <2>3. Shaped'
    BY <1>14, <2>1, <2>2 DEF DeleteToken, Shaped, KindAt, Goto, Kinds
  <2> QED
    BY <2>1, <2>3 DEF Typed
<1>15. ASSUME NEW r \in Requests, Throw(r) PROVE Typed'
  <2>1. TypeOK'
    BY <1>15, BoundsAssumption DEF Throw, TypeOK, Goto, Shaped, Notes, db, Labels,
         Ends, Made
  <2>2. Made' = Made
    BY <1>15 DEF Throw, Made, db
  <2>3. Shaped'
    BY <1>15, <2>1, <2>2 DEF Throw, Shaped, KindAt, Goto, Kinds
  <2> QED
    BY <2>1, <2>3 DEF Typed
<1>16. ASSUME NEW r \in Requests, NEW l \in Lures, SaveReviewStatus(r, l) PROVE Typed'
  <2>1. TypeOK'
    BY <1>16 DEF SaveReviewStatus, SaveStatus, TypeOK, local, Notes, Statuses
  <2>2. Shaped'
    BY <1>16 DEF SaveReviewStatus, SaveStatus, Shaped, local, Made
  <2> QED
    BY <2>1, <2>2 DEF Typed
<1>17. ASSUME NEW l \in Lures, FindReviewed(l) PROVE Typed'
  <2>1. TypeOK'
    BY <1>17 DEF FindReviewed, db, TypeOK, local, Notes, Statuses
  <2>2. Shaped'
    BY <1>17 DEF FindReviewed, db, Shaped, local, Made
  <2> QED
    BY <2>1, <2>2 DEF Typed
<1>18. ASSUME Crash PROVE Typed'
  <2>1. TypeOK'
    BY <1>18, BoundsAssumption DEF Crash, TypeOK, db, Notes, Labels, Ends, Made
  <2>2. Shaped'
    BY <1>18 DEF Crash, Shaped, db, Made, KindAt, Kinds
  <2> QED
    BY <2>1, <2>2 DEF Typed
<1>19. ASSUME UNCHANGED vars PROVE Typed'
  BY <1>19 DEF vars, db, local, history, Typed, TypeOK, Shaped, Made
<1>20. ASSUME NEW d \in decisions, UpdateReviewStatus(d[1], d[2]) PROVE Typed'
  <2>1. TypeOK'
    BY <1>20 DEF UpdateReviewStatus, SaveStatus, TypeOK, local, Notes, Statuses
  <2>2. Shaped'
    BY <1>20 DEF UpdateReviewStatus, SaveStatus, Shaped, local, Made
  <2> QED
    BY <2>1, <2>2 DEF Typed
<1> QED
  BY <1>1, <1>2, <1>3, <1>4, <1>5, <1>6, <1>7, <1>8, <1>9, <1>10, <1>11, <1>12,
       <1>13, <1>14, <1>15, <1>16, <1>17, <1>18, <1>19, <1>20 DEF Next

-----------------------------------------------------------------------------
(* Lures, their makers and the saves under way                             *)

\* A lure has a maker that got as far as to insert it, and the ids that the
\* maker has not come to are free.
Placed ==
  \A l \in Made :
    /\ pc[l[1]] \in {"upload", "digital", "column", "link", "delete", "done", "failed"}
    /\ ask[l[1]].kind # "modify"
    /\ pc[l[1]] = "digital" => l[2] > left[l[1]]
    /\ pc[l[1]] \in {"column", "link"} => l[2] >= left[l[1]]

\* Nothing is known of a lure that is not there.
Blank == \A l \in Lures \ Made : status[l] = "NONE" /\ version[l] = 0

\* The save of a first status is for a lure of the request's own that has none.
OwedFirst ==
  \A r \in Requests, l \in Lures :
    <<r, l>> \in owed =>
      /\ l \in Made /\ pc[r] # "idle"
      /\ ask[r].kind # "modify" =>
           /\ l[1] = r /\ status[l] = "NONE"
           /\ pc[r] \in {"upload", "column", "link"} => target[r] # l
           /\ ask[r].kind = "redeem" => mint[l] = "linked"
      /\ ask[r].kind = "modify" => pc[r] = "done" /\ target[r] = l

\* A lure that is being modified has a status.
ModifiedLater ==
  \A r \in Requests, l \in Lures : Unsettled(r, l) => l \in Made /\ status[l] # "NONE"

\* So has a lure that a reviewer decides on.
UnderReview == \A d \in decisions : d[1] \in Made /\ status[d[1]] # "NONE"

\* A lure that its maker still works at has none.
Young ==
  \A r \in Requests : pc[r] \in {"upload", "column", "link"} => status[target[r]] = "NONE"

Base == Typed /\ Placed /\ Blank /\ OwedFirst /\ ModifiedLater /\ UnderReview /\ Young

LEMMA InitBase == Init => Base
<1> SUFFICES ASSUME Init PROVE Base
  OBVIOUS
<1>1. Made = {}
  BY DEF Init, Made
<1>2. Typed
  BY InitTyped
<1>3. Placed /\ Blank /\ OwedFirst /\ ModifiedLater /\ UnderReview /\ Young
  BY <1>1 DEF Init, Placed, Blank, OwedFirst, ModifiedLater, UnderReview, Unsettled, Young
<1> QED
  BY <1>2, <1>3 DEF Base

\* What SaveModified does to the table.
LEMMA ModifyMakesNone ==
  ASSUME Typed, NEW r \in Requests, SaveModified(r)
  PROVE  /\ target[r] \in Made /\ Made' = Made
         /\ ask[r].kind = "modify" /\ ask' = ask /\ target' = target
         /\ row'[target[r]] = RowFor(r) /\ version'[target[r]] = version[target[r]] + 1
         /\ \A l \in Lures \ {target[r]} : row'[l] = row[l] /\ version'[l] = version[l]
<1>1. pc[r] # "idle" /\ ask[r].kind = "modify"
  BY DEF SaveModified, Typed, Shaped, KindAt
<1>2. target[r] \in Made /\ RowFor(r) # NoRow
  BY <1>1, RowsFit, NamesAssumption DEF Typed, Shaped
<1> QED
  BY <1>1, <1>2 DEF SaveModified, Typed, TypeOK, Made

\* A lure is inserted where there is none.
LEMMA InsertMakesOne ==
  ASSUME Base, NEW r \in Requests, NEW l, NEW w \in Rows, row' = [row EXCEPT ![l] = w],
         \/ pc[r] = "insert" /\ l = <<r, 1>>
         \/ pc[r] = "digital" /\ l = <<r, left[r]>>
  PROVE  /\ l \in Lures /\ l[1] = r /\ l \notin Made /\ Made' = Made \cup {l}
         /\ row'[l] = w /\ \A k \in Lures \ {l} : row'[k] = row[k]
         /\ \A k \in Made : k[1] = r => pc[r] = "digital" /\ k[2] > left[r]
<1>1. 1 \in 1..MaxQuantity /\ (pc[r] = "digital" => left[r] \in 1..MaxQuantity)
  BY BoundsAssumption DEF Base, Typed, TypeOK, Shaped
<1>2. l \in Lures /\ l[1] = r
  BY <1>1, LureId
<1>3. \A k \in Made : k[1] = r => pc[r] = "digital" /\ k[2] > left[r]
  BY DEF Base, Placed
<1>4. l \notin Made
  BY <1>2, <1>3, <1>1 DEF Typed, TypeOK
<1> QED
  BY <1>2, <1>3, <1>4, NamesAssumption DEF Base, Typed, TypeOK, Made

LEMMA NextPlaced == Base /\ Typed' /\ [Next]_vars => Placed' /\ Blank'
<1> SUFFICES ASSUME Base, Typed', [Next]_vars
    PROVE  Placed' /\ Blank'
  OBVIOUS
<1>1. ASSUME NEW r \in Requests, NEW a \in Asks, Arrive(r, a) PROVE Placed' /\ Blank'
  <2>m. Made' = Made
    BY <1>1 DEF Arrive, Tables, db, Made
  <2>1. Placed'
    BY <1>1, <2>m DEF Arrive, Base, Placed, Goto
  <2>2. Blank'
    BY <1>1, <2>m DEF Arrive, Base, Blank, Tables, db
  <2> QED
    BY <2>1, <2>2
<1>2. ASSUME NEW r \in Requests, GenerateSerialCode(r) PROVE Placed' /\ Blank'
  <2>m. Made' = Made
    BY <1>2 DEF GenerateSerialCode, Tables, db, Made
  <2>1. Placed'
    BY <1>2, <2>m DEF GenerateSerialCode, Base, Placed, Goto
  <2>2. Blank'
    BY <1>2, <2>m DEF GenerateSerialCode, Base, Blank, Tables, db
  <2> QED
    BY <2>1, <2>2
<1>3. ASSUME NEW r \in Requests, CheckOnce(r) PROVE Placed' /\ Blank'
  <2>m. Made' = Made
    BY <1>3 DEF CheckOnce, Tables, db, Made
  <2>1. Placed'
    BY <1>3, <2>m DEF CheckOnce, Base, Placed, Goto
  <2>2. Blank'
    BY <1>3, <2>m DEF CheckOnce, Base, Blank, Tables, db
  <2> QED
    BY <2>1, <2>2
<1>4. ASSUME NEW r \in Requests, CheckUnique(r) PROVE Placed' /\ Blank'
  <2>m. Made' = Made
    BY <1>4 DEF CheckUnique, Tables, db, Made
  <2>1. Placed'
    BY <1>4, <2>m DEF CheckUnique, Base, Placed, Goto
  <2>2. Blank'
    BY <1>4, <2>m DEF CheckUnique, Base, Blank, Tables, db
  <2> QED
    BY <2>1, <2>2
<1>5. ASSUME NEW r \in Requests, InsertLure(r) PROVE Placed' /\ Blank'
  <2>1. Placed'
    <3>1. /\ pc[r] = "insert" /\ pc' = [pc EXCEPT ![r] = "upload"] /\ pc \in [Requests -> Labels]
          /\ ask' = ask /\ left' = left /\ row' = [row EXCEPT ![<<r, 1>>] = RowFor(r)]
      BY <1>5 DEF InsertLure, Goto, Base, Typed, TypeOK
    <3>2. Made' \subseteq Made \cup {<<r, 1>>} /\ \A k \in Made : k[1] # r
      BY <3>1 DEF Base, Placed, Made
    <3>3. ask[r].kind # "modify"
      BY <3>1 DEF Base, Typed, Shaped, KindAt
    <3> QED
      BY <3>1, <3>2, <3>3 DEF Base, Placed
  <2>2. Blank'
    BY <1>5 DEF InsertLure, Base, Blank, Placed, history, Made
  <2> QED
    BY <2>1, <2>2
<1>6. ASSUME NEW r \in Requests, FinishRegister(r) PROVE Placed' /\ Blank'
  <2>m. Made' = Made
    BY <1>6 DEF FinishRegister, db, Made
  <2>1. Placed'
    BY <1>6, <2>m DEF FinishRegister, Base, Placed, Goto
  <2>2. Blank'
    BY <1>6, <2>m DEF FinishRegister, Base, Blank, db, history
  <2> QED
    BY <2>1, <2>2
<1>7. ASSUME NEW r \in Requests, CheckOwn(r) PROVE Placed' /\ Blank'
  <2>m. Made' = Made
    BY <1>7 DEF CheckOwn, Tables, db, Made
  <2>1. Placed'
    BY <1>7, <2>m DEF CheckOwn, Base, Placed, Goto
  <2>2. Blank'
    BY <1>7, <2>m DEF CheckOwn, Base, Blank, Tables, db
  <2> QED
    BY <2>1, <2>2
<1>8. ASSUME NEW r \in Requests, CheckRejected(r) PROVE Placed' /\ Blank'
  <2>m. Made' = Made
    BY <1>8 DEF CheckRejected, FindLatestByLureId, db, Made
  <2>1. Placed'
    BY <1>8, <2>m DEF CheckRejected, FindLatestByLureId, Base, Placed, Goto
  <2>2. Blank'
    BY <1>8, <2>m DEF CheckRejected, FindLatestByLureId, Base, Blank, db
  <2> QED
    BY <2>1, <2>2
<1>9. ASSUME NEW r \in Requests, SaveModified(r) PROVE Placed' /\ Blank'
  <2>1. Placed'
    BY <1>9, ModifyMakesNone DEF SaveModified, Base, Placed, Typed, Shaped, KindAt,
         Goto, Made
  <2>2. Blank'
    <3>1. /\ Made' = Made /\ status' = status
          /\ \A l \in Lures \ Made : version'[l] = version[l]
      BY <1>9, ModifyMakesNone DEF SaveModified, Base
    <3> QED
      BY <3>1 DEF Base, Blank
  <2> QED
    BY <2>1, <2>2
<1>10. ASSUME NEW r \in Requests, FindToken(r) PROVE Placed' /\ Blank'
  <2>m. Made' = Made
    BY <1>10 DEF FindToken, Tables, db, Made
  <2>1. Placed'
    BY <1>10, <2>m DEF FindToken, Base, Placed, Goto
  <2>2. Blank'
    BY <1>10, <2>m DEF FindToken, Base, Blank, Tables, db
  <2> QED
    BY <2>1, <2>2
<1>11. ASSUME NEW r \in Requests, InsertDigital(r) PROVE Placed' /\ Blank'
  <2>1. Placed'
    BY <1>11, LureId DEF InsertDigital, Base, Placed, Typed, TypeOK, Shaped, KindAt,
         Goto, Made
  <2>2. Blank'
    BY <1>11 DEF InsertDigital, Base, Blank, Placed, Typed, TypeOK, history, Made
  <2> QED
    BY <2>1, <2>2
<1>12. ASSUME NEW r \in Requests, UpdateMintId(r) PROVE Placed' /\ Blank'
  <2>m. Made' = Made
    BY <1>12 DEF UpdateMintId, Made
  <2>1. Placed'
    BY <1>12, <2>m DEF UpdateMintId, Base, Placed, Goto
  <2>2. Blank'
    BY <1>12, <2>m DEF UpdateMintId, Base, Blank, history
  <2> QED
    BY <2>1, <2>2
<1>13. ASSUME NEW r \in Requests, InsertMintMaster(r) PROVE Placed' /\ Blank'
  <2>m. Made' = Made
    BY <1>13 DEF InsertMintMaster, Made
  <2>1. Placed'
    <3>1. SUFFICES ASSUME NEW l \in Made
          PROVE /\ pc'[l[1]] \in {"upload", "digital", "column", "link", "delete", "done", "failed"}
                /\ ask'[l[1]].kind # "modify"
                /\ pc'[l[1]] = "digital" => l[2] > left'[l[1]]
                /\ pc'[l[1]] \in {"column", "link"} => l[2] >= left'[l[1]]
      BY <2>m DEF Placed
    <3>2. l[1] \in Requests /\ l[2] \in Nat
      BY LureId DEF Made
    <3>3. CASE l[1] = r
      BY <1>13, <3>1, <3>2, <3>3 DEF InsertMintMaster, Base, Placed, Typed, TypeOK, Goto
    <3>4. CASE l[1] # r
      BY <1>13, <3>1, <3>2, <3>4 DEF InsertMintMaster, Base, Placed, Goto
    <3> QED
      BY <3>3, <3>4
  <2>2. Blank'
    BY <1>13, <2>m DEF InsertMintMaster, Base, Blank, history
  <2> QED
    BY <2>1, <2>2
<1>14. ASSUME NEW r \in Requests, DeleteToken(r) PROVE Placed' /\ Blank'
  <2>m. Made' = Made
    BY <1>14 DEF DeleteToken, Made
  <2>1. Placed'
    BY <1>14, <2>m DEF DeleteToken, Base, Placed, Goto
  <2>2. Blank'
    BY <1>14, <2>m DEF DeleteToken, Base, Blank, history
  <2> QED
    BY <2>1, <2>2
<1>15. ASSUME NEW r \in Requests, Throw(r) PROVE Placed' /\ Blank'
  <2>m. Made' = Made
    BY <1>15 DEF Throw, db, Made
  <2>1. Placed'
    BY <1>15, <2>m DEF Throw, Base, Placed, Goto
  <2>2. Blank'
    BY <1>15, <2>m DEF Throw, Base, Blank, db
  <2> QED
    BY <2>1, <2>2
<1>16. ASSUME NEW r \in Requests, NEW l \in Lures, SaveReviewStatus(r, l) PROVE Placed' /\ Blank'
  <2>m. Made' = Made
    BY <1>16 DEF SaveReviewStatus, SaveStatus, Made
  <2>1. Placed'
    BY <1>16, <2>m DEF SaveReviewStatus, SaveStatus, Base, Placed, local
  <2>2. Blank'
    BY <1>16, <2>m DEF SaveReviewStatus, SaveStatus, Base, Blank, OwedFirst
  <2> QED
    BY <2>1, <2>2
<1>17. ASSUME NEW l \in Lures, FindReviewed(l) PROVE Placed' /\ Blank'
  <2>m. Made' = Made
    BY <1>17 DEF FindReviewed, db, Made
  <2>1. Placed'
    BY <1>17, <2>m DEF FindReviewed, db, Base, Placed, local
  <2>2. Blank'
    BY <1>17, <2>m DEF FindReviewed, db, Base, Blank
  <2> QED
    BY <2>1, <2>2
<1>18. ASSUME Crash PROVE Placed' /\ Blank'
  <2>m. Made' = Made
    BY <1>18 DEF Crash, db, Made
  <2>1. Placed'
    BY <1>18, <2>m, LureId DEF Crash, Base, Placed, Made
  <2>2. Blank'
    BY <1>18, <2>m DEF Crash, Base, Blank, db
  <2> QED
    BY <2>1, <2>2
<1>19. ASSUME UNCHANGED vars PROVE Placed' /\ Blank'
  <2>m. Made' = Made
    BY <1>19 DEF db, vars, Made
  <2>1. Placed'
    BY <1>19, <2>m DEF Base, Placed, local, vars
  <2>2. Blank'
    BY <1>19, <2>m DEF Base, Blank, db, history, vars
  <2> QED
    BY <2>1, <2>2
<1>20. ASSUME NEW d \in decisions, UpdateReviewStatus(d[1], d[2]) PROVE Placed' /\ Blank'
  <2>m. Made' = Made
    BY <1>20 DEF UpdateReviewStatus, SaveStatus, Made
  <2>1. Placed'
    BY <1>20, <2>m DEF UpdateReviewStatus, SaveStatus, Base, Placed, local
  <2>2. Blank'
    BY <1>20, <2>m DEF UpdateReviewStatus, SaveStatus, Base, Blank, UnderReview
  <2> QED
    BY <2>1, <2>2
<1> QED
  BY <1>1, <1>2, <1>3, <1>4, <1>5, <1>6, <1>7, <1>8, <1>9, <1>10, <1>11, <1>12,
       <1>13, <1>14, <1>15, <1>16, <1>17, <1>18, <1>19, <1>20 DEF Next

LEMMA NextOwed == Base /\ Typed' /\ [Next]_vars => OwedFirst' /\ ModifiedLater' /\ Young'
<1> SUFFICES ASSUME Base, Typed', [Next]_vars
    PROVE  OwedFirst' /\ ModifiedLater' /\ Young'
  OBVIOUS
<1>1. ASSUME NEW r \in Requests, NEW a \in Asks, Arrive(r, a) PROVE OwedFirst' /\ ModifiedLater' /\ Young'
  <2>m. Made' = Made
    BY <1>1 DEF Arrive, Tables, db, Made
  <2>1. OwedFirst'
    BY <1>1, <2>m DEF Arrive, Base, OwedFirst, Typed, TypeOK, Goto, Tables, db
  <2>2. ModifiedLater'
    <3>1. \A q \in Requests, l \in Lures : Unsettled(q, l)' => Unsettled(q, l)
      <4>1. pc'[r] = Entry(a) /\ Entry(a) # "save" /\ \A l \in Lures : <<r, l>> \notin owed
        <5>1. Entry(a) # "save" /\ pc'[r] = Entry(a)
          BY <1>1, EntryFits DEF Arrive, Goto, Typed, TypeOK
        <5>2. \A l \in Lures : <<r, l>> \notin owed
          BY <1>1 DEF Arrive, Base, OwedFirst
        <5> QED
          BY <5>1, <5>2
      <4> QED
        BY <1>1, <4>1 DEF Arrive, Goto, Unsettled, Tables, Typed, TypeOK
    <3> QED
      BY <1>1, <2>m, <3>1 DEF Arrive, Tables, db, Base, ModifiedLater
  <2>3. Young'
    <3>1. pc'[r] = Entry(a) /\ Entry(a) \notin {"upload", "column", "link"}
      BY <1>1, EntryFits DEF Arrive, Goto, Typed, TypeOK
    <3> QED
      BY <1>1, <3>1 DEF Arrive, Goto, Tables, db, Base, Young, Typed, TypeOK
  <2> QED
    BY <2>1, <2>2, <2>3
<1>2. ASSUME NEW r \in Requests, GenerateSerialCode(r) PROVE OwedFirst' /\ ModifiedLater' /\ Young'
  <2>m. Made' = Made
    BY <1>2 DEF GenerateSerialCode, Tables, db, Made
  <2>1. OwedFirst'
    BY <1>2, <2>m DEF GenerateSerialCode, Base, OwedFirst, Goto, Tables, db
  <2>2. ModifiedLater'
    BY <1>2, <2>m DEF GenerateSerialCode, Base, ModifiedLater, Unsettled, Goto,
         Tables, db
  <2>3. Young'
    BY <1>2, <2>m DEF GenerateSerialCode, Base, Young, Goto, Tables, db
  <2> QED
    BY <2>1, <2>2, <2>3
<1>3. ASSUME NEW r \in Requests, CheckOnce(r) PROVE OwedFirst' /\ ModifiedLater' /\ Young'
  <2>m. Made' = Made
    BY <1>3 DEF CheckOnce, Tables, db, Made
  <2>1. OwedFirst'
    BY <1>3, <2>m DEF CheckOnce, Base, OwedFirst, Goto, Tables, db
  <2>2. ModifiedLater'
    BY <1>3, <2>m DEF CheckOnce, Base, ModifiedLater, Unsettled, Goto, Tables, db
  <2>3. Young'
    BY <1>3, <2>m DEF CheckOnce, Base, Young, Goto, Tables, db
  <2> QED
    BY <2>1, <2>2, <2>3
<1>4. ASSUME NEW r \in Requests, CheckUnique(r) PROVE OwedFirst' /\ ModifiedLater' /\ Young'
  <2>m. Made' = Made
    BY <1>4 DEF CheckUnique, Tables, db, Made
  <2>1. OwedFirst'
    BY <1>4, <2>m DEF CheckUnique, Base, OwedFirst, Goto, Tables, db
  <2>2. ModifiedLater'
    BY <1>4, <2>m DEF CheckUnique, Base, ModifiedLater, Unsettled, Goto, Tables, db
  <2>3. Young'
    BY <1>4, <2>m DEF CheckUnique, Base, Young, Goto, Tables, db
  <2> QED
    BY <2>1, <2>2, <2>3
<1>5. ASSUME NEW r \in Requests, InsertLure(r) PROVE OwedFirst' /\ ModifiedLater' /\ Young'
  <2>1. OwedFirst'
    BY <1>5 DEF InsertLure, Base, OwedFirst, ModifiedLater, Young, Placed, Goto, Made
  <2>2. ModifiedLater'
    BY <1>5 DEF InsertLure, Base, ModifiedLater, Placed, Unsettled, Goto, history, Made
  <2>3. Young'
    <3>0. 1 \in 1..MaxQuantity
      BY BoundsAssumption
    <3>1. <<r, 1>> \in Lures
      BY <3>0, LureId
    <3>2. <<r, 1>> \notin Made
      BY <1>5 DEF InsertLure, Base, Placed
    <3>3. status[<<r, 1>>] = "NONE"
      BY <3>1, <3>2 DEF Base, Blank
    <3>4. status' = status
      BY <1>5 DEF InsertLure
    <3>5. /\ target' = [target EXCEPT ![r] = <<r, 1>>]
          /\ pc' = [pc EXCEPT ![r] = "upload"]
      BY <1>5 DEF InsertLure, Goto
    <3>6. target \in [Requests -> Lures \cup {NoLure}] /\ pc \in [Requests -> Labels]
      BY DEF Base, Typed, TypeOK
    <3>7. Young
      BY DEF Base
    <3> QED
      BY <3>3, <3>4, <3>5, <3>6, <3>7 DEF Young
  <2> QED
    BY <2>1, <2>2, <2>3
<1>6. ASSUME NEW r \in Requests, FinishRegister(r) PROVE OwedFirst' /\ ModifiedLater' /\ Young'
  <2>m. Made' = Made
    BY <1>6 DEF FinishRegister, db, Made
  <2>1. OwedFirst'
    <3>1. /\ ask[r].kind \in {"register", "purchase"} /\ pc[r] = "upload"
          /\ target[r] \in Made /\ target[r] = <<r, 1>> /\ status[target[r]] = "NONE"
      BY <1>6 DEF FinishRegister, Base, Young, Typed, Shaped, KindAt
    <3>2. target[r][1] = r /\ \A q : <<q, target[r]>> = <<r, target[r]>> => q = r
      BY <3>1
    <3>3. /\ pc' = [pc EXCEPT ![r] = "done"] /\ ask' = ask /\ target' = target
          /\ status' = status /\ mint' = mint /\ owed' = owed \cup {<<r, target[r]>>}
      BY <1>6 DEF FinishRegister, Goto, db
    <3>4. \A q \in Requests, l \in Lures :
            <<q, l>> \in owed' => <<q, l>> \in owed \/ (q = r /\ l = target[r])
      BY <3>3
    <3>5. ASSUME NEW q \in Requests, NEW l \in Lures, <<q, l>> \in owed
          PROVE  /\ l \in Made' /\ pc'[q] # "idle"
                 /\ ask'[q].kind # "modify" =>
                      /\ l[1] = q /\ status'[l] = "NONE"
                      /\ pc'[q] \in {"upload", "column", "link"} => target'[q] # l
                      /\ ask'[q].kind = "redeem" => mint'[l] = "linked"
                 /\ ask'[q].kind = "modify" => pc'[q] = "done" /\ target'[q] = l
      BY <2>m, <3>3, <3>5 DEF Base, OwedFirst, Typed
    <3>6. /\ target[r] \in Made' /\ pc'[r] = "done"
          /\ target[r][1] = r /\ status'[target[r]] = "NONE"
          /\ ask'[r].kind \notin {"modify", "redeem"}
      BY <2>m, <3>1, <3>2, <3>3 DEF Base, Typed, TypeOK
    <3> QED
      BY <3>4, <3>5, <3>6 DEF OwedFirst
  <2>2. ModifiedLater'
    BY <1>6, <2>m DEF FinishRegister, Base, ModifiedLater, Placed, Typed, Shaped,
         Unsettled, Goto, db
  <2>3. Young'
    BY <1>6, <2>m DEF FinishRegister, Base, Young, Goto, db
  <2> QED
    BY <2>1, <2>2, <2>3
<1>7. ASSUME NEW r \in Requests, CheckOwn(r) PROVE OwedFirst' /\ ModifiedLater' /\ Young'
  <2>m. Made' = Made
    BY <1>7 DEF CheckOwn, Tables, db, Made
  <2>1. OwedFirst'
    BY <1>7, <2>m DEF CheckOwn, Base, OwedFirst, Goto, Tables, db
  <2>2. ModifiedLater'
    BY <1>7, <2>m DEF CheckOwn, Base, ModifiedLater, Unsettled, Goto, Tables, db
  <2>3. Young'
    BY <1>7, <2>m DEF CheckOwn, Base, Young, Goto, Tables, db
  <2> QED
    BY <2>1, <2>2, <2>3
<1>8. ASSUME NEW r \in Requests, CheckRejected(r) PROVE OwedFirst' /\ ModifiedLater' /\ Young'
  <2>m. Made' = Made
    BY <1>8 DEF CheckRejected, FindLatestByLureId, db, Made
  <2>1. OwedFirst'
    BY <1>8, <2>m DEF CheckRejected, FindLatestByLureId, Base, OwedFirst, Goto, db
  <2>2. ModifiedLater'
    BY <1>8, <2>m DEF CheckRejected, FindLatestByLureId, Base, ModifiedLater, Blank, Unsettled, Goto, db
  <2>3. Young'
    BY <1>8, <2>m DEF CheckRejected, FindLatestByLureId, Base, Young, Goto, db
  <2> QED
    BY <2>1, <2>2, <2>3
<1>9. ASSUME NEW r \in Requests, SaveModified(r) PROVE OwedFirst' /\ ModifiedLater' /\ Young'
  <2>1. OwedFirst'
    <3>1. /\ pc' = [pc EXCEPT ![r] = "done"] /\ pc[r] = "save" /\ status' = status /\ mint' = mint
          /\ owed' = owed \cup {<<r, target[r]>>}
      BY <1>9 DEF SaveModified, Goto
    <3>2. /\ ask[r].kind = "modify" /\ target[r] \in Made /\ Made' = Made
          /\ ask' = ask /\ target' = target
      BY <1>9, ModifyMakesNone DEF Base
    <3>3. \A q \in Requests, l \in Lures :
            <<q, l>> \in owed' => <<q, l>> \in owed \/ (q = r /\ l = target[r])
      BY <3>1
    <3> QED
      BY <3>1, <3>2, <3>3 DEF Base, OwedFirst, Typed, TypeOK
  <2>2. ModifiedLater'
    BY <1>9 DEF SaveModified, Base, OwedFirst, ModifiedLater, Typed, Shaped,
         Unsettled, Goto
  <2>3. Young'
    BY <1>9 DEF SaveModified, Base, Young, Goto
  <2> QED
    BY <2>1, <2>2, <2>3
<1>10. ASSUME NEW r \in Requests, FindToken(r) PROVE OwedFirst' /\ ModifiedLater' /\ Young'
  <2>m. Made' = Made
    BY <1>10 DEF FindToken, Tables, db, Made
  <2>1. OwedFirst'
    BY <1>10, <2>m DEF FindToken, Base, OwedFirst, Goto, Tables, db
  <2>2. ModifiedLater'
    BY <1>10, <2>m DEF FindToken, Base, ModifiedLater, Unsettled, Goto, Tables, db
  <2>3. Young'
    BY <1>10, <2>m DEF FindToken, Base, Young, Goto, Tables, db
  <2> QED
    BY <2>1, <2>2, <2>3
<1>11. ASSUME NEW r \in Requests, InsertDigital(r) PROVE OwedFirst' /\ ModifiedLater' /\ Young'
  <2>1. OwedFirst'
    BY <1>11 DEF InsertDigital, Base, OwedFirst, Placed, Typed, TypeOK, Goto, Made
  <2>2. ModifiedLater'
    BY <1>11 DEF InsertDigital, Base, ModifiedLater, Placed, Typed, TypeOK,
         Unsettled, Goto, Made
  <2>3. Young'
    BY <1>11 DEF InsertDigital, Base, Young, Placed, Blank, Typed, TypeOK, Goto
  <2> QED
    BY <2>1, <2>2, <2>3
<1>12. ASSUME NEW r \in Requests, UpdateMintId(r) PROVE OwedFirst' /\ ModifiedLater' /\ Young'
  <2>m. Made' = Made
    BY <1>12 DEF UpdateMintId, Made
  <2>1. OwedFirst'
    BY <1>12, <2>m DEF UpdateMintId, Base, OwedFirst, Typed, Shaped, Goto
  <2>2. ModifiedLater'
    BY <1>12, <2>m DEF UpdateMintId, Base, ModifiedLater, Unsettled, Goto
  <2>3. Young'
    BY <1>12, <2>m DEF UpdateMintId, Base, Young, Goto
  <2> QED
    BY <2>1, <2>2, <2>3
<1>13. ASSUME NEW r \in Requests, InsertMintMaster(r) PROVE OwedFirst' /\ ModifiedLater' /\ Young'
  <2>m. Made' = Made
    BY <1>13 DEF InsertMintMaster, Made
  <2>1. OwedFirst'
    BY <1>13, <2>m DEF InsertMintMaster, Base, OwedFirst, Young, Placed, Typed,
         TypeOK, Shaped, Goto
  <2>2. ModifiedLater'
    BY <1>13, <2>m DEF InsertMintMaster, Base, ModifiedLater, Placed, Typed, Shaped,
         Unsettled, Goto
  <2>3. Young'
    BY <1>13, <2>m DEF InsertMintMaster, Base, Young, Goto
  <2> QED
    BY <2>1, <2>2, <2>3
<1>14. ASSUME NEW r \in Requests, DeleteToken(r) PROVE OwedFirst' /\ ModifiedLater' /\ Young'
  <2>m. Made' = Made
    BY <1>14 DEF DeleteToken, Made
  <2>1. OwedFirst'
    BY <1>14, <2>m DEF DeleteToken, Base, OwedFirst, Goto
  <2>2. ModifiedLater'
    BY <1>14, <2>m DEF DeleteToken, Base, ModifiedLater, Unsettled, Goto
  <2>3. Young'
    BY <1>14, <2>m DEF DeleteToken, Base, Young, Goto
  <2> QED
    BY <2>1, <2>2, <2>3
<1>15. ASSUME NEW r \in Requests, Throw(r) PROVE OwedFirst' /\ ModifiedLater' /\ Young'
  <2>m. Made' = Made
    BY <1>15 DEF Throw, db, Made
  <2>1. OwedFirst'
    BY <1>15, <2>m DEF Throw, Base, OwedFirst, Ends, Goto, db
  <2>2. ModifiedLater'
    BY <1>15, <2>m DEF Throw, Base, ModifiedLater, Unsettled, Goto, db
  <2>3. Young'
    BY <1>15, <2>m DEF Throw, Base, Young, Goto, db
  <2> QED
    BY <2>1, <2>2, <2>3
<1>16. ASSUME NEW r \in Requests, NEW l \in Lures, SaveReviewStatus(r, l) PROVE OwedFirst' /\ ModifiedLater' /\ Young'
  <2>m. Made' = Made
    BY <1>16 DEF SaveReviewStatus, SaveStatus, Made
  <2>1. OwedFirst'
    <3>1. \A q \in Requests : <<q, l>> \in owed' => ask[q].kind = "modify"
      <4>1. SUFFICES ASSUME NEW q \in Requests, <<q, l>> \in owed', ask[q].kind # "modify"
                     PROVE  FALSE
        OBVIOUS
      <4>2. <<q, l>> \in owed /\ q # r /\ <<r, l>> \in owed
        BY <1>16, <4>1 DEF SaveReviewStatus, SaveStatus
      <4>3. l[1] = q /\ status[l] = "NONE"
        BY <4>1, <4>2 DEF Base, OwedFirst
      <4>4. CASE ask[r].kind = "modify"
        <5>1. Unsettled(r, l)
          BY <4>2, <4>4, AsksAssumption DEF Unsettled, Base, OwedFirst, Typed, TypeOK
        <5> QED
          BY <4>3, <5>1 DEF Base, ModifiedLater
      <4>5. CASE ask[r].kind # "modify"
        BY <4>2, <4>3, <4>5 DEF Base, OwedFirst
      <4> QED
        BY <4>4, <4>5
    <3>2. /\ owed' \subseteq owed /\ \A k \in Lures \ {l} : status'[k] = status[k]
          /\ mint' = mint /\ pc' = pc /\ ask' = ask /\ target' = target
      BY <1>16 DEF SaveReviewStatus, SaveStatus, local, Base
    <3> QED
      BY <2>m, <3>1, <3>2 DEF Base, OwedFirst
  <2>2. ModifiedLater'
    BY <1>16, <2>m DEF SaveReviewStatus, SaveStatus, Base, ModifiedLater, Unsettled, local
  <2>3. Young'
    <3>1. \A q \in Requests : pc[q] \in {"upload", "column", "link"} => target[q] # l
      <4>1. SUFFICES ASSUME NEW q \in Requests, pc[q] \in {"upload", "column", "link"}, target[q] = l
                     PROVE  FALSE
        OBVIOUS
      <4>2. status[l] = "NONE" /\ l[1] = q /\ <<r, l>> \in owed
        BY <1>16, <4>1 DEF SaveReviewStatus, SaveStatus, Base, Young, Typed, Shaped
      <4>3. CASE ask[r].kind = "modify"
        <5>1. Unsettled(r, l)
          BY <4>2, <4>3, AsksAssumption DEF Unsettled, Base, OwedFirst, Typed, TypeOK
        <5> QED
          BY <4>2, <5>1 DEF Base, ModifiedLater
      <4>4. CASE ask[r].kind # "modify"
        BY <4>1, <4>2, <4>4 DEF Base, OwedFirst
      <4> QED
        BY <4>3, <4>4
    <3>2. \A k \in Lures \ {l} : status'[k] = status[k]
      BY <1>16 DEF SaveReviewStatus, SaveStatus, Base, Typed
    <3>3. \A q \in Requests : pc[q] \in {"upload", "column", "link"} => target[q] \in Lures
      BY DEF Base, Typed, Shaped, Made
    <3> QED
      BY <1>16, <3>1, <3>2, <3>3 DEF SaveReviewStatus, SaveStatus, local, Base, Young
  <2> QED
    BY <2>1, <2>2, <2>3
<1>17. ASSUME NEW l \in Lures, FindReviewed(l) PROVE OwedFirst' /\ ModifiedLater' /\ Young'
  <2>m. Made' = Made
    BY <1>17 DEF FindReviewed, db, Made
  <2>1. OwedFirst'
    BY <1>17, <2>m DEF FindReviewed, db, Base, OwedFirst, local
  <2>2. ModifiedLater'
    BY <1>17, <2>m DEF FindReviewed, db, Base, ModifiedLater, Unsettled, local
  <2>3. Young'
    BY <1>17, <2>m DEF FindReviewed, db, Base, Young, local
  <2> QED
    BY <2>1, <2>2, <2>3
<1>18. ASSUME Crash PROVE OwedFirst' /\ ModifiedLater' /\ Young'
  <2>m. Made' = Made
    BY <1>18 DEF Crash, db, Made
  <2>1. OwedFirst'
    BY <1>18, <2>m DEF Crash, Base, OwedFirst
  <2>2. ModifiedLater'
    BY <1>18, <2>m DEF Crash, ModifiedLater, Unsettled, Ends
  <2>3. Young'
    BY <1>18, <2>m DEF Crash, Base, Young, db
  <2> QED
    BY <2>1, <2>2, <2>3
<1>19. ASSUME UNCHANGED vars PROVE OwedFirst' /\ ModifiedLater' /\ Young'
  <2>m. Made' = Made
    BY <1>19 DEF db, vars, Made
  <2>1. OwedFirst'
    BY <1>19, <2>m DEF Base, OwedFirst, db, local, vars
  <2>2. ModifiedLater'
    BY <1>19, <2>m DEF Base, ModifiedLater, Unsettled, db, local, vars
  <2>3. Young'
    BY <1>19, <2>m DEF Base, Young, db, local, vars
  <2> QED
    BY <2>1, <2>2, <2>3
<1>20. ASSUME NEW d \in decisions, UpdateReviewStatus(d[1], d[2]) PROVE OwedFirst' /\ ModifiedLater' /\ Young'
  <2>m. Made' = Made
    BY <1>20 DEF UpdateReviewStatus, SaveStatus, Made
  <2>1. OwedFirst'
    BY <1>20, <2>m DEF UpdateReviewStatus, SaveStatus, Base, UnderReview, Typed, TypeOK,
         OwedFirst, local
  <2>2. ModifiedLater'
    BY <1>20, <2>m DEF UpdateReviewStatus, SaveStatus, Base, UnderReview, Typed, TypeOK,
         ModifiedLater, Unsettled, local
  <2>3. Young'
    BY <1>20, <2>m DEF UpdateReviewStatus, SaveStatus, Base, UnderReview, Typed, TypeOK,
         Young, local
  <2> QED
    BY <2>1, <2>2, <2>3
<1> QED
  BY <1>1, <1>2, <1>3, <1>4, <1>5, <1>6, <1>7, <1>8, <1>9, <1>10, <1>11, <1>12,
       <1>13, <1>14, <1>15, <1>16, <1>17, <1>18, <1>19, <1>20 DEF Next

LEMMA NextUnderReview == Base /\ [Next]_vars => UnderReview'
<1> SUFFICES ASSUME Base, [Next]_vars PROVE UnderReview'
  OBVIOUS
<1> USE DEF Base
<1>1. ASSUME NEW r \in Requests, SaveModified(r) PROVE UnderReview'
  BY <1>1, ModifyMakesNone DEF SaveModified, UnderReview
<1>2. ASSUME NEW r \in Requests, InsertLure(r) PROVE UnderReview'
  <2>1. RowFor(r) \in Rows
    BY <1>2, RowsFit DEF InsertLure, Typed
  <2>2. Made' = Made \cup {<<r, 1>>}
    BY <1>2, <2>1, InsertMakesOne DEF InsertLure
  <2> QED
    BY <1>2, <2>2 DEF InsertLure, history, UnderReview
<1>3. ASSUME NEW r \in Requests, InsertDigital(r) PROVE UnderReview'
  <2>1. [RowFor(r) EXCEPT !.type = DigitalType] \in Rows
    BY <1>3, RowsFit DEF InsertDigital, Typed
  <2>2. Made' = Made \cup {<<r, left[r]>>}
    BY <1>3, <2>1, InsertMakesOne DEF InsertDigital
  <2> QED
    BY <1>3, <2>2 DEF InsertDigital, history, UnderReview
<1>4. ASSUME NEW r \in Requests, NEW l \in Lures, SaveReviewStatus(r, l) PROVE UnderReview'
  BY <1>4 DEF SaveReviewStatus, SaveStatus, UnderReview, Typed, TypeOK, Made
<1>5. ASSUME NEW l \in Lures, FindReviewed(l) PROVE UnderReview'
  BY <1>5 DEF FindReviewed, db, Blank, UnderReview, Made
<1>6. ASSUME NEW d \in decisions, UpdateReviewStatus(d[1], d[2]) PROVE UnderReview'
  BY <1>6 DEF UpdateReviewStatus, SaveStatus, UnderReview, Typed, TypeOK, Made
<1>7. CASE row' = row /\ status' = status /\ decisions' = decisions
  BY <1>7 DEF UnderReview, Made
<1> QED
  BY <1>1, <1>2, <1>3, <1>4, <1>5, <1>6, <1>7 DEF Next, Arrive, GenerateSerialCode,
     CheckOnce, CheckUnique, FinishRegister, CheckOwn, CheckRejected, FindLatestByLureId,
     FindToken, UpdateMintId, InsertMintMaster, DeleteToken, Throw, Crash, Tables, db,
     history, vars

\* The invariant of the lures and their makers.
LEMMA BaseAlways == Spec => []Base
<1>1. Base /\ [Next]_vars => Base'
  BY NextTyped, NextPlaced, NextOwed, NextUnderReview DEF Base
<1> QED
  BY InitBase, <1>1, PTL DEF Spec

\* TypeOK: the tables, local variables and history variables keep their types.
THEOREM TypeCorrect == Spec => []TypeOK
<1>1. Base => TypeOK
  BY DEF Base, Typed
<1> QED
  BY BaseAlways, <1>1, PTL

-----------------------------------------------------------------------------
(* Every lure gets its status, and a digital one not before it is linked.  *)

Linked ==
  \A l \in Made : status[l] # "NONE" /\ Maker(l).kind = "redeem" => mint[l] = "linked"

\* A request that arrives is not yet the maker of a lure.
LEMMA MakersStay ==
  ASSUME Base, NEW r \in Requests, NEW a \in Asks, Arrive(r, a)
  PROVE  \A l \in Made :
           /\ l[1] \in Requests /\ l[1] # r /\ pc'[l[1]] = pc[l[1]]
           /\ ask'[l[1]] = ask[l[1]] /\ left'[l[1]] = left[l[1]]
           /\ number'[l[1]] = number[l[1]] /\ target'[l[1]] = target[l[1]]
<1> SUFFICES ASSUME NEW l \in Made
    PROVE  /\ l[1] \in Requests /\ l[1] # r /\ pc'[l[1]] = pc[l[1]]
           /\ ask'[l[1]] = ask[l[1]] /\ left'[l[1]] = left[l[1]]
           /\ number'[l[1]] = number[l[1]] /\ target'[l[1]] = target[l[1]]
  OBVIOUS
<1>1. l[1] \in Requests /\ l[1] # r
  BY LureId DEF Arrive, Made, Base, Placed
<1> QED
  BY <1>1 DEF Arrive, Goto, Base, Typed, TypeOK

\* A save that is under way for a modification is for a lure with a status.
LEMMA OwedAgain ==
  ASSUME Base, NEW r \in Requests, NEW l \in Lures, <<r, l>> \in owed, ask[r].kind = "modify"
  PROVE  Unsettled(r, l) /\ status[l] # "NONE"
<1>1. Unsettled(r, l)
  BY AsksAssumption DEF Unsettled, Base, OwedFirst, Typed, TypeOK
<1> QED
  BY <1>1 DEF Base, ModifiedLater

LEMMA NextReviewed == Base /\ LureHasReview /\ Linked /\ Typed' /\ [Next]_vars => LureHasReview' /\ Linked'
<1> SUFFICES ASSUME Base /\ LureHasReview /\ Linked, Typed', [Next]_vars
    PROVE  LureHasReview' /\ Linked'
  OBVIOUS
<1>1. ASSUME NEW r \in Requests, NEW a \in Asks, Arrive(r, a) PROVE LureHasReview' /\ Linked'
  <2>m. Made' = Made
    BY <1>1 DEF Arrive, Tables, db, Made
  <2>1. LureHasReview'
    BY <1>1, <2>m, MakersStay DEF Arrive, Tables, db, LureHasReview
  <2>2. Linked'
    BY <1>1, <2>m, MakersStay DEF Arrive, Tables, db, Linked, Maker
  <2> QED
    BY <2>1, <2>2
<1>2. ASSUME NEW r \in Requests, GenerateSerialCode(r) PROVE LureHasReview' /\ Linked'
  <2>m. Made' = Made
    BY <1>2 DEF GenerateSerialCode, Tables, db, Made
  <2>1. LureHasReview'
    BY <1>2, <2>m DEF GenerateSerialCode, LureHasReview, Goto, Tables, db
  <2>2. Linked'
    BY <1>2, <2>m DEF GenerateSerialCode, Linked, Maker, Tables, db
  <2> QED
    BY <2>1, <2>2
<1>3. ASSUME NEW r \in Requests, CheckOnce(r) PROVE LureHasReview' /\ Linked'
  <2>m. Made' = Made
    BY <1>3 DEF CheckOnce, Tables, db, Made
  <2>1. LureHasReview'
    BY <1>3, <2>m DEF CheckOnce, LureHasReview, Goto, Tables, db
  <2>2. Linked'
    BY <1>3, <2>m DEF CheckOnce, Linked, Maker, Tables, db
  <2> QED
    BY <2>1, <2>2
<1>4. ASSUME NEW r \in Requests, CheckUnique(r) PROVE LureHasReview' /\ Linked'
  <2>m. Made' = Made
    BY <1>4 DEF CheckUnique, Tables, db, Made
  <2>1. LureHasReview'
    BY <1>4, <2>m DEF CheckUnique, LureHasReview, Goto, Tables, db
  <2>2. Linked'
    BY <1>4, <2>m DEF CheckUnique, Linked, Maker, Tables, db
  <2> QED
    BY <2>1, <2>2
<1>5. ASSUME NEW r \in Requests, InsertLure(r) PROVE LureHasReview' /\ Linked'
  <2>1. LureHasReview'
    BY <1>5 DEF InsertLure, LureHasReview, Typed, TypeOK, Goto, history, Made
  <2>2. Linked'
    BY <1>5 DEF InsertLure, Base, Blank, Linked, Maker, Made
  <2> QED
    BY <2>1, <2>2
<1>6. ASSUME NEW r \in Requests, FinishRegister(r) PROVE LureHasReview' /\ Linked'
  <2>m. Made' = Made
    BY <1>6 DEF FinishRegister, db, Made
  <2>1. LureHasReview'
    BY <1>6, <2>m DEF FinishRegister, LureHasReview, Goto, db, history
  <2>2. Linked'
    BY <1>6, <2>m DEF FinishRegister, Linked, Maker, db
  <2> QED
    BY <2>1, <2>2
<1>7. ASSUME NEW r \in Requests, CheckOwn(r) PROVE LureHasReview' /\ Linked'
  <2>m. Made' = Made
    BY <1>7 DEF CheckOwn, Tables, db, Made
  <2>1. LureHasReview'
    BY <1>7, <2>m DEF CheckOwn, LureHasReview, Goto, Tables, db
  <2>2. Linked'
    BY <1>7, <2>m DEF CheckOwn, Linked, Maker, Tables, db
  <2> QED
    BY <2>1, <2>2
<1>8. ASSUME NEW r \in Requests, CheckRejected(r) PROVE LureHasReview' /\ Linked'
  <2>m. Made' = Made
    BY <1>8 DEF CheckRejected, FindLatestByLureId, db, Made
  <2>1. LureHasReview'
    BY <1>8, <2>m DEF CheckRejected, FindLatestByLureId, LureHasReview, Goto, db
  <2>2. Linked'
    BY <1>8, <2>m DEF CheckRejected, FindLatestByLureId, Linked, Maker, db
  <2> QED
    BY <2>1, <2>2
<1>9. ASSUME NEW r \in Requests, SaveModified(r) PROVE LureHasReview' /\ Linked'
  <2>1. LureHasReview'
    <3>1. \A l \in Made : l[1] \in Requests /\ l[1] # r
      BY <1>9, ModifyMakesNone, LureId DEF Base, Placed, Made
    <3>2. pc' = [pc EXCEPT ![r] = "done"] /\ owed \subseteq owed' /\ status' = status /\ torn' = torn
      BY <1>9 DEF SaveModified, Goto
    <3> QED
      BY <1>9, <3>1, <3>2, ModifyMakesNone DEF Base, LureHasReview, Typed
  <2>2. Linked'
    BY <1>9 DEF SaveModified, Base, Blank, Linked, Maker, Made
  <2> QED
    BY <2>1, <2>2
<1>10. ASSUME NEW r \in Requests, FindToken(r) PROVE LureHasReview' /\ Linked'
  <2>m. Made' = Made
    BY <1>10 DEF FindToken, Tables, db, Made
  <2>1. LureHasReview'
    BY <1>10, <2>m DEF FindToken, LureHasReview, Goto, Tables, db
  <2>2. Linked'
    BY <1>10, <2>m DEF FindToken, Linked, Maker, Tables, db
  <2> QED
    BY <2>1, <2>2
<1>11. ASSUME NEW r \in Requests, InsertDigital(r) PROVE LureHasReview' /\ Linked'
  <2>1. LureHasReview'
    BY <1>11 DEF InsertDigital, LureHasReview, Typed, TypeOK, Goto, history, Made
  <2>2. Linked'
    BY <1>11 DEF InsertDigital, Base, Blank, Linked, Maker, Made
  <2> QED
    BY <2>1, <2>2
<1>12. ASSUME NEW r \in Requests, UpdateMintId(r) PROVE LureHasReview' /\ Linked'
  <2>m. Made' = Made
    BY <1>12 DEF UpdateMintId, Made
  <2>1. LureHasReview'
    BY <1>12, <2>m DEF UpdateMintId, LureHasReview, Goto, history
  <2>2. Linked'
    BY <1>12, <2>m DEF UpdateMintId, Base, Young, Linked, Maker
  <2> QED
    BY <2>1, <2>2
<1>13. ASSUME NEW r \in Requests, InsertMintMaster(r) PROVE LureHasReview' /\ Linked'
  <2>m. Made' = Made
    BY <1>13 DEF InsertMintMaster, Made
  <2>1. LureHasReview'
    BY <1>13, <2>m DEF InsertMintMaster, LureHasReview, Goto, history
  <2>2. Linked'
    BY <1>13, <2>m DEF InsertMintMaster, Linked, Maker
  <2> QED
    BY <2>1, <2>2
<1>14. ASSUME NEW r \in Requests, DeleteToken(r) PROVE LureHasReview' /\ Linked'
  <2>m. Made' = Made
    BY <1>14 DEF DeleteToken, Made
  <2>1. LureHasReview'
    BY <1>14, <2>m DEF DeleteToken, LureHasReview, Goto, history
  <2>2. Linked'
    BY <1>14, <2>m DEF DeleteToken, Linked, Maker
  <2> QED
    BY <2>1, <2>2
<1>15. ASSUME NEW r \in Requests, Throw(r) PROVE LureHasReview' /\ Linked'
  <2>m. Made' = Made
    BY <1>15 DEF Throw, db, Made
  <2>1. LureHasReview'
    BY <1>15, <2>m DEF Throw, LureHasReview, Goto, db
  <2>2. Linked'
    BY <1>15, <2>m DEF Throw, Linked, Maker, db
  <2> QED
    BY <2>1, <2>2
<1>16. ASSUME NEW r \in Requests, NEW l \in Lures, SaveReviewStatus(r, l) PROVE LureHasReview' /\ Linked'
  <2>m. Made' = Made
    BY <1>16 DEF SaveReviewStatus, SaveStatus, Made
  <2>1. LureHasReview'
    BY <1>16, <2>m DEF SaveReviewStatus, SaveStatus, LureHasReview, Typed, TypeOK, local
  <2>2. Linked'
    <3>1. ask[r].kind = "modify" => status[l] # "NONE"
      BY <1>16, OwedAgain DEF SaveReviewStatus, SaveStatus
    <3>2. ask[r].kind # "modify" => l[1] = r /\ (ask[r].kind = "redeem" => mint[l] = "linked")
      BY <1>16 DEF SaveReviewStatus, SaveStatus, Base, OwedFirst
    <3>3. \A k \in Lures \ {l} : status'[k] = status[k]
      BY <1>16 DEF SaveReviewStatus, SaveStatus, Base, Typed
    <3> QED
      BY <1>16, <2>m, <3>1, <3>2, <3>3 DEF SaveReviewStatus, SaveStatus, local, Linked, Maker
  <2> QED
    BY <2>1, <2>2
<1>17. ASSUME NEW l \in Lures, FindReviewed(l) PROVE LureHasReview' /\ Linked'
  <2>m. Made' = Made
    BY <1>17 DEF FindReviewed, db, Made
  <2>1. LureHasReview'
    BY <1>17, <2>m DEF FindReviewed, db, LureHasReview, local
  <2>2. Linked'
    BY <1>17, <2>m DEF FindReviewed, db, Linked, Maker, local
  <2> QED
    BY <2>1, <2>2
<1>18. ASSUME Crash PROVE LureHasReview' /\ Linked'
  <2>m. Made' = Made
    BY <1>18 DEF Crash, db, Made
  <2>1. LureHasReview'
    BY <1>18, <2>m DEF Crash, LureHasReview, db
  <2>2. Linked'
    BY <1>18, <2>m DEF Crash, Linked, Maker, db
  <2> QED
    BY <2>1, <2>2
<1>19. ASSUME UNCHANGED vars PROVE LureHasReview' /\ Linked'
  <2>m. Made' = Made
    BY <1>19 DEF db, vars, Made
  <2>1. LureHasReview'
    BY <1>19, <2>m DEF LureHasReview, db, local, history, vars
  <2>2. Linked'
    BY <1>19, <2>m DEF Linked, Maker, db, local, vars
  <2> QED
    BY <2>1, <2>2
<1>20. ASSUME NEW d \in decisions, UpdateReviewStatus(d[1], d[2]) PROVE LureHasReview' /\ Linked'
  <2>m. Made' = Made
    BY <1>20 DEF UpdateReviewStatus, SaveStatus, Made
  <2>1. LureHasReview'
    BY <1>20, <2>m DEF UpdateReviewStatus, SaveStatus, LureHasReview, local
  <2>2. Linked'
    BY <1>20, <2>m DEF UpdateReviewStatus, SaveStatus, Base, UnderReview, Typed, TypeOK,
         Linked, Maker, local
  <2> QED
    BY <2>1, <2>2
<1> QED
  BY <1>1, <1>2, <1>3, <1>4, <1>5, <1>6, <1>7, <1>8, <1>9, <1>10, <1>11, <1>12,
       <1>13, <1>14, <1>15, <1>16, <1>17, <1>18, <1>19, <1>20 DEF Next

-----------------------------------------------------------------------------
(* A lure is modified while it is rejected and no reviewer decides on it.  *)

Settled ==
  \A l \in Lures \ crowded :
    /\ \A r \in Requests : Unsettled(r, l) => status[l] = "REJECT"
    /\ \A q, r \in Requests : Unsettled(q, l) /\ Unsettled(r, l) => q = r
    /\ \A d \in decisions : d[1] = l => d[2] = version[l]
    /\ (\E d \in decisions : d[1] = l) => \A r \in Requests : ~Unsettled(r, l)
    /\ status[l] = "APPROVE" => decided[l] = version[l]

\* Where no modification begins and no status changes, all stays settled.
LEMMA QuietlySettled ==
  ASSUME Settled,
         status' = status /\ decided' = decided /\ version' = version /\ crowded' = crowded,
         decisions' = decisions,
         \A r \in Requests, l \in Lures : Unsettled(r, l)' => Unsettled(r, l)
  PROVE  Settled'
BY DEF Settled

LEMMA NextSettled == Base /\ Settled /\ Typed' /\ [Next]_vars => Settled'
<1> SUFFICES ASSUME Base /\ Settled, Typed', [Next]_vars
    PROVE  Settled'
  OBVIOUS
<1>1. ASSUME NEW r \in Requests, NEW a \in Asks, Arrive(r, a) PROVE Settled'
  <2>1. \A q \in Requests, k \in Lures : Unsettled(q, k)' => Unsettled(q, k)
    <3>1. pc'[r] = Entry(a) /\ Entry(a) # "save"
      BY <1>1, EntryFits DEF Arrive, Goto, Typed, TypeOK
    <3>2. \A k \in Lures : <<r, k>> \notin owed
      BY <1>1 DEF Arrive, Base, OwedFirst
    <3> QED
      BY <1>1, <3>1, <3>2 DEF Arrive, Goto, Unsettled, Tables, Typed, TypeOK
  <2> QED
    BY <1>1, <2>1, QuietlySettled DEF Arrive, Tables, db
<1>2. ASSUME NEW r \in Requests, GenerateSerialCode(r) PROVE Settled'
  <2>1. ask[r].kind # "modify"
    BY <1>2 DEF GenerateSerialCode, Base, Typed, Shaped, KindAt
  <2>2. \A q \in Requests, k \in Lures : Unsettled(q, k)' => Unsettled(q, k)
    BY <1>2, <2>1 DEF GenerateSerialCode, Goto, Unsettled, Tables
  <2> QED
    BY <1>2, <2>2, QuietlySettled DEF GenerateSerialCode, Tables, db
<1>3. ASSUME NEW r \in Requests, CheckOnce(r) PROVE Settled'
  <2>1. \A q \in Requests, k \in Lures : Unsettled(q, k)' => Unsettled(q, k)
    BY <1>3 DEF CheckOnce, Goto, Unsettled, Tables
  <2> QED
    BY <1>3, <2>1, QuietlySettled DEF CheckOnce, Tables, db
<1>4. ASSUME NEW r \in Requests, CheckUnique(r) PROVE Settled'
  <2>1. \A q \in Requests, k \in Lures : Unsettled(q, k)' => Unsettled(q, k)
    BY <1>4 DEF CheckUnique, Goto, Unsettled, Tables
  <2> QED
    BY <1>4, <2>1, QuietlySettled DEF CheckUnique, Tables, db
<1>5. ASSUME NEW r \in Requests, InsertLure(r) PROVE Settled'
  <2>1. ask[r].kind # "modify"
    BY <1>5 DEF InsertLure, Base, Typed, Shaped, KindAt
  <2>2. \A q \in Requests, k \in Lures : Unsettled(q, k)' => Unsettled(q, k)
    BY <1>5, <2>1 DEF InsertLure, Goto, Unsettled
  <2> QED
    BY <1>5, <2>2, QuietlySettled DEF InsertLure, history
<1>6. ASSUME NEW r \in Requests, FinishRegister(r) PROVE Settled'
  <2>1. ask[r].kind # "modify"
    BY <1>6 DEF FinishRegister, Base, Typed, Shaped, KindAt
  <2>2. \A q \in Requests, k \in Lures : Unsettled(q, k)' => Unsettled(q, k)
    BY <1>6, <2>1 DEF FinishRegister, Goto, Unsettled
  <2> QED
    BY <1>6, <2>2, QuietlySettled DEF FinishRegister, db, history
<1>7. ASSUME NEW r \in Requests, CheckOwn(r) PROVE Settled'
  <2>1. \A q \in Requests, k \in Lures : Unsettled(q, k)' => Unsettled(q, k)
    BY <1>7 DEF CheckOwn, Goto, Unsettled, Tables
  <2> QED
    BY <1>7, <2>1, QuietlySettled DEF CheckOwn, Tables, db
<1>8. ASSUME NEW r \in Requests, CheckRejected(r) PROVE Settled'
  <2>1. /\ pc[r] = "state" /\ ask' = ask /\ target' = target /\ owed' = owed
        /\ status' = status /\ decided' = decided /\ version' = version /\ decisions' = decisions
        /\ crowded \subseteq crowded' /\ \A q \in Requests \ {r} : pc'[q] = pc[q]
    BY <1>8 DEF CheckRejected, FindLatestByLureId, Goto, db
  <2>2. \A k \in Lures : <<r, k>> \notin owed
    BY <2>1 DEF Base, OwedFirst, Typed, Shaped, KindAt
  <2>3. \A q \in Requests, k \in Lures : Unsettled(q, k)' =>
          Unsettled(q, k) \/ (q = r /\ k = target[r] /\ pc'[r] = "save")
    BY <2>1 DEF Unsettled
  <2>4. \A k \in Lures : ~Unsettled(r, k)
    BY <2>1, <2>2 DEF Unsettled
  <2>5. CASE status[target[r]] = "REJECT"
    <3>1. Meets(r, target[r]) => target[r] \in crowded'
      BY <1>8, <2>5, Zenon DEF CheckRejected, FindLatestByLureId
    <3>2. ASSUME NEW l \in Lures \ crowded', NEW q \in Requests, NEW p \in Requests,
                 Unsettled(q, l)', Unsettled(p, l)'
          PROVE  q = p
      BY <2>1, <2>3, <2>4, <3>1, <3>2 DEF Settled, Meets
    <3>3. ASSUME NEW l \in Lures \ crowded', NEW d \in decisions', d[1] = l, NEW q \in Requests
          PROVE  d[2] = version'[l] /\ ~Unsettled(q, l)'
      BY <2>1, <2>3, <3>1, <3>3 DEF Settled, Meets
    <3> QED
      BY <2>1, <2>3, <2>5, <3>2, <3>3 DEF Settled
  <2>6. CASE status[target[r]] # "REJECT"
    <3>1. pc'[r] # "save"
      BY <1>8, <2>6 DEF CheckRejected, FindLatestByLureId, Goto, Base
    <3> QED
      BY <2>1, <2>3, <3>1 DEF Settled
  <2> QED
    BY <2>5, <2>6
<1>9. ASSUME NEW r \in Requests, SaveModified(r) PROVE Settled'
  <2>1. /\ pc[r] = "save" /\ pc' = [pc EXCEPT ![r] = "done"] /\ owed' = owed \cup {<<r, target[r]>>}
        /\ status' = status /\ decided' = decided /\ crowded' = crowded
        /\ decisions' = decisions
    BY <1>9 DEF SaveModified, Goto
  <2>2. /\ target[r] \in Lures /\ ask[r].kind = "modify" /\ ask' = ask /\ target' = target
        /\ \A k \in Lures \ {target[r]} : version'[k] = version[k]
    BY <1>9, ModifyMakesNone DEF Base, Made
  <2>3. Unsettled(r, target[r])
    BY <2>1, <2>2, AsksAssumption DEF Unsettled, Typed, TypeOK
  <2>4. \A q \in Requests, k \in Lures :
          <<q, k>> \in owed' => <<q, k>> \in owed \/ (q = r /\ k = target[r])
    BY <2>1
  <2>5. \A q \in Requests, k \in Lures : Unsettled(q, k)' => Unsettled(q, k)
    BY <2>1, <2>2, <2>3, <2>4 DEF Unsettled, Base, Typed
  <2>6. target[r] \notin crowded => status[target[r]] = "REJECT"
    BY <2>2, <2>3 DEF Settled
  <2> QED
    BY <2>1, <2>2, <2>3, <2>5, <2>6 DEF Settled
<1>10. ASSUME NEW r \in Requests, FindToken(r) PROVE Settled'
  <2>1. \A q \in Requests, k \in Lures : Unsettled(q, k)' => Unsettled(q, k)
    BY <1>10 DEF FindToken, Goto, Unsettled, Tables
  <2> QED
    BY <1>10, <2>1, QuietlySettled DEF FindToken, Tables, db
<1>11. ASSUME NEW r \in Requests, InsertDigital(r) PROVE Settled'
  <2>1. ask[r].kind # "modify"
    BY <1>11 DEF InsertDigital, Base, Typed, Shaped, KindAt
  <2>2. \A q \in Requests, k \in Lures : Unsettled(q, k)' => Unsettled(q, k)
    BY <1>11, <2>1 DEF InsertDigital, Goto, Unsettled
  <2> QED
    BY <1>11, <2>2, QuietlySettled DEF InsertDigital, history
<1>12. ASSUME NEW r \in Requests, UpdateMintId(r) PROVE Settled'
  <2>1. ask[r].kind # "modify"
    BY <1>12 DEF UpdateMintId, Base, Typed, Shaped, KindAt
  <2>2. \A q \in Requests, k \in Lures : Unsettled(q, k)' => Unsettled(q, k)
    BY <1>12, <2>1 DEF UpdateMintId, Goto, Unsettled
  <2> QED
    BY <1>12, <2>2, QuietlySettled DEF UpdateMintId, history
<1>13. ASSUME NEW r \in Requests, InsertMintMaster(r) PROVE Settled'
  <2>1. ask[r].kind # "modify"
    BY <1>13 DEF InsertMintMaster, Base, Typed, Shaped, KindAt
  <2>2. \A q \in Requests, k \in Lures : Unsettled(q, k)' => Unsettled(q, k)
    BY <1>13, <2>1 DEF InsertMintMaster, Goto, Unsettled
  <2> QED
    BY <1>13, <2>2, QuietlySettled DEF InsertMintMaster, history
<1>14. ASSUME NEW r \in Requests, DeleteToken(r) PROVE Settled'
  <2>1. \A q \in Requests, k \in Lures : Unsettled(q, k)' => Unsettled(q, k)
    BY <1>14 DEF DeleteToken, Goto, Unsettled
  <2> QED
    BY <1>14, <2>1, QuietlySettled DEF DeleteToken, history
<1>15. ASSUME NEW r \in Requests, Throw(r) PROVE Settled'
  <2>1. \A q \in Requests, k \in Lures : Unsettled(q, k)' => Unsettled(q, k)
    BY <1>15 DEF Throw, Goto, Unsettled
  <2> QED
    BY <1>15, <2>1, QuietlySettled DEF Throw, Notes, db
<1>16. ASSUME NEW r \in Requests, NEW l \in Lures, SaveReviewStatus(r, l) PROVE Settled'
  <2>1. /\ <<r, l>> \in owed /\ owed' = owed \ {<<r, l>>} /\ ask' = ask /\ pc' = pc
        /\ target' = target /\ version' = version /\ crowded' = crowded
        /\ decisions' = decisions
        /\ status'[l] = "APPROVE" => decided'[l] = version[l]
        /\ \A k \in Lures \ {l} : status'[k] = status[k] /\ decided'[k] = decided[k]
    BY <1>16 DEF SaveReviewStatus, SaveStatus, local, Typed, TypeOK
  <2>2. \A q \in Requests, k \in Lures : Unsettled(q, k)' => Unsettled(q, k)
    BY <2>1 DEF Unsettled
  <2>3. \A q \in Requests : l \notin crowded => ~Unsettled(q, l)'
    <3>1. SUFFICES ASSUME NEW q \in Requests, l \notin crowded, Unsettled(q, l)'
                   PROVE  FALSE
      OBVIOUS
    <3>2. Unsettled(q, l) /\ status[l] # "NONE"
      BY <2>2, <3>1 DEF Base, ModifiedLater
    <3>3. ask[r].kind = "modify"
      BY <2>1, <3>2 DEF Base, OwedFirst
    <3>4. q = r
      BY <2>1, <3>1, <3>2, <3>3, OwedAgain DEF Settled
    <3>5. pc[r] = "done"
      BY <2>1, <3>3 DEF Base, OwedFirst
    <3> QED
      BY <2>1, <3>1, <3>4, <3>5 DEF Unsettled
  <2> QED
    BY <2>1, <2>2, <2>3 DEF Settled
<1>17. ASSUME NEW l \in Lures, FindReviewed(l) PROVE Settled'
  <2>1. /\ owed' = owed /\ ask' = ask /\ pc' = pc /\ target' = target
        /\ status' = status /\ decided' = decided /\ version' = version
        /\ decisions' = decisions \cup {<<l, version[l]>>} /\ crowded \subseteq crowded'
        /\ (\E r \in Requests : Unsettled(r, l)) => l \in crowded'
    BY <1>17, Zenon DEF FindReviewed, db, local
  <2>2. \A q \in Requests, k \in Lures : Unsettled(q, k)' => Unsettled(q, k)
    BY <2>1 DEF Unsettled
  <2> QED
    BY <2>1, <2>2 DEF Settled
<1>18. ASSUME Crash PROVE Settled'
  <2>1. \A q \in Requests, k \in Lures : Unsettled(q, k)' => Unsettled(q, k)
    BY <1>18 DEF Crash, Unsettled, Base
  <2> QED
    BY <1>18, <2>1, QuietlySettled DEF Crash, Notes, db
<1>19. ASSUME UNCHANGED vars PROVE Settled'
  <2>1. \A q \in Requests, k \in Lures : Unsettled(q, k)' => Unsettled(q, k)
    BY <1>19 DEF Unsettled, local, vars
  <2> QED
    BY <1>19, <2>1, QuietlySettled DEF db, history, vars
<1>20. ASSUME NEW d \in decisions, UpdateReviewStatus(d[1], d[2]) PROVE Settled'
  <2>1. /\ owed' = owed /\ ask' = ask /\ pc' = pc /\ d[1] \in Lures
        /\ target' = target /\ version' = version /\ crowded' = crowded
        /\ decisions' \subseteq decisions /\ decided'[d[1]] = d[2]
        /\ \A k \in Lures \ {d[1]} : status'[k] = status[k] /\ decided'[k] = decided[k]
    BY <1>20 DEF UpdateReviewStatus, SaveStatus, local, Base, Typed, TypeOK
  <2>2. \A q \in Requests, k \in Lures : Unsettled(q, k)' => Unsettled(q, k)
    BY <2>1 DEF Unsettled
  <2> QED
    BY <2>1, <2>2 DEF Settled
<1> QED
  BY <1>1, <1>2, <1>3, <1>4, <1>5, <1>6, <1>7, <1>8, <1>9, <1>10, <1>11, <1>12,
       <1>13, <1>14, <1>15, <1>16, <1>17, <1>18, <1>19, <1>20 DEF Next

-----------------------------------------------------------------------------
(* What a purchase has read stays true of the lures not modified since.    *)

Kept ==
  \A k \in Made :
    k \in Made' /\ (version'[k] = 0 => version[k] = 0 /\ row'[k] = row[k])

LEMMA RowsKept == Base /\ [Next]_vars => Kept
<1> SUFFICES ASSUME Base, [Next]_vars PROVE Kept
  OBVIOUS
<1>1. ASSUME NEW r \in Requests, SaveModified(r) PROVE Kept
  BY <1>1, ModifyMakesNone DEF Kept, Base, Typed, TypeOK, Made
<1>2. ASSUME NEW r \in Requests, InsertLure(r) PROVE Kept
  <2>1. RowFor(r) \in Rows
    BY <1>2, RowsFit DEF InsertLure, Base, Typed
  <2>2. Made' = Made \cup {<<r, 1>>} /\ <<r, 1>> \notin Made
        /\ \A k \in Lures \ {<<r, 1>>} : row'[k] = row[k]
    BY <1>2, <2>1, InsertMakesOne DEF InsertLure
  <2> QED
    BY <1>2, <2>2 DEF InsertLure, history, Kept
<1>3. ASSUME NEW r \in Requests, InsertDigital(r) PROVE Kept
  <2>1. [RowFor(r) EXCEPT !.type = DigitalType] \in Rows
    BY <1>3, RowsFit DEF InsertDigital, Base, Typed
  <2>2. Made' = Made \cup {<<r, left[r]>>} /\ <<r, left[r]>> \notin Made
        /\ \A k \in Lures \ {<<r, left[r]>>} : row'[k] = row[k]
    BY <1>3, <2>1, InsertMakesOne DEF InsertDigital
  <2> QED
    BY <1>3, <2>2 DEF InsertDigital, history, Kept
<1>4. CASE row' = row /\ version' = version
  BY <1>4 DEF Kept, Made
<1> QED
  BY <1>1, <1>2, <1>3, <1>4 DEF Next, Arrive, GenerateSerialCode, CheckOnce,
       CheckUnique,
     FinishRegister, CheckOwn, CheckRejected, FindLatestByLureId, FindToken, UpdateMintId, InsertMintMaster,
     DeleteToken, SaveReviewStatus, SaveStatus, FindReviewed, UpdateReviewStatus, Throw, Crash, Tables, db, history, vars

\* A lure that was bought is as its purchase wrote it.
AsBought == \A l \in Made : Bought(l) => row[l] = RowFor(l[1]) /\ l = <<l[1], 1>>

\* The number is greater than those that were there, up to LastPadded.
Numbered ==
  \A r \in Requests :
    /\ pc[r] = "idle" => numberedAt[r] = {}
    /\ pc[r] # "idle" /\ ask[r].kind = "purchase" =>
         \A k \in numberedAt[r] :
           /\ k \in Made
           /\ /\ version[k] = 0 /\ row[k].number <= LastPadded
              /\ row[k].type = ask[r].type /\ row[k].color = ask[r].color
              => row[k].number < number[r]

\* The purchase is past its check for a second lure.
WentOn(r) ==
  /\ pc[r] # "idle" /\ ask[r].kind = "purchase"
  /\ pc[r] \in {"unique", "insert"} \/ <<r, 1>> \in Made

\* A purchase that went on had found no lure of the kind.
Checked ==
  \A r \in Requests : WentOn(r) =>
    \A k \in checkedAt[r] :
      /\ k \in Made
      /\ version[k] = 0 => \/ row[k].type # ask[r].type
                          \/ row[k].color # ask[r].color
                          \/ row[k].owner # ask[r].member

\* The next number is greater than all padded ones.
LEMMA NextNumber ==
  ASSUME Typed, NEW r \in Requests, GenerateSerialCode(r)
  PROVE  \A k \in SameLine(ask[r].type, ask[r].color) :
           row[k].number <= LastPadded => row[k].number < number'[r]
<1> DEFINE S == SameLine(ask[r].type, ask[r].color)
<1>1. CASE S = {}
  BY <1>1
<1>2. ASSUME NEW l \in S, Latest(l, S), number' = [number EXCEPT ![r] = row[l].number + 1]
      PROVE  \A k \in S : row[k].number <= LastPadded => row[k].number < number'[r]
  <2>1. \A k \in S : row[k].number \in Nat
    BY DEF SameLine, Made, Typed, TypeOK, Rows
  <2>2. number'[r] = row[l].number + 1
    BY <1>2 DEF Typed, TypeOK
  <2>3. SUFFICES ASSUME NEW k \in S, row[k].number <= LastPadded
                 PROVE  row[k].number <= row[l].number
    BY <2>1, <2>2
  <2>4. ~SortsBefore(row[l].number, row[k].number)
    BY <1>2, <2>3 DEF Latest
  <2> DEFINE m == row[l].number
             n == row[k].number
  <2>5. m \in Nat /\ n \in Nat /\ n <= LastPadded /\ ~SortsBefore(m, n)
    BY <1>2, <2>1, <2>3, <2>4
  <2>6. CASE m > LastPadded
    BY <2>5, <2>6, BoundsAssumption
  <2>7. CASE ~(m > LastPadded)
    BY <2>5, <2>7, BoundsAssumption DEF SortsBefore, Cut
  <2> QED
    BY <2>6, <2>7
<1> QED
  BY <1>1, <1>2 DEF GenerateSerialCode

LEMMA NextNumbered == Base /\ Numbered /\ Typed' /\ [Next]_vars => Numbered'
<1> SUFFICES ASSUME Base /\ Numbered, Typed', [Next]_vars
    PROVE  Numbered'
  OBVIOUS
<1>k. Kept
  BY RowsKept
<1>1. ASSUME NEW r \in Requests, NEW a \in Asks, Arrive(r, a) PROVE Numbered'
  BY <1>1, <1>k DEF Arrive, Numbered, Kept, Goto, Notes
<1>2. ASSUME NEW r \in Requests, GenerateSerialCode(r) PROVE Numbered'
  <2>1. /\ pc[r] = "number" /\ pc' = [pc EXCEPT ![r] = "once"] /\ ask' = ask /\ row' = row
        /\ numberedAt' = [numberedAt EXCEPT ![r] = Made]
        /\ \A q \in Requests \ {r} : number'[q] = number[q]
    BY <1>2 DEF GenerateSerialCode, Goto, Tables, db, Typed, TypeOK
  <2>2. \A k \in Made : /\ row[k].number <= LastPadded
                        /\ row[k].type = ask[r].type /\ row[k].color = ask[r].color
                        => row[k].number < number'[r]
    BY <1>2, NextNumber DEF Base, SameLine
  <2>3. Made' = Made
    BY <2>1 DEF Made
  <2>4. ASSUME NEW q \in Requests
        PROVE  /\ pc'[q] = "idle" => numberedAt'[q] = {}
               /\ pc'[q] # "idle" /\ ask'[q].kind = "purchase" =>
                    \A k \in numberedAt'[q] :
                      /\ k \in Made'
                      /\ /\ version'[k] = 0 /\ row'[k].number <= LastPadded
                         /\ row'[k].type = ask'[q].type /\ row'[k].color = ask'[q].color
                         => row'[k].number < number'[q]
    <3>1. CASE q = r
      BY <2>1, <2>2, <2>3, <3>1 DEF Base, Typed, TypeOK
    <3>2. CASE q # r
      BY <2>1, <2>3, <1>k, <3>2 DEF Kept, Numbered, Base
    <3> QED
      BY <3>1, <3>2
  <2> QED
    BY <2>4 DEF Numbered
<1>3. ASSUME NEW r \in Requests, CheckOnce(r) PROVE Numbered'
  BY <1>3, <1>k DEF CheckOnce, Numbered, Kept, Goto
<1>4. ASSUME NEW r \in Requests, CheckUnique(r) PROVE Numbered'
  BY <1>4, <1>k DEF CheckUnique, Numbered, Kept, Goto, Notes
<1>5. ASSUME NEW r \in Requests, InsertLure(r) PROVE Numbered'
  BY <1>5, <1>k DEF InsertLure, Numbered, Kept, Goto, history
<1>6. ASSUME NEW r \in Requests, FinishRegister(r) PROVE Numbered'
  BY <1>6, <1>k DEF FinishRegister, Numbered, Kept, Goto, history
<1>7. ASSUME NEW r \in Requests, CheckOwn(r) PROVE Numbered'
  BY <1>7, <1>k DEF CheckOwn, Numbered, Kept, Goto, Notes
<1>8. ASSUME NEW r \in Requests, CheckRejected(r) PROVE Numbered'
  BY <1>8, <1>k DEF CheckRejected, FindLatestByLureId, Numbered, Kept, Goto, Notes
<1>9. ASSUME NEW r \in Requests, SaveModified(r) PROVE Numbered'
  BY <1>9, <1>k DEF SaveModified, Numbered, Kept, Goto, Notes
<1>10. ASSUME NEW r \in Requests, FindToken(r) PROVE Numbered'
  BY <1>10, <1>k DEF FindToken, Numbered, Kept, Goto
<1>11. ASSUME NEW r \in Requests, InsertDigital(r) PROVE Numbered'
  <2>1. /\ pc[r] = "digital" /\ pc' = [pc EXCEPT ![r] = "column"] /\ ask' = ask
        /\ numberedAt' = numberedAt /\ number' = number
    BY <1>11 DEF InsertDigital, Goto, history
  <2> QED
    BY <2>1, <1>k DEF Kept, Numbered, Base
<1>12. ASSUME NEW r \in Requests, UpdateMintId(r) PROVE Numbered'
  BY <1>12, <1>k DEF UpdateMintId, Numbered, Kept, Goto, history
<1>13. ASSUME NEW r \in Requests, InsertMintMaster(r) PROVE Numbered'
  BY <1>13, <1>k DEF InsertMintMaster, Numbered, Kept, Goto, history
<1>14. ASSUME NEW r \in Requests, DeleteToken(r) PROVE Numbered'
  BY <1>14, <1>k DEF DeleteToken, Numbered, Kept, Goto, history
<1>15. ASSUME NEW r \in Requests, Throw(r) PROVE Numbered'
  BY <1>15, <1>k DEF Throw, Numbered, Kept, Goto, Notes
<1>16. ASSUME NEW r \in Requests, NEW l \in Lures, SaveReviewStatus(r, l) PROVE Numbered'
  BY <1>16, <1>k DEF SaveReviewStatus, SaveStatus, Numbered, Kept, Notes, local
<1>17. ASSUME NEW l \in Lures, FindReviewed(l) PROVE Numbered'
  BY <1>17, <1>k DEF FindReviewed, db, Numbered, Kept, Notes, local
<1>18. ASSUME Crash PROVE Numbered'
  BY <1>18, <1>k DEF Crash, Numbered, Kept, Notes
<1>19. ASSUME UNCHANGED vars PROVE Numbered'
  BY <1>19, <1>k DEF Numbered, Kept, local, history, vars
<1>20. ASSUME NEW d \in decisions, UpdateReviewStatus(d[1], d[2]) PROVE Numbered'
  BY <1>20, <1>k DEF UpdateReviewStatus, SaveStatus, Numbered, Kept, Notes, local
<1> QED
  BY <1>1, <1>2, <1>3, <1>4, <1>5, <1>6, <1>7, <1>8, <1>9, <1>10, <1>11, <1>12,
       <1>13, <1>14, <1>15, <1>16, <1>17, <1>18, <1>19, <1>20 DEF Next

\* Where no purchase goes on and no row changes, what was checked stays so.
LEMMA QuietlyChecked ==
  ASSUME Checked, Kept, \A r \in Requests : WentOn(r)' => WentOn(r),
         \A r \in Requests : WentOn(r) => ask'[r] = ask[r] /\ checkedAt'[r] = checkedAt[r]
  PROVE  Checked'
<1> SUFFICES ASSUME NEW r \in Requests, WentOn(r)', NEW k \in checkedAt'[r]
    PROVE  /\ k \in Made'
           /\ version'[k] = 0 => \/ row'[k].type # ask'[r].type
                                \/ row'[k].color # ask'[r].color
                                \/ row'[k].owner # ask'[r].member
  BY DEF Checked
<1>1. WentOn(r) /\ ask'[r] = ask[r] /\ k \in checkedAt[r]
  OBVIOUS
<1> QED
  BY <1>1 DEF Checked, Kept

LEMMA NextChecked == Base /\ Checked /\ Typed' /\ [Next]_vars => Checked'
<1> SUFFICES ASSUME Base /\ Checked, Typed', [Next]_vars
    PROVE  Checked'
  OBVIOUS
<1>k. Kept
  BY RowsKept
<1>1. ASSUME NEW r \in Requests, NEW a \in Asks, Arrive(r, a) PROVE Checked'
  <2>m. Made' = Made
    BY <1>1 DEF Arrive, Tables, db, Made
  <2>1. \A q \in Requests : WentOn(q)' => q # r /\ WentOn(q)
    <3>1. <<r, 1>> \notin Made
      <4>1. <<r, 1>>[1] = r
        OBVIOUS
      <4> QED
        BY <1>1, <4>1, MakersStay
    <3>2. pc'[r] = Entry(a) /\ ask'[r] = a
      BY <1>1 DEF Arrive, Goto, Typed, TypeOK
    <3>3. ~WentOn(r)'
      BY <2>m, <3>1, <3>2 DEF WentOn, Entry
    <3> QED
      BY <1>1, <2>m, <3>3 DEF Arrive, Goto, WentOn
  <2>2. \A q \in Requests \ {r} : ask'[q] = ask[q] /\ checkedAt'[q] = checkedAt[q]
    BY <1>1 DEF Arrive, Notes, Base
  <2>3. ~WentOn(r)
    BY <1>1 DEF Arrive, WentOn
  <2> QED
    BY <1>k, <2>1, <2>2, <2>3, QuietlyChecked
<1>2. ASSUME NEW r \in Requests, GenerateSerialCode(r) PROVE Checked'
  <2>m. Made' = Made
    BY <1>2 DEF GenerateSerialCode, Tables, db, Made
  <2>1. \A q \in Requests : WentOn(q)' => WentOn(q)
    BY <1>2, <2>m DEF GenerateSerialCode, Goto, WentOn
  <2> QED
    BY <1>2, <1>k, <2>1, QuietlyChecked DEF GenerateSerialCode, Goto, Tables
<1>3. ASSUME NEW r \in Requests, CheckOnce(r) PROVE Checked'
  <2>m. Made' = Made
    BY <1>3 DEF CheckOnce, Tables, db, Made
  <2>1. /\ pc[r] = "once" /\ checkedAt' = [checkedAt EXCEPT ![r] = Made] /\ ask' = ask
        /\ \A q \in Requests \ {r} : pc'[q] = pc[q]
        /\ row' = row /\ version' = version /\ ask[r].kind = "purchase"
    BY <1>3 DEF CheckOnce, Goto, Tables, db, Base, Typed, Shaped, KindAt
  <2>2. pc'[r] = "unique" \/ <<r, 1>> \in Made => ~Duplicated(ask[r].type, ask[r].member, ask[r].color, Unset)
    <3>1. <<r, 1>>[1] = r
      OBVIOUS
    <3>2. <<r, 1>> \notin Made
      BY <2>1, <3>1 DEF Base, Placed
    <3> QED
      BY <1>3, <3>2 DEF CheckOnce, Goto, Base
  <2>3. ~Duplicated(ask[r].type, ask[r].member, ask[r].color, Unset) =>
          \A k \in Made : \/ row[k].type # ask[r].type
                          \/ row[k].color # ask[r].color
                          \/ row[k].owner # ask[r].member
    BY Zenon DEF Duplicated, Fits
  <2>4. ASSUME NEW q \in Requests, WentOn(q)', NEW k \in checkedAt'[q]
        PROVE  /\ k \in Made
               /\ version[k] = 0 => \/ row[k].type # ask[q].type
                                   \/ row[k].color # ask[q].color
                                   \/ row[k].owner # ask[q].member
    <3>1. CASE q = r
      <4>1. pc'[r] = "unique" \/ <<r, 1>> \in Made
        BY <1>3, <2>m, <2>4, <3>1 DEF WentOn, CheckOnce, Goto
      <4> QED
        BY <2>1, <2>2, <2>3, <2>4, <3>1, <4>1 DEF Base, Typed, TypeOK
    <3>2. CASE q # r
      <4>1. WentOn(q) /\ k \in checkedAt[q]
        BY <2>m, <2>1, <2>4, <3>2 DEF WentOn, Base, Typed
      <4> QED
        BY <4>1 DEF Checked
    <3> QED
      BY <3>1, <3>2
  <2> QED
    BY <2>m, <2>1, <2>4 DEF Checked
<1>4. ASSUME NEW r \in Requests, CheckUnique(r) PROVE Checked'
  <2>m. Made' = Made
    BY <1>4 DEF CheckUnique, Tables, db, Made
  <2>1. \A q \in Requests : WentOn(q)' => WentOn(q)
    BY <1>4, <2>m DEF CheckUnique, Goto, WentOn
  <2> QED
    BY <1>4, <1>k, <2>1, QuietlyChecked DEF CheckUnique, Goto, Notes
<1>5. ASSUME NEW r \in Requests, InsertLure(r) PROVE Checked'
  <2>1. RowFor(r) \in Rows
    BY <1>5, RowsFit DEF InsertLure, Base, Typed
  <2>2. Made' = Made \cup {<<r, 1>>}
    BY <1>5, <2>1, InsertMakesOne DEF InsertLure
  <2>3. /\ pc[r] = "insert" /\ pc' = [pc EXCEPT ![r] = "upload"]
        /\ ask' = ask /\ checkedAt' = checkedAt
    BY <1>5 DEF InsertLure, Goto, history
  <2>4. \A q \in Requests : q # r => (<<q, 1>> \in Made' => <<q, 1>> \in Made)
    BY <2>2
  <2>5. \A q \in Requests : WentOn(q)' => WentOn(q)
    BY <2>3, <2>4 DEF WentOn, Base, Typed
  <2> QED
    BY <1>k, <2>3, <2>5, QuietlyChecked
<1>6. ASSUME NEW r \in Requests, FinishRegister(r) PROVE Checked'
  <2>m. Made' = Made
    BY <1>6 DEF FinishRegister, db, Made
  <2>1. \A q \in Requests : WentOn(q)' => WentOn(q)
    BY <1>6, <2>m DEF FinishRegister, Goto, WentOn
  <2> QED
    BY <1>6, <1>k, <2>1, QuietlyChecked DEF FinishRegister, Goto, history
<1>7. ASSUME NEW r \in Requests, CheckOwn(r) PROVE Checked'
  <2>m. Made' = Made
    BY <1>7 DEF CheckOwn, Tables, db, Made
  <2>1. \A q \in Requests : WentOn(q)' => WentOn(q)
    BY <1>7, <2>m DEF CheckOwn, Goto, Base, WentOn, Typed, Shaped, KindAt
  <2> QED
    BY <1>7, <1>k, <2>1, QuietlyChecked DEF CheckOwn, Goto, Notes
<1>8. ASSUME NEW r \in Requests, CheckRejected(r) PROVE Checked'
  <2>m. Made' = Made
    BY <1>8 DEF CheckRejected, FindLatestByLureId, db, Made
  <2>1. \A q \in Requests : WentOn(q)' => WentOn(q)
    BY <1>8, <2>m DEF CheckRejected, FindLatestByLureId, Goto, WentOn
  <2> QED
    BY <1>8, <1>k, <2>1, QuietlyChecked DEF CheckRejected, FindLatestByLureId, Goto, Notes
<1>9. ASSUME NEW r \in Requests, SaveModified(r) PROVE Checked'
  <2>0. Made' = Made
    BY <1>9, ModifyMakesNone DEF Base
  <2>1. \A q \in Requests : WentOn(q)' => WentOn(q)
    BY <1>9, <2>0 DEF SaveModified, Goto, WentOn
  <2> QED
    BY <1>9, <1>k, <2>1, QuietlyChecked DEF SaveModified, Goto, Notes
<1>10. ASSUME NEW r \in Requests, FindToken(r) PROVE Checked'
  <2>m. Made' = Made
    BY <1>10 DEF FindToken, Tables, db, Made
  <2>1. \A q \in Requests : WentOn(q)' => WentOn(q)
    BY <1>10, <2>m DEF FindToken, Goto, WentOn
  <2> QED
    BY <1>10, <1>k, <2>1, QuietlyChecked DEF FindToken, Goto, Tables
<1>11. ASSUME NEW r \in Requests, InsertDigital(r) PROVE Checked'
  <2>1. [RowFor(r) EXCEPT !.type = DigitalType] \in Rows
    BY <1>11, RowsFit DEF InsertDigital, Base, Typed
  <2>2. Made' = Made \cup {<<r, left[r]>>}
    BY <1>11, <2>1, InsertMakesOne DEF InsertDigital
  <2>3. /\ pc[r] = "digital" /\ pc' = [pc EXCEPT ![r] = "column"]
        /\ ask' = ask /\ checkedAt' = checkedAt
    BY <1>11 DEF InsertDigital, Goto, history
  <2>4. \A q \in Requests : q # r => (<<q, 1>> \in Made' => <<q, 1>> \in Made)
    BY <2>2
  <2>5. \A q \in Requests : WentOn(q)' => WentOn(q)
    BY <2>3, <2>4 DEF WentOn, Typed, Shaped, KindAt
  <2> QED
    BY <1>k, <2>3, <2>5, QuietlyChecked
<1>12. ASSUME NEW r \in Requests, UpdateMintId(r) PROVE Checked'
  <2>m. Made' = Made
    BY <1>12 DEF UpdateMintId, Made
  <2>1. \A q \in Requests : WentOn(q)' => WentOn(q)
    BY <1>12, <2>m DEF UpdateMintId, Goto, WentOn
  <2> QED
    BY <1>12, <1>k, <2>1, QuietlyChecked DEF UpdateMintId, Goto, history
<1>13. ASSUME NEW r \in Requests, InsertMintMaster(r) PROVE Checked'
  <2>m. Made' = Made
    BY <1>13 DEF InsertMintMaster, Made
  <2>1. \A q \in Requests : WentOn(q)' => WentOn(q)
    BY <1>13, <2>m DEF InsertMintMaster, Goto, WentOn
  <2> QED
    BY <1>13, <1>k, <2>1, QuietlyChecked DEF InsertMintMaster, Goto, history
<1>14. ASSUME NEW r \in Requests, DeleteToken(r) PROVE Checked'
  <2>m. Made' = Made
    BY <1>14 DEF DeleteToken, Made
  <2>1. \A q \in Requests : WentOn(q)' => WentOn(q)
    BY <1>14, <2>m DEF DeleteToken, Goto, WentOn
  <2> QED
    BY <1>14, <1>k, <2>1, QuietlyChecked DEF DeleteToken, Goto, history
<1>15. ASSUME NEW r \in Requests, Throw(r) PROVE Checked'
  <2>m. Made' = Made
    BY <1>15 DEF Throw, db, Made
  <2>1. \A q \in Requests : WentOn(q)' => WentOn(q)
    BY <1>15, <2>m DEF Throw, Goto, WentOn
  <2> QED
    BY <1>15, <1>k, <2>1, QuietlyChecked DEF Throw, Goto, Notes
<1>16. ASSUME NEW r \in Requests, NEW l \in Lures, SaveReviewStatus(r, l) PROVE Checked'
  <2>m. Made' = Made
    BY <1>16 DEF SaveReviewStatus, SaveStatus, Made
  <2>1. \A q \in Requests : WentOn(q)' => WentOn(q)
    BY <1>16, <2>m DEF SaveReviewStatus, SaveStatus, local, WentOn
  <2> QED
    BY <1>16, <1>k, <2>1, QuietlyChecked DEF SaveReviewStatus, SaveStatus, Notes, local
<1>17. ASSUME NEW l \in Lures, FindReviewed(l) PROVE Checked'
  <2>m. Made' = Made
    BY <1>17 DEF FindReviewed, db, Made
  <2>1. \A q \in Requests : WentOn(q)' => WentOn(q)
    BY <1>17, <2>m DEF FindReviewed, db, local, WentOn
  <2> QED
    BY <1>17, <1>k, <2>1, QuietlyChecked DEF FindReviewed, db, Notes, local
<1>18. ASSUME Crash PROVE Checked'
  <2>m. Made' = Made
    BY <1>18 DEF Crash, db, Made
  <2>1. \A q \in Requests : WentOn(q)' => WentOn(q)
    BY <1>18, <2>m DEF Crash, Base, WentOn
  <2> QED
    BY <1>18, <1>k, <2>1, QuietlyChecked DEF Crash, Notes, db
<1>19. ASSUME UNCHANGED vars PROVE Checked'
  <2>m. Made' = Made
    BY <1>19 DEF db, vars, Made
  <2>1. \A q \in Requests : WentOn(q)' => WentOn(q)
    BY <1>19, <2>m DEF local, vars, WentOn
  <2> QED
    BY <1>19, <1>k, <2>1, QuietlyChecked DEF local, history, vars
<1>20. ASSUME NEW d \in decisions, UpdateReviewStatus(d[1], d[2]) PROVE Checked'
  <2>m. Made' = Made
    BY <1>20 DEF UpdateReviewStatus, SaveStatus, Made
  <2>1. \A q \in Requests : WentOn(q)' => WentOn(q)
    BY <1>20, <2>m DEF UpdateReviewStatus, SaveStatus, local, WentOn
  <2> QED
    BY <1>20, <1>k, <2>1, QuietlyChecked DEF UpdateReviewStatus, SaveStatus, Notes, local
<1> QED
  BY <1>1, <1>2, <1>3, <1>4, <1>5, <1>6, <1>7, <1>8, <1>9, <1>10, <1>11, <1>12,
       <1>13, <1>14, <1>15, <1>16, <1>17, <1>18, <1>19, <1>20 DEF Next

LEMMA NextBought == Base /\ AsBought /\ Typed' /\ [Next]_vars => AsBought'
<1> SUFFICES ASSUME Base /\ AsBought, Typed', [Next]_vars
    PROVE  AsBought'
  OBVIOUS
<1>k. Kept
  BY RowsKept
<1>1. ASSUME NEW r \in Requests, NEW a \in Asks, Arrive(r, a) PROVE AsBought'
  <2>m. Made' = Made
    BY <1>1 DEF Arrive, Tables, db, Made
  <2>1. row' = row /\ version' = version
    BY <1>1 DEF Arrive, Tables, db
  <2> QED
    BY <1>1, <2>m, <2>1, MakersStay DEF AsBought, Bought, Maker, RowFor
<1>2. ASSUME NEW r \in Requests, GenerateSerialCode(r) PROVE AsBought'
  <2>m. Made' = Made
    BY <1>2 DEF GenerateSerialCode, Tables, db, Made
  <2>1. \A l \in Made : l[1] \in Requests /\ l[1] # r
    BY <1>2, LureId DEF GenerateSerialCode, Base, Placed, Made
  <2>2. /\ row' = row /\ version' = version /\ ask' = ask
        /\ \A q \in Requests \ {r} : number'[q] = number[q]
    BY <1>2 DEF GenerateSerialCode, Tables, db, Typed, TypeOK
  <2> QED
    BY <2>m, <2>1, <2>2 DEF AsBought, Bought, Maker, RowFor
<1>3. ASSUME NEW r \in Requests, CheckOnce(r) PROVE AsBought'
  <2>m. Made' = Made
    BY <1>3 DEF CheckOnce, Tables, db, Made
  <2> QED
    BY <1>3, <2>m, <1>k DEF CheckOnce, AsBought, Bought, Maker, RowFor, Kept
<1>4. ASSUME NEW r \in Requests, CheckUnique(r) PROVE AsBought'
  <2>m. Made' = Made
    BY <1>4 DEF CheckUnique, Tables, db, Made
  <2> QED
    BY <1>4, <2>m, <1>k DEF CheckUnique, AsBought, Bought, Maker, RowFor, Kept
<1>5. ASSUME NEW r \in Requests, InsertLure(r) PROVE AsBought'
  BY <1>5, <1>k DEF InsertLure, AsBought, Bought, Maker, RowFor, Kept, Made
<1>6. ASSUME NEW r \in Requests, FinishRegister(r) PROVE AsBought'
  <2>m. Made' = Made
    BY <1>6 DEF FinishRegister, db, Made
  <2> QED
    BY <1>6, <2>m, <1>k DEF FinishRegister, AsBought, Bought, Maker, RowFor, Kept
<1>7. ASSUME NEW r \in Requests, CheckOwn(r) PROVE AsBought'
  <2>m. Made' = Made
    BY <1>7 DEF CheckOwn, Tables, db, Made
  <2> QED
    BY <1>7, <2>m, <1>k DEF CheckOwn, AsBought, Bought, Maker, RowFor, Kept
<1>8. ASSUME NEW r \in Requests, CheckRejected(r) PROVE AsBought'
  <2>m. Made' = Made
    BY <1>8 DEF CheckRejected, FindLatestByLureId, db, Made
  <2> QED
    BY <1>8, <2>m, <1>k DEF CheckRejected, FindLatestByLureId, AsBought, Bought, Maker, RowFor, Kept
<1>9. ASSUME NEW r \in Requests, SaveModified(r) PROVE AsBought'
  BY <1>9, <1>k DEF SaveModified, Base, AsBought, Bought, Maker, RowFor, Typed,
       TypeOK, Made
<1>10. ASSUME NEW r \in Requests, FindToken(r) PROVE AsBought'
  <2>m. Made' = Made
    BY <1>10 DEF FindToken, Tables, db, Made
  <2> QED
    BY <1>10, <2>m, <1>k DEF FindToken, AsBought, Bought, Maker, RowFor, Kept
<1>11. ASSUME NEW r \in Requests, InsertDigital(r) PROVE AsBought'
  BY <1>11, <1>k DEF InsertDigital, Base, AsBought, Bought, Maker, RowFor, Kept,
       Typed, Shaped, KindAt, Made
<1>12. ASSUME NEW r \in Requests, UpdateMintId(r) PROVE AsBought'
  <2>m. Made' = Made
    BY <1>12 DEF UpdateMintId, Made
  <2> QED
    BY <1>12, <2>m, <1>k DEF UpdateMintId, AsBought, Bought, Maker, RowFor, Kept
<1>13. ASSUME NEW r \in Requests, InsertMintMaster(r) PROVE AsBought'
  <2>m. Made' = Made
    BY <1>13 DEF InsertMintMaster, Made
  <2> QED
    BY <1>13, <2>m, <1>k DEF InsertMintMaster, AsBought, Bought, Maker, RowFor, Kept
<1>14. ASSUME NEW r \in Requests, DeleteToken(r) PROVE AsBought'
  <2>m. Made' = Made
    BY <1>14 DEF DeleteToken, Made
  <2> QED
    BY <1>14, <2>m, <1>k DEF DeleteToken, AsBought, Bought, Maker, RowFor, Kept
<1>15. ASSUME NEW r \in Requests, Throw(r) PROVE AsBought'
  <2>m. Made' = Made
    BY <1>15 DEF Throw, db, Made
  <2> QED
    BY <1>15, <2>m, <1>k DEF Throw, AsBought, Bought, Maker, RowFor, Kept
<1>16. ASSUME NEW r \in Requests, NEW l \in Lures, SaveReviewStatus(r, l) PROVE AsBought'
  <2>m. Made' = Made
    BY <1>16 DEF SaveReviewStatus, SaveStatus, Made
  <2> QED
    BY <1>16, <2>m, <1>k DEF SaveReviewStatus, SaveStatus, AsBought, Bought, Maker, RowFor, local
<1>17. ASSUME NEW l \in Lures, FindReviewed(l) PROVE AsBought'
  <2>m. Made' = Made
    BY <1>17 DEF FindReviewed, db, Made
  <2> QED
    BY <1>17, <2>m, <1>k DEF FindReviewed, db, AsBought, Bought, Maker, RowFor, local
<1>18. ASSUME Crash PROVE AsBought'
  <2>m. Made' = Made
    BY <1>18 DEF Crash, db, Made
  <2> QED
    BY <1>18, <2>m, <1>k DEF Crash, AsBought, Bought, Maker, RowFor, Kept
<1>19. ASSUME UNCHANGED vars PROVE AsBought'
  <2>m. Made' = Made
    BY <1>19 DEF db, vars, Made
  <2> QED
    BY <1>19, <2>m, <1>k DEF AsBought, Bought, Maker, RowFor, Kept, local, vars
<1>20. ASSUME NEW d \in decisions, UpdateReviewStatus(d[1], d[2]) PROVE AsBought'
  <2>m. Made' = Made
    BY <1>20 DEF UpdateReviewStatus, SaveStatus, Made
  <2> QED
    BY <1>20, <2>m, <1>k DEF UpdateReviewStatus, SaveStatus, AsBought, Bought, Maker, RowFor, local
<1> QED
  BY <1>1, <1>2, <1>3, <1>4, <1>5, <1>6, <1>7, <1>8, <1>9, <1>10, <1>11, <1>12,
       <1>13, <1>14, <1>15, <1>16, <1>17, <1>18, <1>19, <1>20 DEF Next

-----------------------------------------------------------------------------
(* One-time tokens                                                         *)

\* The request found its token.
Passed(r) ==
  /\ pc[r] # "idle" /\ ask[r].kind = "redeem"
  /\ Redeeming(r) \/ \E l \in Made : l[1] = r

Spent ==
  \A r \in Requests :
    pc[r] = "done" /\ ask[r].kind = "redeem" => ask[r].token \notin tokens

Together ==
  \A q, r \in Requests :
    q # r /\ Passed(q) /\ Passed(r) /\ ask[q].token = ask[r].token =>
      q \in company[r] \/ r \in company[q] \/ pc[q] = "failed" \/ pc[r] = "failed"

\* Where nobody finds a token, what was found together was so before.
LEMMA QuietlyTogether ==
  ASSUME Together, \A r \in Requests : Passed(r)' => Passed(r),
         \A r \in Requests : Passed(r) =>
            /\ ask'[r] = ask[r] /\ company'[r] = company[r]
            /\ pc[r] = "failed" => pc'[r] = "failed"
  PROVE  Together'
BY DEF Together

LEMMA NextTogether == Base /\ Spent /\ Together /\ Typed' /\ [Next]_vars => Spent' /\ Together'
<1> SUFFICES ASSUME Base /\ Spent /\ Together, Typed', [Next]_vars
    PROVE  Spent' /\ Together'
  OBVIOUS
<1>1. ASSUME NEW r \in Requests, NEW a \in Asks, Arrive(r, a) PROVE Spent' /\ Together'
  <2>m. Made' = Made
    BY <1>1 DEF Arrive, Tables, db, Made
  <2>1. Spent'
    BY <1>1, <2>m DEF Arrive, Spent, Entry, Typed, TypeOK, Goto, Tables, db
  <2>2. Together'
    <3>1. \A l \in Made : l[1] # r
      BY <1>1, MakersStay
    <3>2. pc'[r] = Entry(a) /\ Entry(a) \in {"insert", "unique", "number", "own", "token"}
      BY <1>1, EntryFits DEF Arrive, Goto, Typed, TypeOK
    <3>3. ~Passed(r)' /\ ~Passed(r)
      BY <1>1, <2>m, <3>1, <3>2 DEF Arrive, Passed, Redeeming
    <3>4. \A q \in Requests \ {r} : Passed(q)' => Passed(q)
      BY <1>1, <2>m DEF Arrive, Goto, Passed, Redeeming
    <3> QED
      BY <1>1, <3>3, <3>4, QuietlyTogether DEF Arrive, Goto, Notes
  <2> QED
    BY <2>1, <2>2
<1>2. ASSUME NEW r \in Requests, GenerateSerialCode(r) PROVE Spent' /\ Together'
  <2>m. Made' = Made
    BY <1>2 DEF GenerateSerialCode, Tables, db, Made
  <2>1. Spent'
    BY <1>2, <2>m DEF GenerateSerialCode, Spent, Goto, Tables, db
  <2>2. Together'
    <3>1. \A q \in Requests : Passed(q)' => Passed(q)
      BY <1>2, <2>m DEF GenerateSerialCode, Goto, Passed, Redeeming
    <3> QED
      BY <1>2, <3>1, QuietlyTogether DEF GenerateSerialCode, Goto, Passed
  <2> QED
    BY <2>1, <2>2
<1>3. ASSUME NEW r \in Requests, CheckOnce(r) PROVE Spent' /\ Together'
  <2>m. Made' = Made
    BY <1>3 DEF CheckOnce, Tables, db, Made
  <2>1. Spent'
    BY <1>3, <2>m DEF CheckOnce, Spent, Goto, Tables, db
  <2>2. Together'
    <3>1. \A q \in Requests : Passed(q)' => Passed(q)
      BY <1>3, <2>m DEF CheckOnce, Goto, Passed, Redeeming
    <3> QED
      BY <1>3, <3>1, QuietlyTogether DEF CheckOnce, Goto, Passed
  <2> QED
    BY <2>1, <2>2
<1>4. ASSUME NEW r \in Requests, CheckUnique(r) PROVE Spent' /\ Together'
  <2>m. Made' = Made
    BY <1>4 DEF CheckUnique, Tables, db, Made
  <2>1. Spent'
    BY <1>4, <2>m DEF CheckUnique, Spent, Goto, Tables, db
  <2>2. Together'
    <3>1. \A q \in Requests : Passed(q)' => Passed(q)
      BY <1>4, <2>m DEF CheckUnique, Goto, Passed, Redeeming
    <3> QED
      BY <1>4, <3>1, QuietlyTogether DEF CheckUnique, Goto, Notes
  <2> QED
    BY <2>1, <2>2
<1>5. ASSUME NEW r \in Requests, InsertLure(r) PROVE Spent' /\ Together'
  <2>1. Spent'
    BY <1>5 DEF InsertLure, Spent, Goto
  <2>2. Together'
    <3>1. RowFor(r) \in Rows
      BY <1>5, RowsFit DEF InsertLure, Base, Typed
    <3>2. Made' = Made \cup {<<r, 1>>}
      BY <1>5, <3>1, InsertMakesOne DEF InsertLure
    <3>3. /\ pc[r] = "insert" /\ pc' = [pc EXCEPT ![r] = "upload"]
          /\ ask' = ask /\ company' = company
      BY <1>5 DEF InsertLure, Goto, history
    <3>4. \A q \in Requests : q # r => ((\E l \in Made' : l[1] = q) => \E l \in Made : l[1] = q)
      BY <3>2
    <3>5. \A q \in Requests : Passed(q)' => Passed(q)
      BY <3>3, <3>4 DEF Passed, Redeeming, Typed, Shaped, KindAt
    <3> QED
      BY <3>3, <3>5, QuietlyTogether DEF Base, Typed, TypeOK
  <2> QED
    BY <2>1, <2>2
<1>6. ASSUME NEW r \in Requests, FinishRegister(r) PROVE Spent' /\ Together'
  <2>m. Made' = Made
    BY <1>6 DEF FinishRegister, db, Made
  <2>1. Spent'
    BY <1>6, <2>m DEF FinishRegister, Base, Spent, Typed, Shaped, KindAt, Goto, db
  <2>2. Together'
    <3>1. \A q \in Requests : Passed(q)' => Passed(q)
      BY <1>6, <2>m DEF FinishRegister, Goto, Passed, Redeeming
    <3> QED
      BY <1>6, <3>1, QuietlyTogether DEF FinishRegister, Goto, history
  <2> QED
    BY <2>1, <2>2
<1>7. ASSUME NEW r \in Requests, CheckOwn(r) PROVE Spent' /\ Together'
  <2>m. Made' = Made
    BY <1>7 DEF CheckOwn, Tables, db, Made
  <2>1. Spent'
    BY <1>7, <2>m DEF CheckOwn, Base, Spent, Typed, Shaped, KindAt, Goto, Tables, db
  <2>2. Together'
    <3>1. \A q \in Requests : Passed(q)' => Passed(q)
      BY <1>7, <2>m DEF CheckOwn, Goto, Passed, Redeeming
    <3> QED
      BY <1>7, <3>1, QuietlyTogether DEF CheckOwn, Goto, Notes
  <2> QED
    BY <2>1, <2>2
<1>8. ASSUME NEW r \in Requests, CheckRejected(r) PROVE Spent' /\ Together'
  <2>m. Made' = Made
    BY <1>8 DEF CheckRejected, FindLatestByLureId, db, Made
  <2>1. Spent'
    BY <1>8, <2>m DEF CheckRejected, FindLatestByLureId, Spent, Goto, db
  <2>2. Together'
    <3>1. \A q \in Requests : Passed(q)' => Passed(q)
      BY <1>8, <2>m DEF CheckRejected, FindLatestByLureId, Goto, Passed, Redeeming
    <3> QED
      BY <1>8, <3>1, QuietlyTogether DEF CheckRejected, FindLatestByLureId, Goto, Notes
  <2> QED
    BY <2>1, <2>2
<1>9. ASSUME NEW r \in Requests, SaveModified(r) PROVE Spent' /\ Together'
  <2>1. Spent'
    BY <1>9 DEF SaveModified, Base, Spent, Typed, Shaped, KindAt, Goto
  <2>2. Together'
    <3>0. Made' = Made
      BY <1>9, ModifyMakesNone DEF Base
    <3>1. \A q \in Requests : Passed(q)' => Passed(q)
      BY <1>9, <3>0 DEF SaveModified, Goto, Passed, Redeeming
    <3> QED
      BY <1>9, <3>1, QuietlyTogether DEF SaveModified, Goto, Notes
  <2> QED
    BY <2>1, <2>2
<1>10. ASSUME NEW r \in Requests, FindToken(r) PROVE Spent' /\ Together'
  <2>m. Made' = Made
    BY <1>10 DEF FindToken, Tables, db, Made
  <2>1. Spent'
    BY <1>10, <2>m DEF FindToken, Spent, Goto, Tables, db
  <2>2. Together'
    <3>1. /\ pc[r] = "token" /\ ask' = ask /\ \A q \in Requests \ {r} : pc'[q] = pc[q] /\ company'[q] = company[q]
      BY <1>10 DEF FindToken, Goto, Base
    <3>2. ~Passed(r) /\ \A l \in Made : l[1] # r
      BY <3>1 DEF Base, Placed, Passed, Redeeming
    <3>3. \A q \in Requests : q # r => (Passed(q)' => Passed(q))
      BY <2>m, <3>1 DEF Passed, Redeeming
    <3>4. ASSUME NEW q \in Requests, q # r, Passed(q), Passed(r)', ask[q].token = ask[r].token
          PROVE  q \in company'[r] \/ pc'[q] = "failed"
      <4>1. ask[r].token \in tokens
        BY <1>10, <2>m, <3>1, <3>2, <3>4 DEF Passed, Redeeming, FindToken, Goto
      <4>2. CASE Redeeming(q)
        BY <1>10, <3>4, <4>2 DEF FindToken, Typed, TypeOK
      <4>3. CASE ~Redeeming(q)
        <5>1. PICK l \in Made : l[1] = q
          BY <3>4, <4>3 DEF Passed
        <5>2. pc[q] \in {"upload", "done", "failed"}
          BY <4>3, <5>1 DEF Base, Placed, Redeeming
        <5>3. pc[q] # "upload"
          BY <3>4 DEF Passed, Base, Typed, Shaped, KindAt
        <5>4. pc[q] # "done"
          BY <3>4, <4>1 DEF Spent, Passed
        <5> QED
          BY <3>1, <3>4, <5>2, <5>3, <5>4
      <4> QED
        BY <4>2, <4>3
    <3>5. ASSUME NEW p \in Requests, NEW q \in Requests, p # q, Passed(p)', Passed(q)',
                 ask'[p].token = ask'[q].token
          PROVE  p \in company'[q] \/ q \in company'[p] \/ pc'[p] = "failed" \/ pc'[q] = "failed"
      <4>1. CASE p = r
        BY <3>1, <3>3, <3>4, <3>5, <4>1
      <4>2. CASE q = r
        BY <3>1, <3>3, <3>4, <3>5, <4>2
      <4>3. CASE p # r /\ q # r
        BY <3>1, <3>3, <3>5, <4>3 DEF Together
      <4> QED
        BY <4>1, <4>2, <4>3
    <3> QED
      BY <3>5 DEF Together
  <2> QED
    BY <2>1, <2>2
<1>11. ASSUME NEW r \in Requests, InsertDigital(r) PROVE Spent' /\ Together'
  <2>1. Spent'
    BY <1>11 DEF InsertDigital, Spent, Goto
  <2>2. Together'
    <3>1. [RowFor(r) EXCEPT !.type = DigitalType] \in Rows
      BY <1>11, RowsFit DEF InsertDigital, Base, Typed
    <3>2. Made' = Made \cup {<<r, left[r]>>}
      BY <1>11, <3>1, InsertMakesOne DEF InsertDigital
    <3>3. /\ pc[r] = "digital" /\ pc' = [pc EXCEPT ![r] = "column"]
          /\ ask' = ask /\ company' = company
      BY <1>11 DEF InsertDigital, Goto, history
    <3>4. \A q \in Requests : q # r => ((\E l \in Made' : l[1] = q) => \E l \in Made : l[1] = q)
      BY <3>2
    <3>5. \A q \in Requests : Passed(q)' => Passed(q)
      BY <3>3, <3>4 DEF Passed, Redeeming, Base
    <3> QED
      BY <3>3, <3>5, QuietlyTogether DEF Base, Typed, TypeOK
  <2> QED
    BY <2>1, <2>2
<1>12. ASSUME NEW r \in Requests, UpdateMintId(r) PROVE Spent' /\ Together'
  <2>m. Made' = Made
    BY <1>12 DEF UpdateMintId, Made
  <2>1. Spent'
    BY <1>12, <2>m DEF UpdateMintId, Spent, Goto
  <2>2. Together'
    <3>1. \A q \in Requests : Passed(q)' => Passed(q)
      BY <1>12, <2>m DEF UpdateMintId, Goto, Passed, Redeeming
    <3> QED
      BY <1>12, <3>1, QuietlyTogether DEF UpdateMintId, Goto, history
  <2> QED
    BY <2>1, <2>2
<1>13. ASSUME NEW r \in Requests, InsertMintMaster(r) PROVE Spent' /\ Together'
  <2>m. Made' = Made
    BY <1>13 DEF InsertMintMaster, Made
  <2>1. Spent'
    BY <1>13, <2>m DEF InsertMintMaster, Spent, Goto
  <2>2. Together'
    <3>1. \A q \in Requests : Passed(q)' => Passed(q)
      BY <1>13, <2>m DEF InsertMintMaster, Goto, Passed, Redeeming
    <3> QED
      BY <1>13, <3>1, QuietlyTogether DEF InsertMintMaster, Goto, history
  <2> QED
    BY <2>1, <2>2
<1>14. ASSUME NEW r \in Requests, DeleteToken(r) PROVE Spent' /\ Together'
  <2>m. Made' = Made
    BY <1>14 DEF DeleteToken, Made
  <2>1. Spent'
    BY <1>14, <2>m DEF DeleteToken, Spent, Goto
  <2>2. Together'
    <3>1. \A q \in Requests : Passed(q)' => Passed(q)
      BY <1>14, <2>m DEF DeleteToken, Goto, Passed, Redeeming
    <3> QED
      BY <1>14, <3>1, QuietlyTogether DEF DeleteToken, Goto, history
  <2> QED
    BY <2>1, <2>2
<1>15. ASSUME NEW r \in Requests, Throw(r) PROVE Spent' /\ Together'
  <2>m. Made' = Made
    BY <1>15 DEF Throw, db, Made
  <2>1. Spent'
    BY <1>15, <2>m DEF Throw, Spent, Goto, db
  <2>2. Together'
    <3>1. \A q \in Requests : Passed(q)' => Passed(q)
      BY <1>15, <2>m DEF Throw, Goto, Passed, Redeeming
    <3> QED
      BY <1>15, <3>1, QuietlyTogether DEF Throw, Goto, Notes
  <2> QED
    BY <2>1, <2>2
<1>16. ASSUME NEW r \in Requests, NEW l \in Lures, SaveReviewStatus(r, l) PROVE Spent' /\ Together'
  <2>m. Made' = Made
    BY <1>16 DEF SaveReviewStatus, SaveStatus, Made
  <2>1. Spent'
    BY <1>16, <2>m DEF SaveReviewStatus, SaveStatus, Spent, local
  <2>2. Together'
    <3>1. \A q \in Requests : Passed(q)' => Passed(q)
      BY <1>16, <2>m DEF SaveReviewStatus, SaveStatus, local, Passed, Redeeming
    <3> QED
      BY <1>16, <3>1, QuietlyTogether DEF SaveReviewStatus, SaveStatus, Notes, local
  <2> QED
    BY <2>1, <2>2
<1>17. ASSUME NEW l \in Lures, FindReviewed(l) PROVE Spent' /\ Together'
  <2>m. Made' = Made
    BY <1>17 DEF FindReviewed, db, Made
  <2>1. Spent'
    BY <1>17, <2>m DEF FindReviewed, db, Spent, local
  <2>2. Together'
    <3>1. \A q \in Requests : Passed(q)' => Passed(q)
      BY <1>17, <2>m DEF FindReviewed, db, local, Passed, Redeeming
    <3> QED
      BY <1>17, <3>1, QuietlyTogether DEF FindReviewed, db, Notes, local
  <2> QED
    BY <2>1, <2>2
<1>18. ASSUME Crash PROVE Spent' /\ Together'
  <2>m. Made' = Made
    BY <1>18 DEF Crash, db, Made
  <2>1. Spent'
    BY <1>18, <2>m DEF Crash, Spent, db
  <2>2. Together'
    <3>1. \A q \in Requests : Passed(q)' => Passed(q)
      BY <1>18, <2>m DEF Crash, Passed, Redeeming
    <3> QED
      BY <1>18, <3>1, QuietlyTogether DEF Crash, Notes, Passed
  <2> QED
    BY <2>1, <2>2
<1>19. ASSUME UNCHANGED vars PROVE Spent' /\ Together'
  <2>m. Made' = Made
    BY <1>19 DEF db, vars, Made
  <2>1. Spent'
    BY <1>19, <2>m DEF Spent, db, local, vars
  <2>2. Together'
    <3>1. \A q \in Requests : Passed(q)' => Passed(q)
      BY <1>19, <2>m DEF local, vars, Passed, Redeeming
    <3> QED
      BY <1>19, <3>1, QuietlyTogether DEF local, history, vars
  <2> QED
    BY <2>1, <2>2
<1>20. ASSUME NEW d \in decisions, UpdateReviewStatus(d[1], d[2]) PROVE Spent' /\ Together'
  <2>m. Made' = Made
    BY <1>20 DEF UpdateReviewStatus, SaveStatus, Made
  <2>1. Spent'
    BY <1>20, <2>m DEF UpdateReviewStatus, SaveStatus, Spent, local
  <2>2. Together'
    <3>1. \A q \in Requests : Passed(q)' => Passed(q)
      BY <1>20, <2>m DEF UpdateReviewStatus, SaveStatus, local, Passed, Redeeming
    <3> QED
      BY <1>20, <3>1, QuietlyTogether DEF UpdateReviewStatus, SaveStatus, Notes, local
  <2> QED
    BY <2>1, <2>2
<1> QED
  BY <1>1, <1>2, <1>3, <1>4, <1>5, <1>6, <1>7, <1>8, <1>9, <1>10, <1>11, <1>12,
       <1>13, <1>14, <1>15, <1>16, <1>17, <1>18, <1>19, <1>20 DEF Next

-----------------------------------------------------------------------------
(* Theorems                                                                *)

IInv ==
  /\ Base /\ LureHasReview /\ Linked /\ Settled
  /\ Numbered /\ Checked /\ AsBought /\ Spent /\ Together

LEMMA InvariantAlways == Spec => []IInv
<1>1. Init => IInv
  <2> SUFFICES ASSUME Init PROVE IInv
    OBVIOUS
  <2>1. Made = {}
    BY DEF Init, Made
  <2>2. Base
    BY InitBase
  <2>3. LureHasReview /\ Linked /\ AsBought
    BY <2>1 DEF LureHasReview, Linked, AsBought
  <2>4. Settled
    BY DEF Init, Settled, Unsettled
  <2>5. Numbered /\ Checked /\ Spent /\ Together
    BY DEF Init, Numbered, Checked, WentOn, Spent, Together, Passed
  <2> QED
    BY <2>2, <2>3, <2>4, <2>5 DEF IInv
<1>2. IInv /\ [Next]_vars => IInv'
  <2> SUFFICES ASSUME IInv, [Next]_vars PROVE IInv'
    OBVIOUS
  <2>1. Typed' /\ Base'
    BY NextTyped, NextPlaced, NextOwed, NextUnderReview DEF IInv, Base
  <2> QED
    BY <2>1, NextReviewed, NextSettled, NextNumbered, NextChecked, NextBought,
         NextTogether
    DEF IInv
<1> QED
  BY <1>1, <1>2, PTL DEF Spec

\* LureHasReview: a lure that no reviewer's list shows is on its way to its
\* status, or its request was cut short.
THEOREM ReviewsReached == Spec => []LureHasReview
<1>1. IInv => LureHasReview
  BY DEF IInv
<1> QED
  BY InvariantAlways, <1>1, PTL

\* ApprovedCanBeMinted: a digital lure counts as approved only with its
\* placeholder in both tables.
THEOREM ApprovedIsLinked == Spec => []ApprovedCanBeMinted
<1>1. IInv => ApprovedCanBeMinted
  BY DEF IInv, Linked, ApprovedCanBeMinted
<1> QED
  BY InvariantAlways, <1>1, PTL

\* ApprovedAsReviewed: an approved lure is as the reviewer saw it, unless two
\* modifications of it, or one and a reviewer's update, were under way together.
THEOREM ApprovalHolds == Spec => []ApprovedAsReviewed
<1>1. IInv => ApprovedAsReviewed
  BY DEF IInv, Settled, ApprovedAsReviewed, Made
<1> QED
  BY InvariantAlways, <1>1, PTL

\* NumbersDistinct: the serial code of a bought lure is a new one, up to
\* LastPadded and among the lures that were there when it was drawn.
THEOREM SerialCodesNew == Spec => []NumbersDistinct
<1>1. IInv => NumbersDistinct
  <2> SUFFICES ASSUME IInv, NEW k \in Made, NEW l \in Made, Bought(l), version[k] = 0,
                      Alike(k, l), row[k].number = row[l].number,
                      k \in numberedAt[l[1]], ~(row[k].number > LastPadded)
               PROVE  FALSE
    BY DEF NumbersDistinct
  <2>1. l[1] \in Requests /\ pc[l[1]] # "idle" /\ ask[l[1]].kind = "purchase"
    BY LureId DEF IInv, Base, Placed, Made, Bought, Maker
  <2>2. row[l] = RowFor(l[1])
    BY DEF IInv, AsBought
  <2>3. row[l].type = ask[l[1]].type /\ row[l].color = ask[l[1]].color
        /\ row[l].number = number[l[1]]
    BY <2>2 DEF RowFor
  <2>4. row[k].number \in Nat
    BY DEF Made, IInv, Base, Typed, TypeOK, Rows
  <2>5. row[k].number <= LastPadded
    BY <2>4, BoundsAssumption
  <2>6. row[k].number < number[l[1]]
    BY <2>1, <2>3, <2>5 DEF IInv, Numbered, Alike
  <2> QED
    BY <2>3, <2>4, <2>6
<1> QED
  BY InvariantAlways, <1>1, PTL

\* PurchaseOnce: a member that buys a lure has no second one of the kind among
\* those that were there when the purchase was checked.
THEOREM BoughtOnce == Spec => []PurchaseOnce
<1>1. IInv => PurchaseOnce
  <2> SUFFICES ASSUME IInv, NEW k \in Made, NEW l \in Made, Bought(l), k # l, version[k] = 0,
                      Alike(k, l), row[k].owner = row[l].owner, k \in checkedAt[l[1]]
               PROVE  FALSE
    BY DEF PurchaseOnce
  <2>1. l[1] \in Requests /\ pc[l[1]] # "idle" /\ ask[l[1]].kind = "purchase"
    BY LureId DEF IInv, Base, Placed, Made, Bought, Maker
  <2>2. row[l] = RowFor(l[1]) /\ <<l[1], 1>> \in Made
    BY DEF IInv, AsBought
  <2>3. row[l].type = ask[l[1]].type /\ row[l].color = ask[l[1]].color
        /\ row[l].owner = ask[l[1]].member
    BY <2>2 DEF RowFor
  <2>4. WentOn(l[1])
    BY <2>1, <2>2 DEF WentOn
  <2> QED
    BY <2>1, <2>3, <2>4 DEF IInv, Checked, Alike
<1> QED
  BY InvariantAlways, <1>1, PTL

\* TokenOnce: two requests that got lures with one token were under way
\* together, or one of them broke off.
THEOREM TokensServeOne == Spec => []TokenOnce
<1>1. IInv => TokenOnce
  <2> SUFFICES ASSUME IInv, NEW k \in Made, NEW l \in Made,
                      Maker(k).kind = "redeem", Maker(l).kind = "redeem",
                      Maker(k).token = Maker(l).token, k[1] # l[1]
               PROVE  \/ k[1] \in company[l[1]] \/ l[1] \in company[k[1]]
                      \/ pc[k[1]] = "failed" \/ pc[l[1]] = "failed"
    BY DEF TokenOnce
  <2>1. k[1] \in Requests /\ l[1] \in Requests
    BY LureId DEF Made
  <2>2. Passed(k[1]) /\ Passed(l[1])
    BY DEF Passed, Maker, IInv, Base, Placed
  <2> QED
    BY <2>1, <2>2 DEF IInv, Together, Maker
<1> QED
  BY InvariantAlways, <1>1, PTL
=============================================================================
