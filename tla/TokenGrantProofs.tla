-------------------------- MODULE TokenGrantProofs --------------------------
(***************************************************************************)
(* Theorems about TokenGrant, for any number of rows, members, runs and    *)
(* callers, any retry limit and any behaviour of the chain.                *)
(***************************************************************************)
EXTENDS TokenGrant, FiniteSetTheorems, TLAPS

(* fixToken works on row t, or has worked on it: the row was asked for, its  *)
(* insertion is over and, if it is a provisional grant, it has been marked.  *)
Taken(t) ==
  /\ t \in asked
  /\ t \notin pending
  /\ t \in DirectTx \/ status[t] \in {"PROCESSING", "FIX", "ERROR"}

Backed(t) == landed[t] > 0 /\ ("reverted" \notin Verdicts => paid[t] > 0)

(* The rows of the table. *)
RowsOK ==
  /\ pending \subseteq asked
  /\ \A t \in Tx : t \notin asked \/ t \in pending => status[t] = "NONE"
  /\ \A t \in DirectTx : status[t] \notin {"READY", "PROCESSING"}
  /\ \A t \in Tx : landed[t] > 0 \/ floating[t] > 0 => Taken(t)

(* What the runs and callers have in their local variables. *)
LocalsOK ==
  \A p \in Procs :
    /\ \A t \in ids[p] : status[t] # "NONE" /\ t \notin DirectTx
    /\ \A t \in todo[p] : Taken(t)
    /\ pc[p] \in {"send", "fix", "notify", "error"} => cur[p] \in Tx /\ Taken(cur[p])
    /\ pc[p] \in {"fix", "notify"} => Backed(cur[p])

IInv == TypeOK /\ RowsOK /\ LocalsOK /\ FixBacked

-----------------------------------------------------------------------------
(* The types hold initially. *)
LEMMA TypeInit == Init => TypeOK
  BY TxAssumption, BoundsAssumption DEF Init, TypeOK, Statuses

(* Every step keeps the types. *)
LEMMA TypeStep == TypeOK /\ [Next]_vars => TypeOK'
<1> SUFFICES ASSUME TypeOK, [Next]_vars PROVE TypeOK'
  OBVIOUS
<1> USE TxAssumption, BoundsAssumption, ChainAssumption DEF Statuses, Procs
<1>1. ASSUME NEW t \in Tx, RequestGrant(t) \/ InsertReady(t) \/ InsertReadyFails(t)
      PROVE  TypeOK'
  BY <1>1 DEF TypeOK, RequestGrant, InsertReady, InsertReadyFails, db, local, chain
<1>2. ASSUME NEW m \in Member, Withdraw(m) PROVE TypeOK'
  BY <1>2 DEF TypeOK, Withdraw, requests, local, chain
<1>3. ASSUME NEW r \in Runs, FindReady(r) \/ FixTokenStart(r) \/ CaughtDbFailure(r)
      PROVE  TypeOK'
  BY <1>3 DEF TypeOK, FindReady, FixTokenStart, MarkProcessing, FindProcessing,
     CaughtDbFailure, Goto, LoopOver, RowsIn, requests, db, chain
<1>4. ASSUME NEW r \in Runs, Notify(r) PROVE TypeOK'
  <2>1. notices' \in [Tx -> Nat]
    <3>1. notices' = [notices EXCEPT ![cur[r]] = @ + 1] /\ notices \in [Tx -> Nat]
      BY <1>4 DEF TypeOK, Notify
    <3>2. CASE cur[r] \in Tx
      BY <3>1, <3>2
    <3>3. CASE cur[r] \notin Tx
      BY <3>1, <3>3
    <3> QED
      BY <3>2, <3>3
  <2>2. UNCHANGED <<status, available, asked, pending, ids, landed, paid, floating, crashes>>
    BY <1>4 DEF Notify, NextRow, requests, chain
  <2>3. /\ pc' \in [Procs -> {"idle", "mark", "list", "loop", "send", "fix", "notify", "error"}]
        /\ todo' \in [Procs -> SUBSET Tx]
        /\ cur' \in [Procs -> Tx \cup {NoTx}]
        /\ tries' \in [Procs -> 0..MaxRetries]
    BY <1>4 DEF TypeOK, Notify, NextRow, LoopOver, Goto
  <2> QED
    BY <2>1, <2>2, <2>3 DEF TypeOK
<1>5. ASSUME NEW c \in Callers, NEW S \in SUBSET DirectTx, CallGiveToken(c, S)
      PROVE  TypeOK'
  BY <1>5 DEF TypeOK, CallGiveToken, LoopOver, Goto, db, chain
<1>6. ASSUME NEW p \in Procs, PickRow(p) PROVE TypeOK'
  BY <1>6 DEF TypeOK, PickRow, LoopOver, Goto, db, chain, requests
<1>7. ASSUME NEW p \in Procs, SendStep(p) PROVE TypeOK'
  BY <1>7 DEF TypeOK, SendStep, PrepareFails, Confirmed, NotConfirmed, Abandon, Include,
     Goto, db, chain, requests
<1>8. ASSUME NEW p \in Procs, RecordFix(p) \/ RecordError(p) PROVE TypeOK'
  BY <1>8 DEF TypeOK, RecordFix, RecordError, NextRow, LoopOver, Goto, chain, requests
<1>9. ASSUME NEW p \in Procs, RunFails(p) PROVE TypeOK'
  BY <1>9 DEF TypeOK, RunFails, Reset, db, chain, requests
<1>10. CASE Crash
  BY <1>10 DEF TypeOK, Crash, Reset, db, chain
<1>11. ASSUME NEW t \in Tx, LateInclusion(t) \/ Expire(t) PROVE TypeOK'
  BY <1>11 DEF TypeOK, LateInclusion, Expire, Include, db, local, requests
<1>12. CASE UNCHANGED vars
  BY <1>12 DEF TypeOK, vars, db, local, chain, requests
<1> QED
  BY <1>1, <1>2, <1>3, <1>4, <1>5, <1>6, <1>7, <1>8, <1>9, <1>10, <1>11, <1>12
  DEF Next, LoopStep

-----------------------------------------------------------------------------
(* The inductive invariant.  FixBacked alone is not inductive: RecordFix       *)
(* writes FIX because of where the run stands (LocalsOK), and a run may send   *)
(* for a row only because every row it holds has left READY for good (RowsOK). *)

LEMMA InvInit == Init => IInv
  BY TypeInit, TxAssumption DEF Init, IInv, RowsOK, LocalsOK, FixBacked, Taken, Procs

(* Giving out, inserting and dropping provisional grants. *)
LEMMA InvGrant ==
  ASSUME IInv, TypeOK', NEW t \in Tx, RequestGrant(t) \/ InsertReady(t) \/ InsertReadyFails(t)
  PROVE  IInv'
<1> USE TxAssumption DEF IInv
<1>1. RowsOK'
  BY DEF TypeOK, RowsOK, Taken, RequestGrant, InsertReady, InsertReadyFails, db, chain
<1>2. LocalsOK'
  BY DEF TypeOK, RowsOK, LocalsOK, Taken, Backed, RequestGrant, InsertReady,
     InsertReadyFails, db, chain, local, Procs
<1>3. FixBacked'
  BY DEF TypeOK, RowsOK, FixBacked, RequestGrant, InsertReady, InsertReadyFails, db, chain
<1> QED
  BY <1>1, <1>2, <1>3

(* A run reads, marks and lists its rows; a caller of giveToken picks its own. *)
LEMMA InvStart ==
  ASSUME IInv, TypeOK', NEW p \in Procs,
         \/ p \in Runs /\ (FindReady(p) \/ FixTokenStart(p) \/ CaughtDbFailure(p))
         \/ p \in Callers /\ \E S \in SUBSET DirectTx : CallGiveToken(p, S)
  PROVE  IInv'
<1> USE TxAssumption DEF IInv, Procs
<1>1. CASE FindReady(p)
  BY <1>1 DEF TypeOK, RowsOK, LocalsOK, FixBacked, Taken, Backed, FindReady, RowsIn, Goto,
     db, chain, requests
<1>2. CASE MarkProcessing(p)
  <2>1. RowsOK'
    BY <1>2 DEF TypeOK, RowsOK, LocalsOK, Taken, MarkProcessing, chain, requests
  <2>2. LocalsOK'
    BY <1>2 DEF TypeOK, LocalsOK, Taken, Backed, MarkProcessing, Goto, chain, requests
  <2>3. FixBacked'
    BY <1>2 DEF TypeOK, FixBacked, MarkProcessing, chain
  <2> QED
    BY <2>1, <2>2, <2>3
<1>3. CASE FindProcessing(p)
  BY <1>3 DEF TypeOK, RowsOK, LocalsOK, FixBacked, Taken, Backed, FindProcessing, RowsIn,
     LoopOver, Goto, db, chain, requests
<1>4. CASE CaughtDbFailure(p)
  BY <1>4 DEF TypeOK, RowsOK, LocalsOK, FixBacked, Taken, Backed, CaughtDbFailure, Goto,
     db, chain, requests
<1>5. ASSUME NEW S \in SUBSET DirectTx, CallGiveToken(p, S) PROVE IInv'
  BY <1>5 DEF TypeOK, RowsOK, LocalsOK, FixBacked, Taken, Backed, CallGiveToken, LoopOver,
     Goto, db, chain
<1> QED
  BY <1>1, <1>2, <1>3, <1>4, <1>5 DEF FixTokenStart

(* A run or caller picks a row and sends the tokens. *)
LEMMA InvSend ==
  ASSUME IInv, TypeOK', NEW p \in Procs, PickRow(p) \/ SendStep(p)
  PROVE  IInv'
<1> USE TxAssumption, ChainAssumption DEF IInv, Procs
<1>1. CASE PickRow(p)
  BY <1>1 DEF TypeOK, RowsOK, LocalsOK, FixBacked, Taken, Backed, PickRow, LoopOver, Goto,
     db, chain, requests
<1>2. CASE PrepareFails(p)
  BY <1>2 DEF TypeOK, RowsOK, LocalsOK, FixBacked, Taken, Backed, PrepareFails, Goto,
     db, chain, requests
<1>3. CASE Confirmed(p)
  <2>1. RowsOK'
    BY <1>3 DEF TypeOK, RowsOK, LocalsOK, Taken, Confirmed, Include, db, requests
  <2>2. LocalsOK'
    BY <1>3 DEF TypeOK, LocalsOK, Taken, Backed, Confirmed, Include, Goto, db, requests
  <2>3. FixBacked'
    BY <1>3 DEF TypeOK, FixBacked, Confirmed, Include, db
  <2> QED
    BY <2>1, <2>2, <2>3
<1>4. CASE NotConfirmed(p)
  <2>1. RowsOK'
    BY <1>4 DEF TypeOK, RowsOK, LocalsOK, Taken, NotConfirmed, Abandon, Include, db, chain,
       requests
  <2>2. LocalsOK'
    BY <1>4 DEF TypeOK, LocalsOK, Taken, Backed, NotConfirmed, Abandon, Include, Goto, db,
       chain, requests
  <2>3. FixBacked'
    BY <1>4 DEF TypeOK, FixBacked, NotConfirmed, Abandon, Include, db, chain
  <2> QED
    BY <2>1, <2>2, <2>3
<1> QED
  BY <1>1, <1>2, <1>3, <1>4 DEF SendStep

(* The row becomes FIX or ERROR, and the receiver is notified. *)
LEMMA InvRecord ==
  ASSUME IInv, TypeOK', NEW p \in Procs, RecordFix(p) \/ RecordError(p) \/ Notify(p)
  PROVE  IInv'
<1> USE TxAssumption DEF IInv, Procs
<1>1. CASE RecordFix(p)
  <2>1. RowsOK'
    BY <1>1 DEF TypeOK, RowsOK, LocalsOK, Taken, RecordFix, chain, requests
  <2>2. LocalsOK'
    BY <1>1 DEF TypeOK, LocalsOK, Taken, Backed, RecordFix, NextRow, LoopOver, Goto, chain,
       requests
  <2>3. FixBacked'
    BY <1>1 DEF TypeOK, LocalsOK, Backed, FixBacked, RecordFix, chain
  <2> QED
    BY <2>1, <2>2, <2>3
<1>2. CASE RecordError(p)
  <2>1. RowsOK'
    BY <1>2 DEF TypeOK, RowsOK, LocalsOK, Taken, RecordError, chain, requests
  <2>2. LocalsOK'
    BY <1>2 DEF TypeOK, LocalsOK, Taken, Backed, RecordError, NextRow, LoopOver, Goto, chain,
       requests
  <2>3. FixBacked'
    BY <1>2 DEF TypeOK, FixBacked, RecordError, chain
  <2> QED
    BY <2>1, <2>2, <2>3
<1>3. CASE Notify(p)
  BY <1>3 DEF TypeOK, RowsOK, LocalsOK, FixBacked, Taken, Backed, Notify, NextRow, LoopOver,
     Goto, chain, requests
<1> QED
  BY <1>1, <1>2, <1>3

(* A run or the process ends early; the chain includes a transfer late. *)
LEMMA InvFail ==
  ASSUME IInv, TypeOK', \/ \E p \in Procs : RunFails(p)
                        \/ Crash
                        \/ \E t \in Tx : LateInclusion(t) \/ Expire(t)
  PROVE  IInv'
<1> USE TxAssumption, ChainAssumption DEF IInv, Procs
<1>1. ASSUME NEW p \in Procs, RunFails(p) PROVE IInv'
  BY <1>1 DEF TypeOK, RowsOK, LocalsOK, FixBacked, Taken, Backed, RunFails, Reset,
     db, chain, requests
<1>2. CASE Crash
  BY <1>2 DEF TypeOK, RowsOK, LocalsOK, FixBacked, Taken, Backed, Crash, Reset, db, chain
<1>3. ASSUME NEW t \in Tx, LateInclusion(t) \/ Expire(t) PROVE IInv'
  BY <1>3 DEF TypeOK, RowsOK, LocalsOK, FixBacked, Taken, Backed, LateInclusion, Expire,
     Include, db, local, requests
<1> QED
  BY <1>1, <1>2, <1>3

LEMMA InvStep == IInv /\ [Next]_vars => IInv'
<1> SUFFICES ASSUME IInv, [Next]_vars PROVE IInv'
  OBVIOUS
<1>1. TypeOK'
  BY TypeStep DEF IInv
<1>2. ASSUME NEW m \in Member, Withdraw(m) PROVE IInv'
  BY <1>1, <1>2 DEF IInv, RowsOK, LocalsOK, FixBacked, Taken, Backed, Withdraw, requests,
     local, chain
<1>3. CASE UNCHANGED vars
  BY <1>1, <1>3 DEF IInv, RowsOK, LocalsOK, FixBacked, Taken, Backed, vars, db, local,
     chain, requests
<1> QED
  BY <1>1, <1>2, <1>3, InvGrant, InvStart, InvSend, InvRecord, InvFail
  DEF Next, LoopStep, Procs

(* Type correctness of every state the component reaches. *)
THEOREM TypeCorrect == Spec => []TypeOK
<1>1. Init => TypeOK
  BY TypeInit
<1>2. TypeOK /\ [Next]_vars => TypeOK'
  BY TypeStep
<1> QED
  BY <1>1, <1>2, PTL DEF Spec

LEMMA InvHolds == Spec => []IInv
  BY InvInit, InvStep, PTL DEF Spec

(* FIX is never written for a row without a transfer on chain, however the   *)
(* runs overlap, the sends are retried and the process crashes.              *)
THEOREM FixIsBacked == Spec => []FixBacked
<1>1. IInv => FixBacked
  BY DEF IInv
<1> QED
  BY <1>1, InvHolds, PTL

(* No transfer leaves for a row that a run could still find READY.           *)
THEOREM NothingSentEarly == Spec => []NothingSentWhileReady
<1>1. IInv => NothingSentWhileReady
  BY DEF IInv, TypeOK, RowsOK, Taken, NothingSentWhileReady
<1> QED
  BY <1>1, InvHolds, PTL


-----------------------------------------------------------------------------
(* The component implements GrantPromise: each step asks for rows, sends for *)
(* a row that was asked for, reports, reopens marked rows, or changes        *)
(* nothing the promise speaks of.                                            *)

Report == [t \in Tx |-> CASE status[t] = "FIX" -> "granted"
                          [] status[t] = "ERROR" -> "failed"
                          [] OTHER -> "open"]
Sent == {t \in Tx : landed[t] > 0}

(* Including one more transfer for an asked row sends it, or changes nothing. *)
LEMMA IncludeSends ==
  ASSUME TypeOK, NEW t \in Tx, t \in asked, Include(t), UNCHANGED <<asked, status>>
  PROVE  Promise!Send(t)
<1>1. landed' = [landed EXCEPT ![t] = @ + 1]
  BY DEF Include
<1>2. Sent' = Sent \cup {t}
  BY <1>1 DEF TypeOK, Sent
<1>3. Report' = Report
  BY DEF Report
<1> QED
  BY <1>2, <1>3 DEF Promise!Send, Sent, Report

(* Writing a final status reports it. *)
LEMMA RecordReports ==
  ASSUME IInv, NEW p \in Procs, NEW t, t = cur[p], RecordFix(p) \/ RecordError(p)
  PROVE  t \in Tx /\ (Promise!ReportGranted(t) \/ Promise!ReportFailed(t))
<1>1. t \in Tx /\ t \in asked /\ UNCHANGED <<asked, landed>>
  BY DEF IInv, LocalsOK, Taken, RecordFix, RecordError, chain, requests
<1>2. CASE RecordFix(p)
  <2>1. status' = [status EXCEPT ![t] = "FIX"] /\ landed[t] > 0
    BY <1>2 DEF RecordFix, IInv, LocalsOK, Backed
  <2>2. Report' = [Report EXCEPT ![t] = "granted"]
    BY <1>1, <2>1 DEF Report, IInv, TypeOK
  <2> QED
    BY <1>1, <2>1, <2>2 DEF Promise!ReportGranted, Report
<1>3. CASE RecordError(p)
  <2>1. status' = [status EXCEPT ![t] = "ERROR"]
    BY <1>3 DEF RecordError
  <2>2. Report' = [Report EXCEPT ![t] = "failed"]
    BY <1>1, <2>1 DEF Report, IInv, TypeOK
  <2> QED
    BY <1>1, <2>2 DEF Promise!ReportFailed, Report
<1> QED
  BY <1>2, <1>3

(* Marking rows PROCESSING reopens those an overlapping run has settled. *)
LEMMA MarkReopens ==
  ASSUME IInv, NEW r \in Runs, NEW S, S = ids[r], MarkProcessing(r)
  PROVE  S \in SUBSET Tx /\ Promise!Reopen(S)
<1>1. S \in SUBSET Tx
  BY DEF IInv, TypeOK, Procs
<1>2. S \subseteq asked
  BY <1>1 DEF IInv, RowsOK, LocalsOK, Procs
<1>3. Report' = [t \in Tx |-> IF t \in S THEN "open" ELSE Report[t]]
  BY DEF MarkProcessing, Report
<1>4. UNCHANGED <<asked, landed>>
  BY DEF MarkProcessing, chain, requests
<1> QED
  BY <1>1, <1>2, <1>3, <1>4 DEF Promise!Reopen, Report

LEMMA PromiseStep == IInv /\ [Next]_vars => [Promise!Next]_(Promise!vars)
<1> SUFFICES ASSUME IInv, [Next]_vars PROVE [Promise!Next]_(Promise!vars)
  OBVIOUS
<1> USE TxAssumption
\* A step that keeps these three leaves the promise's variables alone.
<1>0. ASSUME UNCHANGED <<asked, landed, status>> PROVE UNCHANGED Promise!vars
  BY <1>0 DEF Promise!vars
<1>1. ASSUME NEW t \in Tx, RequestGrant(t) PROVE Promise!Next
  <2>1. Promise!Ask({t})
    BY <1>1 DEF RequestGrant, Promise!Ask, db, chain
  <2> QED
    BY <2>1 DEF Promise!Next
<1>2. ASSUME NEW t \in Tx, InsertReady(t) PROVE UNCHANGED Promise!vars
  <2>1. status[t] = "NONE"
    BY <1>2 DEF IInv, RowsOK, InsertReady
  <2>2. Report' = Report
    BY <1>2, <2>1 DEF InsertReady, Report, IInv, TypeOK
  <2> QED
    BY <1>2, <2>2 DEF InsertReady, Promise!vars, Report, chain
<1>3. ASSUME NEW r \in Runs, MarkProcessing(r) PROVE Promise!Next
  <2>1. PICK S : S = ids[r]
    OBVIOUS
  <2>2. S \in SUBSET Tx /\ Promise!Reopen(S)
    BY <1>3, <2>1, MarkReopens
  <2> QED
    BY <2>2 DEF Promise!Next
<1>4. ASSUME NEW c \in Callers, NEW S \in SUBSET DirectTx, CallGiveToken(c, S)
      PROVE  Promise!Next
  <2>1. Promise!Ask(S)
    BY <1>4 DEF CallGiveToken, Promise!Ask, db, chain
  <2> QED
    BY <2>1 DEF Promise!Next
<1>5. ASSUME NEW p \in Procs, SendStep(p) PROVE [Promise!Next]_(Promise!vars)
  <2>1. pc[p] = "send" /\ cur[p] \in Tx /\ cur[p] \in asked /\ UNCHANGED <<asked, status>>
    BY <1>5 DEF SendStep, PrepareFails, Confirmed, NotConfirmed, IInv, LocalsOK, Taken, db,
       requests
  <2>2. Include(cur[p]) \/ UNCHANGED landed
    BY <1>5 DEF SendStep, PrepareFails, Confirmed, NotConfirmed, Abandon, chain
  <2> QED
    BY <1>0, <2>1, <2>2, IncludeSends DEF Promise!Next, IInv
<1>6. ASSUME NEW p \in Procs, RecordFix(p) \/ RecordError(p) PROVE Promise!Next
  <2>1. PICK t : t = cur[p]
    OBVIOUS
  <2>2. t \in Tx /\ (Promise!ReportGranted(t) \/ Promise!ReportFailed(t))
    BY <1>6, <2>1, RecordReports
  <2> QED
    BY <2>2 DEF Promise!Next
<1>7. ASSUME NEW t \in Tx, LateInclusion(t) PROVE Promise!Next
  <2>1. t \in asked /\ Include(t) /\ UNCHANGED <<asked, status>>
    BY <1>7 DEF IInv, RowsOK, Taken, LateInclusion, db, requests
  <2> QED
    BY <2>1, IncludeSends DEF Promise!Next, IInv
<1>8. ASSUME \/ \E t \in Tx : InsertReadyFails(t) \/ Expire(t)
             \/ \E m \in Member : Withdraw(m)
             \/ \E r \in Runs : FindReady(r) \/ FindProcessing(r) \/ Notify(r) \/ CaughtDbFailure(r)
             \/ \E p \in Procs : PickRow(p) \/ RunFails(p)
             \/ Crash
             \/ UNCHANGED vars
      PROVE  UNCHANGED Promise!vars
  BY <1>0, <1>8 DEF InsertReadyFails, Expire, Withdraw, FindReady, FindProcessing, Notify,
     CaughtDbFailure, PickRow, RunFails, Crash, vars, db, local, chain, requests
<1> QED
  BY <1>1, <1>2, <1>3, <1>4, <1>5, <1>6, <1>7, <1>8 DEF Next, FixTokenStart, LoopStep, Procs

THEOREM ImplementsPromise == Spec => KeepsPromise
<1>1. Init => Promise!Init
  BY DEF Init, Promise!Init
<1> QED
  BY <1>1, PromiseStep, InvHolds, PTL DEF Spec, KeepsPromise, Promise!Spec

-----------------------------------------------------------------------------
(* Notifications.  A process at "fix" or "notify" owes one for the transfer   *)
(* it has just seen included: what was created and what is owed together      *)
(* never exceed what the chain has included, and each process counts once,    *)
(* however many of them have the same row at hand.                            *)

Owing(t) == {p \in Procs : pc[p] \in {"fix", "notify"} /\ cur[p] = t}

NoticesOK ==
  \A t \in Tx :
    IsFiniteSet(Owing(t)) /\ notices[t] + Cardinality(Owing(t)) <= landed[t]

(* A step that lets nobody owe more than before. *)
LEMMA OwingShrinks ==
  ASSUME TypeOK, TypeOK', NoticesOK, UNCHANGED notices,
         \A t \in Tx : landed[t] <= landed'[t],
         \A p \in Procs : pc'[p] \in {"fix", "notify"} =>
                            pc[p] \in {"fix", "notify"} /\ cur'[p] = cur[p]
  PROVE  NoticesOK'
<1> SUFFICES ASSUME NEW t \in Tx
             PROVE  IsFiniteSet(Owing(t)') /\ notices'[t] + Cardinality(Owing(t)') <= landed'[t]
  BY DEF NoticesOK
<1>1. IsFiniteSet(Owing(t)) /\ notices[t] + Cardinality(Owing(t)) <= landed[t]
  BY DEF NoticesOK
<1>2. Owing(t)' \in SUBSET Owing(t)
  BY DEF Owing
<1>3. IsFiniteSet(Owing(t)') /\ Cardinality(Owing(t)') <= Cardinality(Owing(t))
  BY <1>1, <1>2, FS_Subset
<1>4. Cardinality(Owing(t)) \in Nat /\ Cardinality(Owing(t)') \in Nat
  BY <1>1, <1>3, FS_CardinalityType
<1>5. /\ notices[t] \in Nat /\ notices'[t] = notices[t]
      /\ landed[t] \in Nat /\ landed'[t] \in Nat /\ landed[t] <= landed'[t]
  BY DEF TypeOK
<1> QED
  BY <1>1, <1>3, <1>4, <1>5

LEMMA NoticesStep == IInv /\ NoticesOK /\ [Next]_vars => NoticesOK'
<1> SUFFICES ASSUME IInv, NoticesOK, [Next]_vars PROVE NoticesOK'
  OBVIOUS
<1>0. TypeOK /\ TypeOK'
  BY TypeStep DEF IInv
\* The steps that include no transfer and create no notification.
<1>1. ASSUME UNCHANGED <<notices, landed>>,
             \A p \in Procs : pc'[p] \in {"fix", "notify"} =>
                                pc[p] \in {"fix", "notify"} /\ cur'[p] = cur[p]
      PROVE  NoticesOK'
  <2>1. \A t \in Tx : landed[t] <= landed'[t]
    BY <1>0, <1>1 DEF TypeOK
  <2> QED
    BY <1>0, <1>1, <2>1, OwingShrinks
<1>2. ASSUME \/ \E t \in Tx : RequestGrant(t) \/ InsertReady(t) \/ InsertReadyFails(t) \/ Expire(t)
             \/ \E m \in Member : Withdraw(m)
             \/ UNCHANGED vars
      PROVE  NoticesOK'
  BY <1>1, <1>2 DEF RequestGrant, InsertReady, InsertReadyFails, Expire, Withdraw, vars, db,
     local, chain, requests
<1>3. ASSUME NEW r \in Procs, FindReady(r) \/ FixTokenStart(r) \/ CaughtDbFailure(r)
      PROVE  NoticesOK'
  BY <1>0, <1>1, <1>3 DEF TypeOK, FindReady, FixTokenStart, MarkProcessing, FindProcessing,
     CaughtDbFailure, LoopOver, Goto, db, chain, requests
<1>4. ASSUME NEW c \in Callers, NEW S, CallGiveToken(c, S) PROVE NoticesOK'
  BY <1>0, <1>1, <1>4 DEF TypeOK, CallGiveToken, LoopOver, Goto, db, chain
<1>5. ASSUME NEW p \in Procs, PickRow(p) \/ PrepareFails(p) PROVE NoticesOK'
  BY <1>0, <1>1, <1>5 DEF TypeOK, PickRow, PrepareFails, LoopOver, Goto, db, chain, requests
<1>6. ASSUME NEW p \in Procs, RecordFix(p) \/ RecordError(p) PROVE NoticesOK'
  BY <1>0, <1>1, <1>6 DEF TypeOK, RecordFix, RecordError, NextRow, LoopOver, Goto, chain,
     requests
<1>7. ASSUME NEW p \in Procs, RunFails(p) PROVE NoticesOK'
  BY <1>0, <1>1, <1>7 DEF TypeOK, RunFails, Reset, db, chain, requests
<1>8. CASE Crash
  BY <1>0, <1>1, <1>8 DEF TypeOK, Crash, Reset, db, chain
\* The steps by which the chain includes a transfer nobody waits for.
<1>9. ASSUME NEW p \in Procs, NotConfirmed(p) PROVE NoticesOK'
  <2>1. UNCHANGED <<notices, cur>>
    BY <1>9 DEF NotConfirmed, db
  <2>2. \A t \in Tx : landed[t] <= landed'[t]
    BY <1>0, <1>9 DEF TypeOK, NotConfirmed, Abandon, Include, chain
  <2>3. \A q \in Procs : pc'[q] \in {"fix", "notify"} => pc[q] \in {"fix", "notify"}
    BY <1>0, <1>9 DEF TypeOK, NotConfirmed, Goto
  <2> QED
    BY <1>0, <2>1, <2>2, <2>3, OwingShrinks
<1>10. ASSUME NEW t \in Tx, LateInclusion(t) PROVE NoticesOK'
  <2>1. UNCHANGED <<notices, pc, cur>>
    BY <1>10 DEF LateInclusion, db, local
  <2>2. \A u \in Tx : landed[u] <= landed'[u]
    BY <1>0, <1>10 DEF TypeOK, LateInclusion, Include
  <2> QED
    BY <1>0, <2>1, <2>2, OwingShrinks
\* The transfer the process waits for is included: it owes a notification.
<1>11. ASSUME NEW p \in Procs, Confirmed(p) PROVE NoticesOK'
  <2> SUFFICES ASSUME NEW t \in Tx
               PROVE  /\ IsFiniteSet(Owing(t)')
                      /\ notices'[t] + Cardinality(Owing(t)') <= landed'[t]
    BY DEF NoticesOK
  <2>1. IsFiniteSet(Owing(t)) /\ notices[t] + Cardinality(Owing(t)) <= landed[t]
    BY DEF NoticesOK
  <2>2. Cardinality(Owing(t)) \in Nat
    BY <2>1, FS_CardinalityType
  <2>3. notices'[t] = notices[t] /\ notices[t] \in Nat /\ landed[t] \in Nat
    BY <1>0, <1>11 DEF TypeOK, Confirmed, db
  <2>4. CASE t = cur[p]
    <3>1. p \notin Owing(t) /\ Owing(t)' = Owing(t) \cup {p}
      BY <1>0, <1>11, <2>4 DEF TypeOK, Owing, Confirmed, Goto
    <3>2. landed'[t] = landed[t] + 1
      BY <1>0, <1>11, <2>4 DEF TypeOK, Confirmed, Include
    <3>3. IsFiniteSet(Owing(t)') /\ Cardinality(Owing(t)') = Cardinality(Owing(t)) + 1
      BY <2>1, <3>1, FS_AddElement
    <3> QED
      BY <2>1, <2>2, <2>3, <3>2, <3>3
  <2>5. CASE t # cur[p]
    <3>1. Owing(t)' = Owing(t)
      BY <1>0, <1>11, <2>5 DEF TypeOK, Owing, Confirmed, Goto
    <3>2. landed'[t] = landed[t]
      BY <1>0, <1>11, <2>5 DEF TypeOK, Confirmed, Include
    <3> QED
      BY <2>1, <2>3, <3>1, <3>2
  <2> QED
    BY <2>4, <2>5
\* The notification is created, and owed no longer.
<1>12. ASSUME NEW p \in Procs, Notify(p) PROVE NoticesOK'
  <2> SUFFICES ASSUME NEW t \in Tx
               PROVE  /\ IsFiniteSet(Owing(t)')
                      /\ notices'[t] + Cardinality(Owing(t)') <= landed'[t]
    BY DEF NoticesOK
  <2>1. IsFiniteSet(Owing(t)) /\ notices[t] + Cardinality(Owing(t)) <= landed[t]
    BY DEF NoticesOK
  <2>2. Cardinality(Owing(t)) \in Nat
    BY <2>1, FS_CardinalityType
  <2>3. /\ notices' = [notices EXCEPT ![cur[p]] = @ + 1] /\ landed' = landed
        /\ notices[t] \in Nat /\ landed[t] \in Nat
    BY <1>0, <1>12 DEF TypeOK, Notify, chain
  <2>4. Owing(t)' = Owing(t) \ {p}
    BY <1>0, <1>12 DEF TypeOK, Owing, Notify, NextRow, LoopOver, Goto
  <2>5. /\ IsFiniteSet(Owing(t)')
        /\ Cardinality(Owing(t)') = IF p \in Owing(t) THEN Cardinality(Owing(t)) - 1
                                                      ELSE Cardinality(Owing(t))
    BY <2>1, <2>4, FS_RemoveElement
  <2>6. p \in Owing(t) <=> t = cur[p]
    BY <1>12 DEF Owing, Notify
  <2>7. notices'[t] = IF t = cur[p] THEN notices[t] + 1 ELSE notices[t]
    BY <1>0, <2>3 DEF TypeOK
  <2> QED
    BY <2>1, <2>2, <2>3, <2>5, <2>6, <2>7
<1> QED
  BY <1>2, <1>3, <1>4, <1>5, <1>6, <1>7, <1>8, <1>9, <1>10, <1>11, <1>12
  DEF Next, LoopStep, SendStep, Procs

(* No receiver is told of more grants than the chain has included transfers,   *)
(* however many runs have the same row at hand and whatever they fail at.      *)
THEOREM NoticesAreBacked == Spec => []NoticesBacked
<1>1. Init => NoticesOK
  <2> SUFFICES ASSUME Init, NEW t \in Tx
               PROVE  IsFiniteSet(Owing(t)) /\ notices[t] + Cardinality(Owing(t)) <= landed[t]
    BY DEF NoticesOK
  <2>1. Owing(t) = {}
    BY DEF Init, Owing
  <2> QED
    BY <2>1, FS_EmptySet DEF Init
<1>2. IInv /\ NoticesOK => NoticesBacked
  <2> SUFFICES ASSUME IInv, NoticesOK, NEW t \in Tx PROVE notices[t] <= landed[t]
    BY DEF NoticesBacked
  <2>1. Cardinality(Owing(t)) \in Nat /\ notices[t] + Cardinality(Owing(t)) <= landed[t]
    BY FS_CardinalityType DEF NoticesOK
  <2> QED
    BY <2>1 DEF IInv, TypeOK
<1> QED
  BY <1>1, <1>2, InvHolds, NoticesStep, PTL DEF Spec

-----------------------------------------------------------------------------
(* How often a row is paid.  Runs that overlap can pay a row any number of    *)
(* times, and so can a run whose statement throws, since another one finds    *)
(* the row PROCESSING again.  Without both, a life of the process makes the   *)
(* attempts that MAX_RETRIES allows for a row and no more; and if what was    *)
(* given up never reaches the chain, only one of them counts.                 *)

RunsApart == \A r, q \in Runs : r # q => pc[r] = "idle" \/ pc[q] = "idle"

LostOnly == Fates \subseteq {"lost"}

(* Transfers of a row that one life of the process may leave on the chain.    *)
PerLife == IF LostOnly THEN 1 ELSE MaxRetries + 1

(* What the lives before may have left of each row.                           *)
Before == PerLife * crashes

(* The transfers of t that have moved tokens, or still may.                   *)
Out(t) == paid[t] + floating[t]

(* What p may have added to the row at hand.                                  *)
Spent(p) ==
  IF pc[p] = "fix" THEN PerLife
  ELSE IF LostOnly THEN 0
  ELSE IF pc[p] = "error" THEN PerLife ELSE tries[p]

(* The rows a process has still to settle. *)
InHand(p) == todo[p] \cup IF pc[p] \in {"send", "fix", "error"} THEN {cur[p]} ELSE {}

(* p may have sent a transfer of t that the row does not yet tell of.         *)
Paying(p, t) ==
  cur[p] = t /\ (pc[p] = "fix" \/ (~LostOnly /\ pc[p] \in {"send", "error"}))

(* A row that this life has paid says so, or a process is about to say it.    *)
PaidOK ==
  \A t \in Tx :
    /\ Out(t) <= Before + PerLife
    /\ Out(t) > Before =>
         \/ status[t] = "FIX"
         \/ ~LostOnly /\ status[t] = "ERROR"
         \/ \E p \in Procs : Paying(p, t)

(* This life has paid no row in hand but the one p is at; nobody else has it. *)
HandsOK ==
  \A p \in Procs :
    /\ \A t \in InHand(p) :
         /\ status[t] = IF p \in Runs THEN "PROCESSING" ELSE "NONE"
         /\ p \in Callers => t \in DirectTx
         /\ t # cur[p] => Out(t) <= Before
         /\ t = cur[p] => Out(t) <= Before + Spent(p)
    /\ \A q \in Procs : p # q => InHand(p) \cap InHand(q) = {}
    /\ cur[p] \notin todo[p]

(* What a process has where, and what a run has read is as it was.            *)
ReadOK ==
  \A p \in Procs :
    /\ p \in Callers => pc[p] \notin {"mark", "list", "notify"}
    /\ pc[p] # "mark" => ids[p] = {}
    /\ \A t \in ids[p] : status[t] = "READY"
    /\ pc[p] \in {"idle", "mark", "list"} => todo[p] = {}
    /\ pc[p] \in {"idle", "mark", "list", "loop"} => cur[p] = NoTx /\ tries[p] = 0

Bounded == PaidOK /\ HandsOK /\ ReadOK

LEMMA Numbers ==
  ASSUME TypeOK
  PROVE  /\ PerLife \in Nat /\ PerLife > 0 /\ Before \in Nat
         /\ \A p \in Procs : Spent(p) \in Nat /\ Spent(p) <= PerLife
         /\ \A t \in Tx : Out(t) \in Nat
<1>1. MaxRetries \in Nat /\ crashes \in Nat
  BY BoundsAssumption DEF TypeOK
<1>2. PerLife \in Nat /\ PerLife > 0
  BY <1>1 DEF PerLife
<1>3. Before \in Nat
  BY <1>1, <1>2 DEF Before
<1>4. \A p \in Procs : tries[p] \in Nat /\ tries[p] <= MaxRetries
  BY <1>1 DEF TypeOK
<1>5. ~LostOnly => PerLife = MaxRetries + 1
  BY DEF PerLife
<1>6. \A p \in Procs : Spent(p) \in Nat /\ Spent(p) <= PerLife
  BY <1>1, <1>2, <1>4, <1>5 DEF Spent
<1> QED
  BY <1>2, <1>3, <1>6 DEF Out, TypeOK

LEMMA BoundedInit == Init => Bounded
<1> SUFFICES ASSUME Init PROVE Bounded
  OBVIOUS
<1>1. \A t \in Tx : Out(t) = 0
  BY DEF Init, Out
<1>2. \A p \in Procs : InHand(p) = {}
  BY DEF Init, InHand
<1>3. PerLife \in Nat /\ Before \in Nat
  BY TypeInit, Numbers
<1>4. PaidOK
  BY <1>1, <1>3 DEF PaidOK
<1>5. HandsOK /\ ReadOK
  BY <1>2, TxAssumption DEF HandsOK, ReadOK, Init
<1> QED
  BY <1>4, <1>5 DEF Bounded

(* A step after which each row is paid as before. *)
LEMMA OutKept ==
  ASSUME UNCHANGED <<paid, floating, crashes>>
  PROVE  Before' = Before /\ \A t \in Tx : Out(t)' = Out(t)
  BY DEF Before, Out

(* Asking for grants, inserting their rows, leaving. *)
LEMMA BoundedGrants ==
  ASSUME IInv, Bounded,
         \/ \E t \in Tx : RequestGrant(t) \/ InsertReady(t)
         \/ \E m \in Member : Withdraw(m)
         \/ UNCHANGED vars
  PROVE  Bounded'
<1>1. CASE UNCHANGED <<status, local, paid, floating, crashes>>
  BY <1>1 DEF Bounded, PaidOK, HandsOK, ReadOK, InHand, Paying, Out, Before, Spent, local
<1>2. ASSUME NEW t \in Tx, InsertReady(t) PROVE Bounded'
  <2>1. /\ status' = [status EXCEPT ![t] = "READY"]
        /\ UNCHANGED <<local, paid, floating, crashes>>
        /\ status \in [Tx -> Statuses] /\ status[t] = "NONE" /\ t \notin DirectTx
    BY <1>2 DEF InsertReady, IInv, TypeOK, RowsOK, chain
  <2>2. \A p \in Procs : t \notin InHand(p) /\ t \notin ids[p]
    BY <2>1 DEF Bounded, HandsOK, ReadOK, Procs
  <2>3. \A p \in Procs : InHand(p)' = InHand(p) /\ InHand(p) \subseteq Tx /\ Spent(p)' = Spent(p)
    BY <2>1 DEF InHand, Spent, local, IInv, TypeOK, LocalsOK
  <2>4. Before' = Before /\ (\A u \in Tx : Out(u)' = Out(u))
    BY <2>1, OutKept
  <2>5. \A u \in Tx : \A p \in Procs : Paying(p, u)' = Paying(p, u)
    BY <2>1 DEF Paying, local
  <2>6. PaidOK'
    BY <2>1, <2>4, <2>5 DEF Bounded, PaidOK
  <2>7. HandsOK'
    BY <2>1, <2>2, <2>3, <2>4 DEF Bounded, HandsOK, local
  <2>8. ReadOK'
    BY <2>1, <2>2 DEF Bounded, ReadOK, local, IInv, TypeOK
  <2> QED
    BY <2>6, <2>7, <2>8 DEF Bounded
<1> QED
  BY <1>1, <1>2 DEF RequestGrant, Withdraw, vars, db, chain

(* A run that is alive is the only one. *)
LEMMA OthersRest ==
  ASSUME RunsApart, ReadOK, NEW r \in Runs, pc[r] # "idle"
  PROVE  \A q \in Runs : q # r => pc[q] = "idle" /\ InHand(q) = {} /\ ids[q] = {}
  BY DEF RunsApart, ReadOK, InHand, Procs

LEMMA BoundedStart ==
  ASSUME IInv, Bounded, RunsApart, NEW r \in Runs, FindReady(r) \/ FixTokenStart(r)
  PROVE  Bounded'
<1> USE ProcsAssumption
<1>0. r \in Procs /\ PaidOK /\ HandsOK /\ ReadOK
  BY DEF Procs, Bounded
<1>1. /\ pc \in [Procs -> {"idle", "mark", "list", "loop", "send", "fix", "notify", "error"}]
      /\ ids \in [Procs -> SUBSET Tx] /\ todo \in [Procs -> SUBSET Tx]
      /\ status \in [Tx -> Statuses]
  BY DEF IInv, TypeOK
<1>2. \A p \in Procs : InHand(p) \subseteq Tx
  BY <1>1 DEF InHand, IInv, LocalsOK
<1>a. UNCHANGED <<cur, tries, paid, floating, crashes>>
  BY DEF FindReady, FixTokenStart, MarkProcessing, FindProcessing, LoopOver, db, chain
<1>b. Before' = Before /\ \A t \in Tx : Out(t)' = Out(t)
  BY <1>a, OutKept
<1>c. /\ pc[r] \in {"idle", "mark", "list"} /\ pc'[r] \in {"idle", "mark", "list", "loop"}
      /\ \A p \in Procs : p # r => pc'[p] = pc[p]
  BY <1>0, <1>1 DEF FindReady, FixTokenStart, MarkProcessing, FindProcessing, LoopOver, Goto
<1>d. /\ \A p \in Procs : Spent(p)' = Spent(p)
      /\ \A p \in Procs, t \in Tx : Paying(p, t)' = Paying(p, t)
  BY <1>0, <1>a, <1>c, TxAssumption DEF Spent, Paying, ReadOK
<1>3. CASE FindReady(r)
  <2>1. /\ pc[r] = "idle" /\ pc' = [pc EXCEPT ![r] = "mark"]
        /\ ids' = [ids EXCEPT ![r] = RowsIn("READY")]
        /\ UNCHANGED <<todo, status>>
    BY <1>3 DEF FindReady, Goto, db
  <2>2. \A p \in Procs : InHand(p)' = InHand(p)
    BY <1>0, <1>1, <1>a, <2>1 DEF InHand
  <2>3. PaidOK'
    BY <1>0, <1>b, <1>d, <2>1 DEF PaidOK
  <2>4. HandsOK'
    BY <1>0, <1>2, <1>a, <1>b, <1>d, <2>1, <2>2 DEF HandsOK
  <2>5. ReadOK'
    BY <1>0, <1>1, <1>a, <2>1 DEF ReadOK, RowsIn
  <2> QED
    BY <2>3, <2>4, <2>5 DEF Bounded
<1>4. CASE MarkProcessing(r)
  <2>1. /\ pc[r] = "mark" /\ pc' = [pc EXCEPT ![r] = "list"]
        /\ ids' = [ids EXCEPT ![r] = {}]
        /\ status' = [t \in Tx |-> IF t \in ids[r] THEN "PROCESSING" ELSE status[t]]
        /\ UNCHANGED todo
    BY <1>4 DEF MarkProcessing, Goto
  <2>2. \A p \in Procs : InHand(p)' = InHand(p)
    BY <1>0, <1>1, <1>a, <2>1 DEF InHand
  <2>3. \A t \in ids[r] : status[t] = "READY"
    BY <1>0 DEF ReadOK
  <2>4. \A p \in Procs : \A t \in InHand(p) : t \notin ids[r] /\ status'[t] = status[t]
    BY <1>0, <1>2, <2>1, <2>3 DEF HandsOK
  <2>5. PaidOK'
    BY <1>0, <1>b, <1>d, <2>1, <2>3 DEF PaidOK
  <2>6. HandsOK'
    BY <1>0, <1>2, <1>a, <1>b, <1>d, <2>1, <2>2, <2>4 DEF HandsOK
  <2>7. ReadOK'
    <3>1. \A q \in Procs : q # r => ids[q] = {} \/ q \notin Runs
      BY <1>0, <2>1, OthersRest
    <3>2. \A q \in Procs : \A t \in ids[q] : status[t] = "READY" /\ t \in Tx
      BY <1>0, <1>1 DEF ReadOK
    <3>3. \A q \in Callers : pc[q] # "mark"
      BY <1>0 DEF ReadOK, Procs
    <3> QED
      BY <1>0, <1>1, <1>a, <2>1, <3>1, <3>2, <3>3 DEF ReadOK, Procs
  <2> QED
    BY <2>5, <2>6, <2>7 DEF Bounded
<1>5. CASE FindProcessing(r)
  <2> DEFINE S == RowsIn("PROCESSING")
  <2>1. /\ pc[r] = "list" /\ pc' = [pc EXCEPT ![r] = IF S = {} THEN "idle" ELSE "loop"]
        /\ todo' = [todo EXCEPT ![r] = S]
        /\ UNCHANGED <<ids, status>>
    BY <1>5 DEF FindProcessing, LoopOver, Goto, db
  <2>2. \A p \in Procs : p # r => InHand(p)' = InHand(p)
    BY <1>0, <1>1, <1>a, <2>1 DEF InHand
  <2>3. InHand(r)' = S
    BY <1>0, <1>1, <2>1 DEF InHand
  <2>4. \A p \in Procs : p # r => InHand(p) \cap S = {}
    <3>1. \A q \in Runs : q # r => InHand(q) = {}
      BY <1>0, <2>1, OthersRest
    <3>2. \A q \in Procs : q \notin Runs => \A t \in InHand(q) : status[t] = "NONE"
      BY <1>0 DEF HandsOK
    <3> QED
      BY <3>1, <3>2 DEF RowsIn
  <2>5. \A t \in S : t \in Tx /\ status[t] = "PROCESSING" /\ Out(t) <= Before
    <3> SUFFICES ASSUME NEW t \in S PROVE Out(t) <= Before
      BY DEF RowsIn
    <3>1. t \in Tx /\ status[t] = "PROCESSING" /\ Out(t) \in Nat /\ Before \in Nat
      BY Numbers DEF RowsIn, IInv
    <3>2. ASSUME NEW p \in Procs, Paying(p, t) PROVE FALSE
      <4>1. t \in InHand(p) /\ p # r
        BY <2>1, <3>2 DEF InHand, Paying
      <4> QED
        BY <2>4, <4>1
    <3> QED
      BY <1>0, <3>1, <3>2 DEF PaidOK
  <2>6. PaidOK'
    BY <1>0, <1>b, <1>d, <2>1 DEF PaidOK
  <2>7. cur[r] \notin S
    BY <1>0, <2>1, <2>5, TxAssumption DEF ReadOK
  <2>8. HandsOK'
    BY <1>0, <1>1, <1>2, <1>a, <1>b, <1>d, <2>1, <2>2, <2>3, <2>4, <2>5, <2>7 DEF HandsOK
  <2>9. ReadOK'
    BY <1>0, <1>1, <1>a, <2>1 DEF ReadOK
  <2> QED
    BY <2>6, <2>8, <2>9 DEF Bounded
<1> QED
  BY <1>3, <1>4, <1>5 DEF FixTokenStart

LEMMA BoundedCall ==
  ASSUME IInv, Bounded, NEW c \in Callers, NEW S \in SUBSET DirectTx, CallGiveToken(c, S)
  PROVE  Bounded'
<1> USE ProcsAssumption, TxAssumption
<1> DEFINE T == {t \in S : Receiver[t] \in available}
<1>0. c \in Procs /\ PaidOK /\ HandsOK /\ ReadOK
  BY DEF Procs, Bounded
<1>1. /\ pc \in [Procs -> {"idle", "mark", "list", "loop", "send", "fix", "notify", "error"}]
      /\ todo \in [Procs -> SUBSET Tx]
  BY DEF IInv, TypeOK
<1>2. /\ pc[c] = "idle" /\ pc' = [pc EXCEPT ![c] = IF T = {} THEN "idle" ELSE "loop"]
      /\ todo' = [todo EXCEPT ![c] = T]
      /\ UNCHANGED <<ids, cur, tries, status, paid, floating, crashes>>
      /\ S \subseteq DirectTx \ asked
  BY DEF CallGiveToken, LoopOver, Goto, db, chain
<1>a. Before' = Before /\ \A t \in Tx : Out(t)' = Out(t)
  BY <1>2, OutKept
<1>b. /\ \A p \in Procs : Spent(p)' = Spent(p)
      /\ \A p \in Procs, t \in Tx : Paying(p, t)' = Paying(p, t)
  BY <1>0, <1>1, <1>2 DEF Spent, Paying, ReadOK
<1>3. \A p \in Procs : p # c => InHand(p)' = InHand(p)
  BY <1>0, <1>1, <1>2 DEF InHand
<1>4. InHand(c)' = T
  BY <1>0, <1>1, <1>2 DEF InHand
<1>5. \A p \in Procs : InHand(p) \subseteq asked /\ InHand(p) \subseteq Tx
  BY <1>1 DEF InHand, IInv, LocalsOK, Taken
<1>6. \A t \in T : t \in Tx /\ t \in DirectTx /\ status[t] = "NONE" /\ Out(t) <= Before
  <2> SUFFICES ASSUME NEW t \in T
               PROVE  t \in Tx /\ t \in DirectTx /\ status[t] = "NONE" /\ Out(t) <= Before
    OBVIOUS
  <2>1. t \in Tx /\ t \in DirectTx /\ t \notin asked /\ status[t] = "NONE"
    BY <1>2 DEF IInv, RowsOK
  <2>2. ASSUME NEW p \in Procs, Paying(p, t) PROVE FALSE
    <3>1. t \in InHand(p)
      BY <2>2 DEF Paying, InHand
    <3> QED
      BY <1>5, <2>1, <3>1
  <2>3. Out(t) \in Nat /\ Before \in Nat
    BY <2>1, Numbers DEF IInv
  <2> QED
    BY <1>0, <2>1, <2>2, <2>3 DEF PaidOK
<1>7. PaidOK'
  BY <1>0, <1>2, <1>a, <1>b DEF PaidOK
<1>8. HandsOK'
  <2>1. \A p \in Procs : p # c => InHand(p) \cap T = {}
    BY <1>2, <1>5
  <2>2. cur[c] \notin T
    BY <1>0, <1>2, <1>6 DEF ReadOK
  <2> QED
    BY <1>0, <1>1, <1>2, <1>3, <1>4, <1>5, <1>6, <1>a, <1>b, <2>1, <2>2 DEF HandsOK
<1>9. ReadOK'
  BY <1>0, <1>1, <1>2 DEF ReadOK
<1> QED
  BY <1>7, <1>8, <1>9 DEF Bounded

(* A process goes on with its loop. *)
LEMMA BoundedPick ==
  ASSUME IInv, Bounded, NEW p \in Procs, PickRow(p)
  PROVE  Bounded'
<1> USE ProcsAssumption, TxAssumption
<1>0. PaidOK /\ HandsOK /\ ReadOK
  BY DEF Bounded
<1>1. /\ pc \in [Procs -> {"idle", "mark", "list", "loop", "send", "fix", "notify", "error"}]
      /\ todo \in [Procs -> SUBSET Tx] /\ cur \in [Procs -> Tx \cup {NoTx}]
  BY DEF IInv, TypeOK
<1>2. UNCHANGED <<ids, tries, status, paid, floating, crashes>> /\ pc[p] = "loop"
  BY DEF PickRow, db, chain
<1>3. PICK t \in todo[p] :
        \/ /\ cur' = [cur EXCEPT ![p] = t]
           /\ todo' = [todo EXCEPT ![p] = @ \ {t}]
           /\ pc' = [pc EXCEPT ![p] = "send"]
        \/ /\ todo' = [todo EXCEPT ![p] = todo[p] \ {t}]
           /\ pc' = [pc EXCEPT ![p] = IF todo[p] \ {t} = {} THEN "idle" ELSE "loop"]
           /\ UNCHANGED cur
  BY DEF PickRow, LoopOver, Goto
<1>4. Before' = Before /\ \A u \in Tx : Out(u)' = Out(u)
  BY <1>2, OutKept
<1>5. \A q \in Procs : q # p => pc'[q] = pc[q] /\ cur'[q] = cur[q] /\ todo'[q] = todo[q]
  BY <1>1, <1>3
<1>6. \A q \in Procs : q # p => InHand(q)' = InHand(q) /\ Spent(q)' = Spent(q)
  BY <1>2, <1>5 DEF InHand, Spent
<1>7. /\ InHand(p)' \subseteq todo[p] /\ cur'[p] \notin todo'[p]
      /\ tries[p] = 0 /\ todo[p] \subseteq InHand(p) /\ InHand(p) \subseteq Tx
      /\ pc'[p] \in {"idle", "loop"} => cur'[p] = NoTx
      /\ pc'[p] = "idle" => todo'[p] = {}
      /\ pc'[p] \in {"idle", "loop", "send"}
  BY <1>0, <1>1, <1>2, <1>3 DEF InHand, HandsOK, ReadOK
<1>8. \A u \in todo[p] : u \in Tx /\ Out(u) <= Before
  BY <1>0, <1>7 DEF HandsOK
<1>9. Spent(p)' = 0
  BY <1>2, <1>7 DEF Spent
<1>10. PaidOK'
  <2>1. \A u \in Tx : \A q \in Procs : Paying(q, u) => Paying(q, u)'
    BY <1>0, <1>2, <1>5 DEF Paying, ReadOK
  <2> QED
    BY <1>0, <1>2, <1>4, <2>1 DEF PaidOK
<1>11. HandsOK'
  <2>1. \A q \in Procs : InHand(q) \subseteq Tx
    BY <1>1 DEF InHand, IInv, LocalsOK
  <2>2. Before \in Nat
    BY Numbers DEF IInv
  <2>3. \A u \in InHand(p)' : Out(u)' <= Before' /\ Out(u)' <= Before' + Spent(p)'
    <3> SUFFICES ASSUME NEW u \in InHand(p)'
                 PROVE  Out(u)' <= Before' /\ Out(u)' <= Before' + Spent(p)'
      OBVIOUS
    <3>1. u \in Tx /\ Out(u)' = Out(u) /\ Out(u) <= Before
      BY <1>4, <1>7, <1>8
    <3> QED
      BY <1>4, <1>9, <2>2, <3>1
  <2> QED
    BY <1>0, <1>2, <1>4, <1>5, <1>6, <1>7, <2>1, <2>3 DEF HandsOK
<1>12. ReadOK'
  BY <1>0, <1>2, <1>5, <1>7 DEF ReadOK
<1> QED
  BY <1>10, <1>11, <1>12 DEF Bounded

(* An attempt to send the row at hand: it adds a transfer, or none, and what  *)
(* the process may have spent grows with it.                                  *)
LEMMA BoundedAttempt ==
  ASSUME IInv, Bounded, TypeOK', NEW p \in Procs,
         PrepareFails(p) \/ NotConfirmed(p) \/ Confirmed(p)
  PROVE  Bounded'
<1> USE ProcsAssumption, TxAssumption
<1>0. PaidOK /\ HandsOK /\ ReadOK
  BY DEF Bounded
<1>1. /\ pc \in [Procs -> {"idle", "mark", "list", "loop", "send", "fix", "notify", "error"}]
      /\ tries \in [Procs -> 0..MaxRetries] /\ MaxRetries \in Nat
      /\ paid \in [Tx -> Nat] /\ floating \in [Tx -> Nat]
  BY BoundsAssumption DEF IInv, TypeOK
<1>2. pc[p] = "send" /\ UNCHANGED <<ids, todo, cur, status, crashes>>
  BY DEF PrepareFails, NotConfirmed, Confirmed, db
<1>3. /\ cur[p] \in Tx /\ cur[p] \in InHand(p)
      /\ \A q \in Procs : InHand(q) \subseteq Tx
  BY <1>1, <1>2 DEF IInv, TypeOK, LocalsOK, InHand
<1>4. /\ Before' = Before /\ Before \in Nat /\ PerLife \in Nat
      /\ Spent(p) \in Nat /\ \A t \in Tx : Out(t) \in Nat
  BY <1>2, Numbers DEF IInv, Before
<1>5. \A t \in Tx : t # cur[p] => Out(t)' = Out(t)
  BY <1>1, <1>3
  DEF PrepareFails, NotConfirmed, Confirmed, Abandon, Include, Out, chain
<1>6. \A t \in Tx : t = cur[p] => Out(t)' <= Before + Spent(p)'
  <2> SUFFICES ASSUME NEW t \in Tx, t = cur[p] PROVE Out(t)' <= Before + Spent(p)'
    OBVIOUS
  <2>1. Out(t) <= Before + Spent(p)
    BY <1>0, <1>3 DEF HandsOK
  <2>2. Out(t)' = Out(t) \/ Out(t)' = Out(t) + 1
    BY <1>1, <1>3
    DEF PrepareFails, NotConfirmed, Confirmed, Abandon, Include, Out, chain
  <2>3. CASE Confirmed(p)
    <3>1. Spent(p) + 1 <= PerLife
      BY <1>1, <1>2, <2>3 DEF Spent, PerLife
    <3>2. Spent(p)' = PerLife
      BY <1>1, <2>3 DEF Confirmed, Goto, Spent
    <3> QED
      BY <1>3, <1>4, <2>1, <2>2, <3>1, <3>2
  <2>4. CASE PrepareFails(p)
    <3>1. Out(t)' = Out(t)
      BY <2>4 DEF PrepareFails, Out, chain
    <3>2. Spent(p) = 0 /\ Spent(p)' \in Nat
      BY <1>1, <1>2, <1>4, <2>4 DEF PrepareFails, Goto, Spent
    <3> QED
      BY <1>3, <1>4, <2>1, <3>1, <3>2
  <2>5. CASE NotConfirmed(p) /\ LostOnly
    <3>1. Out(t)' = Out(t)
      BY <2>5 DEF NotConfirmed, Abandon, LostOnly, Out, chain
    <3>2. Spent(p) = 0 /\ Spent(p)' = 0
      BY <1>1, <1>2, <2>5 DEF NotConfirmed, Goto, Spent
    <3> QED
      BY <1>3, <1>4, <2>1, <3>1, <3>2
  <2>6. CASE NotConfirmed(p) /\ ~LostOnly
    <3>1. Spent(p) = tries[p] /\ PerLife = MaxRetries + 1
      BY <1>2, <2>6 DEF Spent, PerLife
    <3>2. CASE tries[p] < MaxRetries
      <4>1. tries'[p] = tries[p] + 1 /\ pc' = pc
        BY <1>1, <2>6, <3>2 DEF NotConfirmed
      <4>2. Spent(p)' = tries[p] + 1
        BY <1>2, <2>6, <4>1 DEF Spent
      <4> QED
        BY <1>3, <1>4, <2>1, <2>2, <3>1, <4>2
    <3>3. CASE ~(tries[p] < MaxRetries)
      <4>1. tries[p] = MaxRetries /\ pc'[p] = "error"
        BY <1>1, <2>6, <3>3 DEF NotConfirmed, Goto
      <4>2. Spent(p)' = PerLife
        BY <2>6, <4>1 DEF Spent
      <4> QED
        BY <1>1, <1>3, <1>4, <2>1, <2>2, <3>1, <4>1, <4>2
    <3> QED
      BY <3>2, <3>3
  <2> QED
    BY <2>3, <2>4, <2>5, <2>6
<1>7. /\ pc'[p] \in {"send", "fix", "error"}
      /\ \A q \in Procs : q # p => pc'[q] = pc[q] /\ tries'[q] = tries[q]
      /\ LostOnly /\ pc'[p] # "fix" => Spent(p)' = 0
      /\ Spent(p)' <= PerLife
  <2>1. /\ pc'[p] \in {"send", "fix", "error"}
        /\ \A q \in Procs : q # p => pc'[q] = pc[q] /\ tries'[q] = tries[q]
        /\ tries'[p] \in 0..MaxRetries
    BY <1>1, <1>2 DEF PrepareFails, NotConfirmed, Confirmed, Goto
  <2> QED
    BY <1>1, <2>1 DEF Spent, PerLife
<1>8. \A q \in Procs : InHand(q)' = InHand(q) /\ (q # p => Spent(q)' = Spent(q))
  BY <1>2, <1>7 DEF InHand, Spent
<1>a. Spent(p)' \in Nat /\ \A t \in Tx : Out(t)' \in Nat
  BY <1>1, <1>4 DEF Spent, Out, TypeOK
<1>9. \A q \in Procs : q # p => cur[p] \notin InHand(q)
  BY <1>0, <1>3 DEF HandsOK
<1>10. PaidOK'
  <2> SUFFICES ASSUME NEW t \in Tx
               PROVE  /\ Out(t)' <= Before' + PerLife
                      /\ Out(t)' > Before' =>
                           \/ status'[t] = "FIX"
                           \/ ~LostOnly /\ status'[t] = "ERROR"
                           \/ \E q \in Procs : Paying(q, t)'
    BY DEF PaidOK
  <2>1. CASE t = cur[p]
    <3>1. Out(t)' <= Before + Spent(p)' /\ Spent(p)' <= PerLife
      BY <1>6, <1>7, <2>1
    <3>2. Spent(p)' \in Nat
      BY <1>a
    <3>3. Out(t)' \in Nat
      BY <1>a
    <3>4. Out(t)' > Before => Paying(p, t)'
      <4>1. Out(t)' > Before => Spent(p)' # 0
        BY <1>4, <3>1, <3>2, <3>3
      <4> QED
        BY <1>2, <1>7, <2>1, <4>1 DEF Paying
    <3> QED
      BY <1>4, <3>1, <3>2, <3>3, <3>4
  <2>2. CASE t # cur[p]
    <3>1. \A q \in Procs : Paying(q, t) => Paying(q, t)'
      BY <1>2, <1>7, <2>2 DEF Paying
    <3> QED
      BY <1>0, <1>2, <1>4, <1>5, <2>2, <3>1 DEF PaidOK
  <2> QED
    BY <2>1, <2>2
<1>11. HandsOK'
  <2>1. ASSUME NEW q \in Procs, NEW t \in InHand(q)
        PROVE  /\ t # cur[q] => Out(t)' <= Before
               /\ t = cur[q] => Out(t)' <= Before + Spent(q)'
    <3>1. CASE t = cur[p]
      BY <1>3, <1>6, <1>9, <2>1, <3>1
    <3>2. CASE t # cur[p]
      <4>1. Out(t)' = Out(t)
        BY <1>3, <1>5, <2>1, <3>2
      <4>2. q = p => t # cur[q]
        BY <3>2
      <4> QED
        BY <1>0, <1>8, <2>1, <4>1, <4>2 DEF HandsOK
    <3> QED
      BY <3>1, <3>2
  <2> QED
    BY <1>0, <1>2, <1>4, <1>8, <2>1 DEF HandsOK
<1>12. ReadOK'
  BY <1>0, <1>2, <1>7 DEF ReadOK
<1> QED
  BY <1>10, <1>11, <1>12 DEF Bounded

(* The outcome is recorded: the row is not in hand any more.                 *)
LEMMA BoundedRecord ==
  ASSUME IInv, Bounded, NEW p \in Procs, RecordFix(p) \/ RecordError(p)
  PROVE  Bounded'
<1> USE ProcsAssumption, TxAssumption
<1>0. PaidOK /\ HandsOK /\ ReadOK
  BY DEF Bounded
<1>1. /\ pc \in [Procs -> {"idle", "mark", "list", "loop", "send", "fix", "notify", "error"}]
      /\ todo \in [Procs -> SUBSET Tx] /\ cur \in [Procs -> Tx \cup {NoTx}]
      /\ tries \in [Procs -> 0..MaxRetries] /\ status \in [Tx -> Statuses]
  BY DEF IInv, TypeOK
<1>2. PICK s \in {"FIX", "ERROR"} :
        /\ status' = [status EXCEPT ![cur[p]] = s]
        /\ UNCHANGED <<ids, paid, floating, crashes>>
        /\ IF s = "ERROR" THEN pc[p] = "error" ELSE pc[p] = "fix"
  BY DEF RecordFix, RecordError, NextRow, chain
<1>3. /\ cur[p] \in Tx /\ cur[p] \in InHand(p)
      /\ \A q \in Procs : InHand(q) \subseteq Tx
  BY <1>1, <1>2 DEF IInv, LocalsOK, InHand
<1>4. \A q \in Procs : q # p =>
        pc'[q] = pc[q] /\ cur'[q] = cur[q] /\ todo'[q] = todo[q] /\ tries'[q] = tries[q]
  BY <1>1 DEF RecordFix, RecordError, NextRow, LoopOver, Goto
<1>5. /\ pc'[p] \in {"notify", "idle", "loop"} /\ todo'[p] = todo[p]
      /\ pc'[p] = "notify" => p \in Runs /\ cur'[p] = cur[p]
      /\ pc'[p] # "notify" => cur'[p] = NoTx /\ tries'[p] = 0
      /\ pc'[p] = "idle" => todo'[p] = {}
  BY <1>1 DEF RecordFix, RecordError, NextRow, LoopOver, Goto
<1>6. \A q \in Procs : q # p =>
        InHand(q)' = InHand(q) /\ cur[p] \notin InHand(q) /\ Spent(q)' = Spent(q)
  BY <1>0, <1>3, <1>4 DEF InHand, HandsOK, Spent
<1>7. /\ InHand(p)' = todo[p] /\ todo[p] \subseteq InHand(p)
      /\ cur[p] \notin InHand(p)' /\ cur'[p] \notin todo[p]
  BY <1>0, <1>1, <1>5 DEF InHand, HandsOK
<1>8. \A q \in Procs : \A t \in ids[q] : t # cur[p] /\ status[t] = "READY"
  <2>1. status[cur[p]] # "READY"
    BY <1>0, <1>3 DEF HandsOK
  <2> QED
    BY <1>0, <2>1 DEF ReadOK
<1>9. /\ Before' = Before /\ \A t \in Tx : Out(t)' = Out(t)
      /\ Before \in Nat /\ PerLife \in Nat /\ Spent(p) \in Nat /\ Spent(p) <= PerLife
      /\ \A t \in Tx : Out(t) \in Nat
  BY <1>2, OutKept, Numbers DEF IInv
<1>10. PaidOK'
  <2> SUFFICES ASSUME NEW t \in Tx
               PROVE  /\ Out(t)' <= Before' + PerLife
                      /\ Out(t)' > Before' =>
                           \/ status'[t] = "FIX"
                           \/ ~LostOnly /\ status'[t] = "ERROR"
                           \/ \E q \in Procs : Paying(q, t)'
    BY DEF PaidOK
  <2>1. CASE t = cur[p]
    <3>1. Out(t) <= Before + Spent(p)
      BY <1>0, <1>3, <2>1 DEF HandsOK
    <3>2. status'[t] = "FIX" \/ (status'[t] = "ERROR" /\ pc[p] = "error")
      BY <1>1, <1>2, <2>1
    <3>3. LostOnly /\ pc[p] = "error" => Spent(p) = 0
      BY DEF Spent
    <3> QED
      BY <1>9, <3>1, <3>2, <3>3
  <2>2. CASE t # cur[p]
    <3>1. \A q \in Procs : Paying(q, t) => Paying(q, t)'
      BY <1>4, <2>2 DEF Paying
    <3>2. status'[t] = status[t]
      BY <1>1, <1>2, <2>2
    <3> QED
      BY <1>0, <1>9, <3>1, <3>2 DEF PaidOK
  <2> QED
    BY <2>1, <2>2
<1>11. HandsOK'
  <2>1. ASSUME NEW q \in Procs, NEW t \in InHand(q)'
        PROVE  /\ t \in InHand(q) /\ t # cur[p] /\ status'[t] = status[t]
               /\ q = p => t # cur'[p] /\ Out(t)' <= Before
               /\ Out(t)' = Out(t)
    <3>1. t \in InHand(q) /\ t # cur[p] /\ t \in Tx
      BY <1>3, <1>6, <1>7, <2>1
    <3>2. q = p => t \in todo[p] /\ t # cur'[p]
      BY <1>7, <2>1
    <3>3. status'[t] = status[t] /\ Out(t)' = Out(t)
      BY <1>1, <1>2, <1>9, <3>1
    <3>4. q = p => Out(t)' <= Before
      BY <1>0, <3>1, <3>3 DEF HandsOK
    <3> QED
      BY <3>1, <3>2, <3>3, <3>4
  <2>2. \A q \in Procs : cur'[q] \notin todo'[q]
    BY <1>0, <1>4, <1>5, <1>7 DEF HandsOK
  <2>3. \A q \in Procs : InHand(q)' \subseteq InHand(q)
    BY <2>1
  <2>4. ASSUME NEW q \in Procs, NEW t \in InHand(q)'
        PROVE  /\ status'[t] = IF q \in Runs THEN "PROCESSING" ELSE "NONE"
               /\ q \in Callers => t \in DirectTx
               /\ t # cur'[q] => Out(t)' <= Before'
               /\ t = cur'[q] => Out(t)' <= Before' + Spent(q)'
    <3>1. CASE q = p
      BY <1>0, <1>9, <2>1, <2>4, <3>1 DEF HandsOK
    <3>2. CASE q # p
      BY <1>0, <1>4, <1>6, <1>9, <2>1, <2>4, <3>2 DEF HandsOK
    <3> QED
      BY <3>1, <3>2
  <2> QED
    BY <1>0, <2>2, <2>3, <2>4 DEF HandsOK
<1>12. ReadOK'
  BY <1>0, <1>1, <1>2, <1>4, <1>5, <1>8 DEF ReadOK
<1> QED
  BY <1>10, <1>11, <1>12 DEF Bounded

LEMMA BoundedNotify ==
  ASSUME IInv, Bounded, NEW p \in Procs, Notify(p)
  PROVE  Bounded'
<1> USE TxAssumption
<1>0. PaidOK /\ HandsOK /\ ReadOK
  BY DEF Bounded
<1>1. /\ pc \in [Procs -> {"idle", "mark", "list", "loop", "send", "fix", "notify", "error"}]
      /\ todo \in [Procs -> SUBSET Tx] /\ cur \in [Procs -> Tx \cup {NoTx}]
      /\ tries \in [Procs -> 0..MaxRetries]
  BY DEF IInv, TypeOK
<1>2. /\ pc[p] = "notify" /\ UNCHANGED <<ids, status, paid, floating, crashes>>
      /\ pc' = [pc EXCEPT ![p] = IF todo[p] = {} THEN "idle" ELSE "loop"]
      /\ cur' = [cur EXCEPT ![p] = NoTx] /\ todo' = todo
      /\ tries' = [tries EXCEPT ![p] = 0]
  BY <1>1 DEF Notify, NextRow, LoopOver, Goto, chain
<1>3. \A q \in Procs : InHand(q)' = InHand(q)
  BY <1>1, <1>2 DEF InHand
<1>4. Before' = Before /\ (\A t \in Tx : Out(t)' = Out(t)) /\ \A q \in Procs : InHand(q) \subseteq Tx
  BY <1>1, <1>2, OutKept DEF InHand, IInv, LocalsOK
<1>5. \A q \in Procs : q # p => Spent(q)' = Spent(q) /\ cur'[q] = cur[q] /\ pc'[q] = pc[q]
  BY <1>1, <1>2 DEF Spent
<1>6. \A q \in Procs, t \in Tx : Paying(q, t) => Paying(q, t)'
  BY <1>1, <1>2, <1>5 DEF Paying
<1>7. PaidOK'
  BY <1>0, <1>2, <1>4, <1>6 DEF PaidOK
<1>8. HandsOK'
  <2>1. /\ cur'[p] = NoTx /\ NoTx \notin InHand(p)
        /\ \A t \in InHand(p) : t # cur[p]
    BY <1>0, <1>1, <1>2, <1>4 DEF InHand, HandsOK
  <2> QED
    BY <1>0, <1>1, <1>2, <1>3, <1>4, <1>5, <2>1 DEF HandsOK
<1>9. ReadOK'
  BY <1>0, <1>1, <1>2 DEF ReadOK
<1> QED
  BY <1>7, <1>8, <1>9 DEF Bounded

(* The process dies: what this life has paid is what the lives before have.  *)
LEMMA BoundedCrash ==
  ASSUME IInv, Bounded, Crash
  PROVE  Bounded'
<1> USE TxAssumption
<1>0. PaidOK
  BY DEF Bounded
<1>1. Before \in Nat /\ PerLife \in Nat /\ \A t \in Tx : Out(t) \in Nat /\ Out(t)' = Out(t)
  BY Numbers DEF IInv, Crash, chain, Out
<1>2. Before' = Before + PerLife
  <2>1. crashes \in Nat /\ crashes' = crashes + 1
    BY BoundsAssumption DEF IInv, TypeOK, Crash
  <2> QED
    BY <1>1, <2>1 DEF Before
<1>3. \A p \in Procs : /\ pc'[p] = "idle" /\ ids'[p] = {} /\ todo'[p] = {}
                       /\ cur'[p] = NoTx /\ tries'[p] = 0
  BY DEF Crash, Reset
<1>4. \A p \in Procs : InHand(p)' = {}
  BY <1>3 DEF InHand
<1>5. PaidOK'
  BY <1>0, <1>1, <1>2 DEF PaidOK
<1>6. HandsOK' /\ ReadOK'
  BY <1>3, <1>4 DEF HandsOK, ReadOK
<1> QED
  BY <1>5, <1>6 DEF Bounded

(* What the chain does later adds nothing that has not been counted.          *)
LEMMA BoundedChain ==
  ASSUME IInv, Bounded, NEW u \in Tx, LateInclusion(u) \/ Expire(u)
  PROVE  Bounded'
<1>0. PaidOK /\ HandsOK /\ ReadOK
  BY DEF Bounded
<1>1. paid \in [Tx -> Nat] /\ floating \in [Tx -> Nat]
  BY DEF IInv, TypeOK
<1>2. UNCHANGED <<status, local, crashes>>
  BY DEF LateInclusion, Expire, db
<1>3. floating[u] > 0 /\ floating' = [floating EXCEPT ![u] = @ - 1]
      /\ (paid' = paid \/ paid' = [paid EXCEPT ![u] = @ + 1])
  BY DEF LateInclusion, Expire, Include
<1>4. \A t \in Tx : Out(t)' \in Nat /\ Out(t)' <= Out(t)
  BY <1>1, <1>3 DEF Out
<1>5. /\ Before' = Before /\ Before \in Nat /\ PerLife \in Nat
      /\ \A p \in Procs : Spent(p) \in Nat
      /\ \A t \in Tx : Out(t) \in Nat
  BY <1>2, Numbers DEF IInv, Before
<1>6. \A p \in Procs : InHand(p)' = InHand(p) /\ InHand(p) \subseteq Tx /\ Spent(p)' = Spent(p)
  BY <1>2 DEF InHand, Spent, local, IInv, TypeOK, LocalsOK
<1>7. \A p \in Procs, t \in Tx : Paying(p, t)' = Paying(p, t)
  BY <1>2 DEF Paying, local
<1>8. PaidOK'
  BY <1>0, <1>2, <1>4, <1>5, <1>7 DEF PaidOK
<1>9. HandsOK'
  <2>1. ASSUME NEW p \in Procs, NEW t \in InHand(p)
        PROVE  /\ t # cur[p] => Out(t)' <= Before
               /\ t = cur[p] => Out(t)' <= Before + Spent(p)
    <3>1. t \in Tx
      BY <1>6, <2>1
    <3> QED
      BY <1>0, <1>4, <1>5, <2>1, <3>1 DEF HandsOK
  <2> QED
    BY <1>0, <1>2, <1>5, <1>6, <2>1 DEF HandsOK, local
<1>10. ReadOK'
  BY <1>0, <1>2 DEF ReadOK, local
<1> QED
  BY <1>8, <1>9, <1>10 DEF Bounded

LEMMA BoundedStep ==
  ASSUME ~DbMayFail
  PROVE  IInv /\ RunsApart /\ Bounded /\ [Next]_vars => Bounded'
<1> SUFFICES ASSUME IInv, RunsApart, Bounded, [Next]_vars PROVE Bounded'
  OBVIOUS
<1>1. /\ \A t \in Tx : ~InsertReadyFails(t)
      /\ \A p \in Procs : ~RunFails(p) /\ ~CaughtDbFailure(p)
  BY DEF InsertReadyFails, RunFails, CaughtDbFailure
<1>2. TypeOK'
  BY TypeStep DEF IInv
<1> QED
  BY <1>1, <1>2, BoundedGrants, BoundedStart, BoundedCall, BoundedPick, BoundedAttempt,
     BoundedRecord, BoundedNotify, BoundedCrash, BoundedChain
  DEF Next, LoopStep, SendStep, Procs

(* What a row may cost at worst, and what ERROR means then.                   *)
GrantsBounded ==
  \A t \in Tx :
    /\ paid[t] <= PerLife * (1 + crashes)
    /\ LostOnly => paid[t] <= 1 + crashes
    /\ LostOnly /\ status[t] = "ERROR" => paid[t] <= crashes

(* However often confirmations throw, and however late what was given up is   *)
(* included, a life of the server process pays a row at most as often as       *)
(* MAX_RETRIES lets it try, MaxRetries + 1 times; where what was given up      *)
(* never reaches the chain, each life pays it once at most, and a row called   *)
(* failed was paid by earlier lives alone.  No run of fixToken starts before   *)
(* the last one has ended, and no statement throws.                            *)
THEOREM PaymentsBounded ==
  ASSUME ~DbMayFail
  PROVE  Spec /\ []RunsApart => []GrantsBounded
<1>1. IInv /\ Bounded => GrantsBounded
  <2> SUFFICES ASSUME IInv, Bounded, NEW t \in Tx
               PROVE  /\ paid[t] <= PerLife * (1 + crashes)
                      /\ LostOnly => paid[t] <= 1 + crashes
                      /\ LostOnly /\ status[t] = "ERROR" => paid[t] <= crashes
    BY DEF GrantsBounded
  <2>1. /\ paid[t] \in Nat /\ floating[t] \in Nat /\ crashes \in Nat
        /\ PerLife \in Nat /\ Before \in Nat
    BY Numbers, BoundsAssumption DEF IInv, TypeOK
  <2>2. Out(t) <= Before + PerLife /\ paid[t] <= Out(t)
    BY <2>1 DEF Bounded, PaidOK, Out
  <2>3. Before + PerLife = PerLife * (1 + crashes)
    BY <2>1 DEF Before
  <2>4. LostOnly => PerLife = 1 /\ Before = crashes
    BY <2>1 DEF PerLife, Before
  <2>5. LostOnly /\ status[t] = "ERROR" => Out(t) <= Before
    <3> SUFFICES ASSUME LostOnly, status[t] = "ERROR", Out(t) > Before PROVE FALSE
      BY <2>1 DEF Out
    <3>1. PICK p \in Procs : cur[p] = t /\ pc[p] = "fix"
      BY DEF Bounded, PaidOK, Paying
    <3> QED
      BY <3>1 DEF Bounded, HandsOK, InHand
  <2>6. Out(t) \in Nat
    BY <2>1 DEF Out
  <2>7. paid[t] <= PerLife * (1 + crashes)
    BY <2>1, <2>2, <2>3, <2>6
  <2> QED
    BY <2>1, <2>2, <2>4, <2>5, <2>6, <2>7
<1>2. IInv /\ RunsApart /\ Bounded /\ [Next]_vars => Bounded'
  BY BoundedStep
<1> QED
  BY <1>1, <1>2, BoundedInit, InvHolds, PTL DEF Spec

(* One transfer per row, then, takes that nothing fails at all.               *)
NothingFails == MaxCrashes = 0 /\ LostOnly /\ ~DbMayFail

(* The receiver of a grant is paid once, and a grant is called failed only   *)
(* where it was not paid, for any number of rows, members and callers and any *)
(* retry limit: if no run of fixToken starts before the last one has ended,   *)
(* no process dies, no statement throws and no transfer whose confirmation    *)
(* threw reaches the chain.                                                   *)
THEOREM GrantsAreExact ==
  ASSUME NothingFails
  PROVE  Spec /\ []RunsApart => []ExactGrant
<1>1. Spec /\ []RunsApart => []GrantsBounded
  BY PaymentsBounded DEF NothingFails
<1>2. TypeOK /\ GrantsBounded => ExactGrant
  BY DEF NothingFails, TypeOK, GrantsBounded, ExactGrant, PaidAtMostOnce, ErrorMeansUnpaid
<1> QED
  BY <1>1, <1>2, TypeCorrect, PTL
=============================================================================
