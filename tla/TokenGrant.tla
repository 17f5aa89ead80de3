----------------------------- MODULE TokenGrant -----------------------------
(***************************************************************************)
(* The granting of tokens to members: util/token.utils.ts over             *)
(* dao/token-transaction.dao.ts and solana/spl-token/send-token.ts.        *)
(*                                                                         *)
(* A grant is a row of token_transaction.  giveReadyToken inserts it READY *)
(* and the cron job fixToken, started every three minutes with no guard    *)
(* against a run that still goes on, marks READY rows PROCESSING, sends    *)
(* the tokens on chain and marks each row FIX or ERROR.  giveToken sends   *)
(* first and inserts the row afterwards.  Each step below is the code      *)
(* between two awaits; a statement of the database is atomic.              *)
(*                                                                         *)
(* Left out: amounts (a row is paid or it is not), decryption of the       *)
(* wallet address (its failure is a failure to prepare the transfer), the  *)
(* creation of the receiver's token account, and a grant of quantity 0,    *)
(* which changes nothing.                                                  *)
(***************************************************************************)
EXTENDS Naturals, FiniteSets

CONSTANTS
  Tx,          \* ids of token_transaction rows, one per (grant, receiver)
  DirectTx,    \* those that giveToken inserts; the others are giveReadyToken's
  Member,      \* receivers
  Receiver,    \* [Tx -> Member], column "to"
  Runs,        \* activations of fixToken that may be alive at the same time
  Callers,     \* requests inside giveToken
  NoTx,        \* "no row at hand"
  MaxRetries,  \* MAX_RETRIES of send-token.ts
  MaxCrashes,  \* bound: how often the server process dies
  Fates,       \* what may become of a transfer whose confirmation throws
  Verdicts,    \* what the chain may do with a transfer it includes
  DbMayFail    \* may a statement of the database throw?

ASSUME TxAssumption ==
  /\ DirectTx \subseteq Tx
  /\ NoTx \notin Tx
  /\ Receiver \in [Tx -> Member]
ASSUME ProcsAssumption == Runs \cap Callers = {}
ASSUME BoundsAssumption == MaxRetries \in Nat /\ MaxCrashes \in Nat
ASSUME ChainAssumption ==
  /\ Fates \subseteq {"lost", "landed", "floating"}
  /\ Verdicts \subseteq {"executed", "reverted"}
  /\ DbMayFail \in BOOLEAN

Procs == Runs \cup Callers
Statuses == {"NONE", "READY", "PROCESSING", "FIX", "ERROR"}

VARIABLES
  status,     \* [Tx -> Statuses], column "status"; NONE: no such row yet
  available,  \* members that findAvailableOneById still finds
  asked,      \* rows for which some code asked for a grant
  pending,    \* rows giveReadyToken is about to insert
  pc,         \* where each run or caller waits
  ids,        \* "ids" of a run: the rows it read as READY
  todo,       \* the rows its loop still has to visit
  cur,        \* the row its loop is at
  tries,      \* attempts of sendToken that failed for that row
  landed,     \* [Tx -> Nat]: transfers for the row the chain has included
  paid,       \* [Tx -> Nat]: those of them that moved the tokens
  floating,   \* [Tx -> Nat]: abandoned transfers that may still be included
  notices,    \* [Tx -> Nat]: RECEIVE_BBT notifications created for the row
  crashes     \* how often the process died

db == <<status, available, notices>>
local == <<pc, ids, todo, cur, tries>>
chain == <<landed, paid, floating>>
requests == <<asked, pending>>
vars == <<db, local, chain, requests, crashes>>

TypeOK ==
  /\ status \in [Tx -> Statuses]
  /\ available \subseteq Member
  /\ asked \subseteq Tx
  /\ pending \subseteq Tx \ DirectTx
  /\ pc \in [Procs -> {"idle", "mark", "list", "loop", "send", "fix", "notify", "error"}]
  /\ ids \in [Procs -> SUBSET Tx]
  /\ todo \in [Procs -> SUBSET Tx]
  /\ cur \in [Procs -> Tx \cup {NoTx}]
  /\ tries \in [Procs -> 0..MaxRetries]
  /\ landed \in [Tx -> Nat]
  /\ paid \in [Tx -> Nat]
  /\ floating \in [Tx -> Nat]
  /\ notices \in [Tx -> Nat]
  /\ crashes \in 0..MaxCrashes

Init ==
  /\ status = [t \in Tx |-> "NONE"]
  /\ available = Member
  /\ asked = {}
  /\ pending = {}
  /\ pc = [p \in Procs |-> "idle"]
  /\ ids = [p \in Procs |-> {}]
  /\ todo = [p \in Procs |-> {}]
  /\ cur = [p \in Procs |-> NoTx]
  /\ tries = [p \in Procs |-> 0]
  /\ landed = [t \in Tx |-> 0]
  /\ paid = [t \in Tx |-> 0]
  /\ floating = [t \in Tx |-> 0]
  /\ notices = [t \in Tx |-> 0]
  /\ crashes = 0

-----------------------------------------------------------------------------
(* Helpers *)

RowsIn(s) == {t \in Tx : status[t] = s}

Goto(p, l) == pc' = [pc EXCEPT ![p] = l]

\* p's loop goes on with the rows S, or ends.
LoopOver(p, S) ==
  /\ todo' = [todo EXCEPT ![p] = S]
  /\ Goto(p, IF S = {} THEN "idle" ELSE "loop")

\* p is done with the row at hand.
NextRow(p) ==
  /\ LoopOver(p, todo[p])
  /\ cur' = [cur EXCEPT ![p] = NoTx]
  /\ tries' = [tries EXCEPT ![p] = 0]
  /\ UNCHANGED ids

\* The chain includes a transfer for row t, and executes or reverts it.
Include(t) ==
  \E v \in Verdicts :
    /\ landed' = [landed EXCEPT ![t] = @ + 1]
    /\ paid' = IF v = "executed" THEN [paid EXCEPT ![t] = @ + 1] ELSE paid

-----------------------------------------------------------------------------
(* giveReadyToken: read the receivers that are available, then insert the  *)
(* READY rows one await after the other.                                   *)

RequestGrant(t) ==
  /\ t \in Tx \ (DirectTx \cup asked)
  /\ asked' = asked \cup {t}
  /\ pending' = IF Receiver[t] \in available THEN pending \cup {t} ELSE pending
  /\ UNCHANGED <<db, local, chain, crashes>>

InsertReady(t) ==
  /\ t \in pending
  /\ status' = [status EXCEPT ![t] = "READY"]
  /\ pending' = pending \ {t}
  /\ UNCHANGED <<available, notices, asked, local, chain, crashes>>

InsertReadyFails(t) ==
  /\ DbMayFail
  /\ t \in pending
  /\ pending' = pending \ {t}
  /\ UNCHANGED <<asked, db, local, chain, crashes>>

\* A member withdraws: no query for available members finds it any more.
Withdraw(m) ==
  /\ m \in available
  /\ available' = available \ {m}
  /\ UNCHANGED <<status, notices, requests, local, chain, crashes>>

-----------------------------------------------------------------------------
(* fixToken up to its loop *)

\* Mutant: the run loops over the rows it read as READY and never marks them.
FindReadyUnmarked(r) ==
  /\ pc[r] = "idle"
  /\ RowsIn("READY") # {}
  /\ LoopOver(r, RowsIn("READY"))
  /\ UNCHANGED <<ids, cur, tries, db, chain, requests, crashes>>

FindReady(r) ==
  /\ pc[r] = "idle"
  /\ RowsIn("READY") # {}
  /\ ids' = [ids EXCEPT ![r] = RowsIn("READY")]
  /\ Goto(r, "mark")
  /\ UNCHANGED <<todo, cur, tries, db, chain, requests, crashes>>

\* bulkUpdateStatus(ids, PROCESSING): by id alone, whatever the rows hold now.
MarkProcessing(r) ==
  /\ pc[r] = "mark"
  /\ status' = [t \in Tx |-> IF t \in ids[r] THEN "PROCESSING" ELSE status[t]]
  /\ ids' = [ids EXCEPT ![r] = {}]
  /\ Goto(r, "list")
  /\ UNCHANGED <<todo, cur, tries, available, notices, chain, requests, crashes>>

\* findByStatus(PROCESSING): every such row, not only those this run marked.
FindProcessing(r) ==
  /\ pc[r] = "list"
  /\ LoopOver(r, RowsIn("PROCESSING"))
  /\ UNCHANGED <<ids, cur, tries, db, chain, requests, crashes>>

\* giveToken: read the available receivers, then visit them one by one.
CallGiveToken(c, S) ==
  /\ pc[c] = "idle"
  /\ S \subseteq DirectTx \ asked
  /\ S # {}
  /\ asked' = asked \cup S
  /\ LoopOver(c, {t \in S : Receiver[t] \in available})
  /\ UNCHANGED <<ids, cur, tries, db, chain, pending, crashes>>

-----------------------------------------------------------------------------
(* The loop over the rows, and sendToken *)

\* Mutant: a receiver that is gone ends the whole run, not only its row.
PickRowOrReturn(p) ==
  /\ pc[p] = "loop"
  /\ \E t \in todo[p] :
       IF Receiver[t] \in available \/ p \in Callers
       THEN /\ cur' = [cur EXCEPT ![p] = t]
            /\ todo' = [todo EXCEPT ![p] = @ \ {t}]
            /\ Goto(p, "send")
       ELSE LoopOver(p, {}) /\ UNCHANGED cur
  /\ UNCHANGED <<ids, tries, db, chain, requests, crashes>>

\* The next row of the loop.  fixToken asks once more whether the receiver is
\* available and skips the row, left PROCESSING, if it is not.
PickRow(p) ==
  /\ pc[p] = "loop"
  /\ \E t \in todo[p] :
       IF Receiver[t] \in available \/ p \in Callers
       THEN /\ cur' = [cur EXCEPT ![p] = t]
            /\ todo' = [todo EXCEPT ![p] = @ \ {t}]
            /\ Goto(p, "send")
       ELSE LoopOver(p, todo[p] \ {t}) /\ UNCHANGED cur
  /\ UNCHANGED <<ids, tries, db, chain, requests, crashes>>

\* An await before the first sendTransaction throws: no attempt, no retry.
PrepareFails(p) ==
  /\ pc[p] = "send"
  /\ tries[p] = 0
  /\ Goto(p, "error")
  /\ UNCHANGED <<ids, todo, cur, tries, db, chain, requests, crashes>>

\* confirmTransaction resolves: the chain has included the transfer.  The
\* outcome it carries (value.err of a transfer that reverted) is not looked at.
Confirmed(p) ==
  /\ pc[p] = "send"
  /\ Include(cur[p])
  /\ Goto(p, "fix")
  /\ UNCHANGED <<ids, todo, cur, tries, floating, db, requests, crashes>>

\* What has become of a transfer whose submission or confirmation threw.
Abandon(t) ==
  \E f \in Fates :
    \/ f = "lost" /\ UNCHANGED chain
    \/ f = "landed" /\ Include(t) /\ UNCHANGED floating
    \/ f = "floating" /\ floating' = [floating EXCEPT ![t] = @ + 1]
                      /\ UNCHANGED <<landed, paid>>

\* An attempt throws.  The next one is a new transfer with a new blockhash;
\* after MAX_RETRIES of them sendToken throws.
NotConfirmed(p) ==
  /\ pc[p] = "send"
  /\ Abandon(cur[p])
  /\ IF tries[p] < MaxRetries
     THEN tries' = [tries EXCEPT ![p] = @ + 1] /\ UNCHANGED pc
     ELSE Goto(p, "error") /\ UNCHANGED tries
  /\ UNCHANGED <<ids, todo, cur, db, requests, crashes>>

-----------------------------------------------------------------------------
(* What the row becomes *)

\* Mutant: the await of updateStatus(FIX) is lost and the row stays as it was.
RecordFixLost(p) ==
  /\ pc[p] = "fix"
  /\ NextRow(p)
  /\ UNCHANGED <<db, chain, requests, crashes>>

\* updateStatus(FIX) in fixToken, the insertion of a FIX row in giveToken.
RecordFix(p) ==
  /\ pc[p] = "fix"
  /\ status' = [status EXCEPT ![cur[p]] = "FIX"]
  /\ IF p \in Runs THEN Goto(p, "notify") /\ UNCHANGED <<ids, todo, cur, tries>>
                   ELSE NextRow(p)
  /\ UNCHANGED <<available, notices, chain, requests, crashes>>

Notify(p) ==
  /\ pc[p] = "notify"
  /\ notices' = [notices EXCEPT ![cur[p]] = @ + 1]
  /\ NextRow(p)
  /\ UNCHANGED <<status, available, chain, requests, crashes>>

\* Mutant: the receiver is notified whether or not the transfer failed.
RecordErrorAndNotify(p) ==
  /\ pc[p] = "error"
  /\ status' = [status EXCEPT ![cur[p]] = "ERROR"]
  /\ notices' = [notices EXCEPT ![cur[p]] = @ + 1]
  /\ NextRow(p)
  /\ UNCHANGED <<available, chain, requests, crashes>>

\* Mutant: giveToken forgets to set tokenStatus in its catch block.
RecordErrorAsFix(p) ==
  /\ pc[p] = "error"
  /\ status' = [status EXCEPT ![cur[p]] = IF p \in Callers THEN "FIX" ELSE "ERROR"]
  /\ NextRow(p)
  /\ UNCHANGED <<available, notices, chain, requests, crashes>>

\* updateStatus(ERROR) in fixToken, the insertion of an ERROR row in giveToken.
RecordError(p) ==
  /\ pc[p] = "error"
  /\ status' = [status EXCEPT ![cur[p]] = "ERROR"]
  /\ NextRow(p)
  /\ UNCHANGED <<available, notices, chain, requests, crashes>>

\* updateStatus(FIX) or createNotification throws inside fixToken's try block:
\* the catch block records ERROR for a row whose transfer went through.
CaughtDbFailure(r) ==
  /\ DbMayFail
  /\ pc[r] \in {"fix", "notify"}
  /\ Goto(r, "error")
  /\ UNCHANGED <<ids, todo, cur, tries, db, chain, requests, crashes>>

Reset(P) ==
  /\ pc' = [p \in Procs |-> IF p \in P THEN "idle" ELSE pc[p]]
  /\ ids' = [p \in Procs |-> IF p \in P THEN {} ELSE ids[p]]
  /\ todo' = [p \in Procs |-> IF p \in P THEN {} ELSE todo[p]]
  /\ cur' = [p \in Procs |-> IF p \in P THEN NoTx ELSE cur[p]]
  /\ tries' = [p \in Procs |-> IF p \in P THEN 0 ELSE tries[p]]

\* A statement throws outside of any try block and ends the run: bulkUpdate,
\* the second find, the look-up of the receiver or the update to ERROR in
\* fixToken; in giveToken the insertion, whose transaction is rolled back.
RunFails(p) ==
  /\ DbMayFail
  /\ \/ pc[p] \in {"mark", "list", "error"}
     \/ p \in Runs /\ pc[p] = "loop"
     \/ p \in Callers /\ pc[p] = "fix"
  /\ Reset({p})
  /\ UNCHANGED <<db, chain, requests, crashes>>

-----------------------------------------------------------------------------
(* The process and the chain *)

\* The server process dies and starts again: only the database survives.
Crash ==
  /\ crashes < MaxCrashes
  /\ crashes' = crashes + 1
  /\ Reset(Procs)
  /\ pending' = {}
  /\ UNCHANGED <<asked, db, chain>>

\* A transfer sendToken gave up on is included after all, or expires.
LateInclusion(t) ==
  /\ floating[t] > 0
  /\ floating' = [floating EXCEPT ![t] = @ - 1]
  /\ Include(t)
  /\ UNCHANGED <<db, local, requests, crashes>>

Expire(t) ==
  /\ floating[t] > 0
  /\ floating' = [floating EXCEPT ![t] = @ - 1]
  /\ UNCHANGED <<landed, paid, db, local, requests, crashes>>

-----------------------------------------------------------------------------
(* A step of process p once it is started *)
FixTokenStart(r) == MarkProcessing(r) \/ FindProcessing(r)
SendStep(p) == PrepareFails(p) \/ Confirmed(p) \/ NotConfirmed(p)
LoopStep(p) ==
  \/ PickRow(p)
  \/ SendStep(p)
  \/ RecordFix(p) \/ RecordError(p)

Next ==
  \/ \E t \in Tx : RequestGrant(t) \/ InsertReady(t) \/ InsertReadyFails(t)
  \/ \E m \in Member : Withdraw(m)
  \/ \E r \in Runs : FindReady(r) \/ FixTokenStart(r) \/ Notify(r) \/ CaughtDbFailure(r)
  \/ \E c \in Callers, S \in SUBSET DirectTx : CallGiveToken(c, S)
  \/ \E p \in Procs : LoopStep(p) \/ RunFails(p)
  \/ Crash
  \/ \E t \in Tx : LateInclusion(t) \/ Expire(t)

Spec == Init /\ [][Next]_vars

\* The cron job is started again and again, and a promise that nothing blocks
\* settles: every await of a run returns or throws.
Fairness ==
  /\ \A r \in Runs : WF_vars(FindReady(r) \/ FixTokenStart(r) \/ LoopStep(r) \/ Notify(r))
  /\ \A t \in Tx : WF_vars(InsertReady(t) \/ InsertReadyFails(t))

FairSpec == Spec /\ Fairness

-----------------------------------------------------------------------------
(* What a grant promises *)

\* A row that says FIX ("granted for good", fixToken and giveToken) has had a
\* transfer included by the chain, whatever overlap, retry or crash came
\* before; where transfers cannot revert, the tokens have really moved.
FixBacked ==
  \A t \in Tx : status[t] = "FIX" =>
    /\ landed[t] > 0
    /\ "reverted" \notin Verdicts => paid[t] > 0

\* fixToken marks before it sends: no row is still READY once a transfer for
\* it is out, so a run that starts after a crash never takes it for a new one.
NothingSentWhileReady ==
  \A t \in Tx : status[t] = "READY" => landed[t] = 0 /\ floating[t] = 0

\* The receiver is never told of more grants than the chain has included:
\* createNotification comes after the transfer, in every run for itself.
NoticesBacked == \A t \in Tx : notices[t] <= landed[t]

\* Seen from outside, the component keeps the promise of GrantPromise: tokens
\* only for rows some code asked to grant, FIX only once a transfer is on chain.
Promise == INSTANCE GrantPromise WITH
  sent <- {t \in Tx : landed[t] > 0},
  report <- [t \in Tx |-> CASE status[t] = "FIX" -> "granted"
                            [] status[t] = "ERROR" -> "failed"
                            [] OTHER -> "open"]
KeepsPromise == Promise!Spec

\* giveTokenFromTokenMaster: the receiver gets the quantity of the token
\* master, that is, one transfer per row.
PaidAtMostOnce == \A t \in Tx : paid[t] <= 1

\* A failed grant is granted by hand afterwards (post.service.ts), so ERROR
\* has to mean that nothing was paid.
ErrorMeansUnpaid == \A t \in Tx : status[t] = "ERROR" => paid[t] = 0

\* One transfer per row, and ERROR only where none arrived.
ExactGrant == PaidAtMostOnce /\ ErrorMeansUnpaid

\* "The grant proper is made by the batch": a provisional grant is settled by
\* some run of fixToken unless its receiver withdraws.
EventuallySettled ==
  \A t \in Tx :
    status[t] \in {"READY", "PROCESSING"}
      ~> status[t] \in {"FIX", "ERROR"} \/ Receiver[t] \notin available
=============================================================================
