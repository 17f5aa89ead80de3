---------------------------- MODULE CommentSpend ----------------------------
(***************************************************************************)
(* Comments that carry tokens: CommentService.register, checkTokenSendable *)
(* and delete, over dao/comment.dao.ts and TokenTransactionDao.            *)
(* findAvailableTokenCount.  A comment and its token_transaction row are   *)
(* written in one transaction on a connection of the pool; the checks in   *)
(* between run on other connections of the same pool.  The row lock on the *)
(* author is requested on the transaction's connection and not awaited, so *)
(* only the later statements of that connection wait for it.               *)
(*                                                                         *)
(* Left out: the texts, the review state of the commented fishing result   *)
(* (one verdict stands for the checks of the parent), and which members a  *)
(* text mentions.  A read outside the transaction needs a free connection  *)
(* and gives it back at once.                                              *)
(***************************************************************************)
EXTENDS Naturals, FiniteSets

CONSTANTS
  Member,      \* members that comment and own posts
  Comments,    \* requests to comment, each with the comment it would make
  Author,      \* [Comments -> Member]
  Owner,       \* [Comments -> Member], who owns the commented parent
  Quantity,    \* [Comments -> Nat], tokens that go from author to owner
  ReplyTo,     \* [Comments -> Comments or Nobody], parentCommentId
  Nobody,      \* "no comment"
  PoolSize,    \* connections of the pool (10 by default)
  Patient,     \* members that wait for the answer before their next comment
  MaxGranted,  \* bound: tokens the system grants to a member
  MaxTaken,    \* bound: [Member -> granted tokens it takes back between two checks]
  MaxCrashes,  \* bound: how often the server process dies
  DbMayFail    \* may a statement that writes throw?

ASSUME CommentAssumption ==
  /\ Author \in [Comments -> Member]
  /\ Owner \in [Comments -> Member]
  /\ Quantity \in [Comments -> Nat]
  /\ ReplyTo \in [Comments -> Comments \cup {Nobody}]
  /\ Nobody \notin Comments
ASSUME BoundsAssumption ==
  /\ PoolSize \in Nat /\ MaxGranted \in Nat /\ MaxTaken \in [Member -> Nat] /\ MaxCrashes \in Nat
  /\ Patient \subseteq Member /\ DbMayFail \in BOOLEAN

VARIABLES
  received,   \* [Member -> Nat], sum of the FIX rows to the member
  sent,       \* [Member -> Nat], sum of the READY and FIX rows from it
  granted,    \* [Member -> Nat], the part of received the system has granted
  taken,      \* history: [Member -> Nat], granted tokens taken back since a comment
              \*   of the member's last passed the check
  comments,   \* comments that are committed
  deleted,    \* those of them that are logically deleted
  payments,   \* comments whose token_transaction row is committed
  notified,   \* comments some notification is saved for
  pc,
  seen,       \* [Comments -> Nat], countOfTokensSent as the request read it
  lock,       \* [Member -> request whose transaction holds the row lock]
  queued,     \* requests whose notification is being saved by nobody's await
  torn,       \* history: comments committed although their row threw
  failed,     \* history: requests a throwing statement or a crash ended
  crashes

ledger == <<received, sent, granted, taken, payments>>
posts == <<comments, deleted, torn>>
notices == <<notified, queued>>
vars == <<ledger, posts, notices, pc, seen, lock, failed, crashes>>

\* Where a request waits inside its transaction, in the order of the code.
InTransaction ==
  {"readSent", "readReceived", "reply", "insert", "members", "commit", "rollback"}

TypeOK ==
  /\ received \in [Member -> Nat]
  /\ sent \in [Member -> Nat]
  /\ granted \in [Member -> 0..MaxGranted]
  /\ \A m \in Member : granted[m] <= received[m]
  /\ taken \in [Member -> Nat]
  /\ comments \subseteq Comments
  /\ deleted \subseteq comments
  /\ payments \subseteq Comments
  /\ notified \subseteq Comments
  /\ pc \in [Comments -> InTransaction \cup {"idle", "begin", "done"}]
  /\ seen \in [Comments -> Nat]
  /\ lock \in [Member -> Comments \cup {Nobody}]
  /\ queued \subseteq Comments
  /\ torn \subseteq comments
  /\ failed \subseteq Comments
  /\ crashes \in 0..MaxCrashes

Init ==
  /\ received = [m \in Member |-> 0]
  /\ sent = [m \in Member |-> 0]
  /\ granted = [m \in Member |-> 0]
  /\ taken = [m \in Member |-> 0]
  /\ comments = {}
  /\ deleted = {}
  /\ payments = {}
  /\ notified = {}
  /\ pc = [c \in Comments |-> "idle"]
  /\ seen = [c \in Comments |-> 0]
  /\ lock = [m \in Member |-> Nobody]
  /\ queued = {}
  /\ torn = {}
  /\ failed = {}
  /\ crashes = 0

-----------------------------------------------------------------------------
(* Helpers *)

Goto(c, l) == pc' = [pc EXCEPT ![c] = l]

Active(c) == pc[c] \notin {"idle", "done"}

\* A statement outside of the transactions finds a connection in the pool.
FreeConnection == Cardinality({c \in Comments : pc[c] \in InTransaction}) < PoolSize

\* The statements of c's connection run only behind its SELECT ... FOR UPDATE.
Holds(c) == lock[Author[c]] = c

\* c's transaction is over: its lock and its connection are given back.
Release(c) ==
  /\ lock' = [lock EXCEPT ![Author[c]] = Nobody]
  /\ Goto(c, "done")

\* The token row from author to owner, if the comment carries tokens.
Pay(c) ==
  /\ sent' = [sent EXCEPT ![Author[c]] = @ + Quantity[c]]
  /\ received' = [received EXCEPT ![Owner[c]] = @ + Quantity[c]]
  /\ payments' = IF Quantity[c] > 0 THEN payments \cup {c} ELSE payments

-----------------------------------------------------------------------------
(* The system grants a token: a row of fixToken or giveToken becomes FIX. *)
Grant(m) ==
  /\ granted[m] < MaxGranted
  /\ granted' = [granted EXCEPT ![m] = @ + 1]
  /\ received' = [received EXCEPT ![m] = @ + 1]
  /\ UNCHANGED <<sent, taken, payments, posts, notices, pc, seen, lock, failed, crashes>>

\* A row of fixToken is FIX no more: its notice threw and the catch block writes
\* ERROR over it, or an overlapping run that has listed it as READY marks it as
\* PROCESSING (in the end it may be FIX again, which is Grant).
TakeBack(m) ==
  /\ granted[m] > 0
  /\ taken[m] < MaxTaken[m]
  /\ granted' = [granted EXCEPT ![m] = @ - 1]
  /\ received' = [received EXCEPT ![m] = @ - 1]
  /\ taken' = [taken EXCEPT ![m] = @ + 1]
  /\ UNCHANGED <<sent, payments, posts, notices, pc, seen, lock, failed, crashes>>

-----------------------------------------------------------------------------
(* register *)

\* checkParentIdReturnParentTypeAndMemberId: the parent is an approved fishing
\* result or a post, or the request is refused.
CheckParent(c) ==
  /\ pc[c] = "idle"
  /\ Author[c] \in Patient => \A d \in Comments : Author[d] = Author[c] => ~Active(d)
  /\ FreeConnection
  /\ \E l \in {"begin", "done"} : Goto(c, l)
  /\ UNCHANGED <<ledger, posts, notices, seen, lock, failed, crashes>>

\* Mutant: the owner is told as soon as the transaction has begun.
BeginAndNotify(c) ==
  /\ pc[c] = "begin"
  /\ FreeConnection
  /\ queued' = queued \cup {c}
  /\ Goto(c, IF Quantity[c] = 0 THEN "reply" ELSE "readSent")
  /\ UNCHANGED <<ledger, posts, notified, seen, lock, failed, crashes>>

\* The transaction takes a connection, asks for the row lock and goes on.  A
\* comment without tokens needs no look at the ledger.
Begin(c) ==
  /\ pc[c] = "begin"
  /\ FreeConnection
  /\ Goto(c, IF Quantity[c] = 0 THEN "reply" ELSE "readSent")
  /\ UNCHANGED <<ledger, posts, notices, seen, lock, failed, crashes>>

AcquireLock(c) ==
  /\ pc[c] \in InTransaction
  /\ lock[Author[c]] = Nobody
  /\ lock' = [lock EXCEPT ![Author[c]] = c]
  /\ UNCHANGED <<ledger, posts, notices, pc, seen, failed, crashes>>

\* findAvailableTokenCount reads what the author has sent ...
ReadSent(c) ==
  /\ pc[c] = "readSent"
  /\ FreeConnection
  /\ seen' = [seen EXCEPT ![c] = sent[Author[c]]]
  /\ Goto(c, "readReceived")
  /\ UNCHANGED <<ledger, posts, notices, lock, failed, crashes>>

\* The check has passed, or there is too little: a conflict.
Checked(c, enough) ==
  /\ Goto(c, IF enough THEN "reply" ELSE "rollback")
  /\ taken' = IF enough THEN [taken EXCEPT ![Author[c]] = 0] ELSE taken

\* Mutant: the check lets one token too much pass.
ReadReceivedOffByOne(c) ==
  /\ pc[c] = "readReceived"
  /\ FreeConnection
  /\ Checked(c, seen[c] + Quantity[c] <= received[Author[c]] + 1)
  /\ UNCHANGED <<received, sent, granted, payments, posts, notices, seen, lock, failed, crashes>>

\* ... and then what it has received.
ReadReceived(c) ==
  /\ pc[c] = "readReceived"
  /\ FreeConnection
  /\ Checked(c, seen[c] + Quantity[c] <= received[Author[c]])
  /\ UNCHANGED <<received, sent, granted, payments, posts, notices, seen, lock, failed, crashes>>

\* findById finds a comment that is there.  Whether it still finds a deleted one
\* is up to its query, which is not at hand.
FindById(d) == {found \in BOOLEAN : IF found THEN d \in comments ELSE d \notin comments \ deleted}

\* Mutant: the comment replied to may itself be a reply.
CheckReplyExistsOnly(c) ==
  LET d == ReplyTo[c] IN
  /\ pc[c] = "reply"
  /\ \/ d = Nobody /\ Goto(c, "insert")
     \/ /\ d # Nobody /\ FreeConnection
        /\ \E found \in FindById(d) : Goto(c, IF found THEN "insert" ELSE "rollback")
  /\ UNCHANGED <<ledger, posts, notices, seen, lock, failed, crashes>>

\* A reply needs a comment that exists and is no reply itself.
CheckReply(c) ==
  LET d == ReplyTo[c] IN
  /\ pc[c] = "reply"
  /\ \/ d = Nobody /\ Goto(c, "insert")
     \/ /\ d # Nobody /\ FreeConnection
        /\ \E found \in FindById(d) :
             Goto(c, IF found /\ ReplyTo[d] = Nobody THEN "insert" ELSE "rollback")
  /\ UNCHANGED <<ledger, posts, notices, seen, lock, failed, crashes>>

\* Mutant: the token row is inserted on a connection of its own, at once.
InsertCommentPayOutside(c) ==
  /\ pc[c] = "insert"
  /\ Holds(c)
  /\ Pay(c)
  /\ Goto(c, "members")
  /\ UNCHANGED <<granted, taken, posts, notices, seen, lock, failed, crashes>>

\* The comment, and behind it on the same connection the token row, not awaited.
InsertComment(c) ==
  /\ pc[c] = "insert"
  /\ Holds(c)
  /\ Goto(c, "members")
  /\ UNCHANGED <<ledger, posts, notices, seen, lock, failed, crashes>>

\* Any members may be named in the text and available.
ExtractMentionedMembers == SUBSET Member

\* The mentioned ones and the owner are told, the author is not.
ToMembers(c, mentioned) == (mentioned \cup {Owner[c]}) \ {Author[c]}

\* The author and the mentioned members are read, and the notifications begin
\* that nothing awaits.  An author that has withdrawn meanwhile makes it throw.
ReadMembers(c) ==
  /\ pc[c] = "members"
  /\ FreeConnection
  /\ \/ \E mentioned \in ExtractMentionedMembers :
          /\ Goto(c, "commit")
          /\ queued' = IF ToMembers(c, mentioned) = {} THEN queued ELSE queued \cup {c}
     \/ Goto(c, "rollback") /\ UNCHANGED queued
  /\ UNCHANGED <<ledger, posts, notified, seen, lock, failed, crashes>>

SaveNotice(c) ==
  /\ c \in queued
  /\ FreeConnection
  /\ queued' = queued \ {c}
  /\ notified' = notified \cup {c}
  /\ UNCHANGED <<ledger, posts, pc, seen, lock, failed, crashes>>

\* Mutant: the row is written with the author as the receiver.
CommitToSelf(c) ==
  /\ pc[c] = "commit"
  /\ comments' = comments \cup {c}
  /\ sent' = [sent EXCEPT ![Author[c]] = @ + Quantity[c]]
  /\ received' = [received EXCEPT ![Author[c]] = @ + Quantity[c]]
  /\ payments' = IF Quantity[c] > 0 THEN payments \cup {c} ELSE payments
  /\ Release(c)
  /\ UNCHANGED <<granted, taken, deleted, torn, notices, seen, failed, crashes>>

Commit(c) ==
  /\ pc[c] = "commit"
  /\ comments' = comments \cup {c}
  /\ Pay(c)
  /\ Release(c)
  /\ UNCHANGED <<granted, taken, deleted, torn, notices, seen, failed, crashes>>

\* Mutant: a request that is refused never ends its transaction.
RollbackLeaks(c) ==
  /\ pc[c] = "rollback"
  /\ Holds(c)
  /\ Goto(c, "done")
  /\ UNCHANGED <<ledger, posts, notices, seen, lock, failed, crashes>>

Rollback(c) ==
  /\ pc[c] = "rollback"
  /\ Holds(c)
  /\ Release(c)
  /\ UNCHANGED <<ledger, posts, notices, seen, failed, crashes>>

\* An awaited statement of the transaction throws.
StatementThrows(c) ==
  /\ DbMayFail
  /\ pc[c] \in {"insert", "commit"}
  /\ Holds(c)
  /\ Goto(c, "rollback")
  /\ failed' = failed \cup {c}
  /\ UNCHANGED <<ledger, posts, notices, seen, lock, crashes>>

-----------------------------------------------------------------------------
(* delete hides one's own comment and leaves its tokens where they are.  The *)
(* answer does not wait for it.                                              *)

LogicalDelete(c) ==
  /\ c \in comments \ deleted
  /\ deleted' = deleted \cup {c}
  /\ UNCHANGED <<ledger, comments, torn, notices, pc, seen, lock, failed, crashes>>

-----------------------------------------------------------------------------
(* The process dies, by itself or because a promise that nothing awaits (the *)
(* lock, a notification) is rejected: the database rolls back what was open. *)
Die ==
  /\ crashes < MaxCrashes
  /\ crashes' = crashes + 1
  /\ pc' = [c \in Comments |-> IF Active(c) THEN "done" ELSE pc[c]]
  /\ lock' = [m \in Member |-> Nobody]
  /\ queued' = {}
  /\ failed' = failed \cup {c \in Comments : Active(c)}
  /\ UNCHANGED <<ledger, deleted, notified, seen>>

Crash ==
  /\ \E c \in Comments : Active(c)
  /\ Die
  /\ UNCHANGED <<comments, torn>>

\* The insertion of the token row throws and nobody catches it: the process
\* dies, and the comment is committed all the same if COMMIT was queued behind.
TokenInsertThrows(c) ==
  /\ DbMayFail
  /\ pc[c] \in {"members", "commit"}
  /\ Quantity[c] > 0
  /\ Holds(c)
  /\ \/ UNCHANGED <<comments, torn>>
     \/ pc[c] = "commit" /\ comments' = comments \cup {c} /\ torn' = torn \cup {c}
  /\ Die

\* Nor does anybody catch it when a deletion throws.
DeleteThrows(c) ==
  /\ DbMayFail
  /\ c \in comments
  /\ Die
  /\ UNCHANGED <<comments, torn>>

-----------------------------------------------------------------------------
RequestStep(c) ==
  \/ Begin(c) \/ AcquireLock(c) \/ ReadSent(c) \/ ReadReceived(c) \/ CheckReply(c)
  \/ InsertComment(c) \/ ReadMembers(c) \/ Commit(c) \/ Rollback(c)

Next ==
  \/ \E m \in Member : Grant(m) \/ TakeBack(m)
  \/ \E c \in Comments :
       \/ CheckParent(c) \/ RequestStep(c)
       \/ StatementThrows(c) \/ TokenInsertThrows(c)
       \/ SaveNotice(c) \/ LogicalDelete(c) \/ DeleteThrows(c)
  \/ Crash

Spec == Init /\ [][Next]_vars

\* A statement that has a connection and its lock returns or throws, and the
\* lock is handed to some request that waits for it.
Fairness ==
  \A c \in Comments :
    /\ WF_vars(AcquireLock(c))
    /\ WF_vars(Begin(c) \/ ReadSent(c) \/ ReadReceived(c) \/ CheckReply(c)
               \/ InsertComment(c) \/ ReadMembers(c) \/ Commit(c) \/ Rollback(c))

FairSpec == Spec /\ Fairness

-----------------------------------------------------------------------------
(* What commenting promises *)

\* "Take the lock so that nothing runs concurrently", "check the tokens after
\* the lock is taken": no member sends more tokens than it has received.
NoOverspend == \A m \in Member : sent[m] <= received[m]

\* What is left of that claim: a member that waits for each answer never sends
\* more than it has received, whatever the others do at the same time, though
\* the check reads its two sums one after the other and outside of any lock.
\* Only what the system itself takes back, behind the last check that has passed,
\* may be missing, token for token: a check sees all that was taken before it.
PatientNeverOverdrawn == \A m \in Patient : sent[m] <= received[m] + taken[m]

\* The comment and its tokens go together, through refusals, failing
\* statements and crashes: no tokens move for a comment that is not there, and
\* no comment that carries tokens is there without them, except where the row
\* that nobody awaits threw with the COMMIT already under way.
AllOrNothing ==
  /\ payments \subseteq comments
  /\ \A c \in comments \ torn : Quantity[c] > 0 => c \in payments

\* CommentsResponseDto.of: each comment with the replies that hang below it.
Of(top, threads) == [c \in top |-> {t \in threads : ReplyTo[t] = c}]

\* GET /comments/:parentId?withThreads=true, deleted ones (which have deletedAt)
\* included: comments that are no replies, and replies, all of one parent.
CommentsShown ==
  Of({c \in comments : ReplyTo[c] = Nobody}, {c \in comments : ReplyTo[c] # Nobody})

\* "Replies go one level deep": each reply is shown below a comment, whatever was
\* posted or deleted since the comment was looked at, and does not get lost below a
\* reply or below nothing.
ThreadsOneLevel ==
  \A t \in comments :
    ReplyTo[t] # Nobody => \E c \in DOMAIN CommentsShown : t \in CommentsShown[c]

\* A notification is saved outside of the transaction and may come before its
\* COMMIT, but nobody is told of a comment that was refused: if it is not
\* committed, it is about to be, or a statement or the process failed.
NoticeOfAccepted ==
  \A c \in notified : c \in comments \/ pc[c] = "commit" \/ c \in failed

\* Each comment moves its tokens at most once and as a whole, and a patient
\* member's only after they were found in its purse, with no other tip of the
\* member's between the finding and the move.
Promise == INSTANCE TipLedger WITH
  purse <- [m \in Member |-> received[m] - sent[m]],
  allowed <- {c \in Comments :
                Quantity[c] > 0 /\ pc[c] \in {"reply", "insert", "members", "commit"}},
  tipped <- payments
KeepsLedger == Promise!Spec

\* Every request is answered and gives its connection and its lock back, as
\* long as the pool is larger than the number of requests under way: with
\* PoolSize of them in a transaction, each waits for a connection of another.
EveryRequestEnds ==
  \A c \in Comments : Active(c) ~> pc[c] = "done"
=============================================================================
