------------------------- MODULE CommentSpendProofs -------------------------
(***************************************************************************)
(* Theorems about CommentSpend, for any number of members, requests and    *)
(* connections.                                                            *)
(***************************************************************************)
EXTENDS CommentSpend, Integers, TLAPS

-----------------------------------------------------------------------------
(* Types. *)
LEMMA TypeInit == Init => TypeOK
  BY CommentAssumption, BoundsAssumption DEF Init, TypeOK

LEMMA TypeStep == TypeOK /\ [Next]_vars => TypeOK'
<1> SUFFICES ASSUME TypeOK, [Next]_vars PROVE TypeOK'
  OBVIOUS
<1> USE CommentAssumption, BoundsAssumption
        DEF TypeOK, InTransaction, Goto, Release, Pay, ledger, posts, notices
<1>1. ASSUME NEW m \in Member, Grant(m) \/ TakeBack(m) PROVE TypeOK'
  BY <1>1 DEF Grant, TakeBack
<1>2. ASSUME NEW c \in Comments, CheckParent(c) \/ Begin(c) PROVE TypeOK'
  BY <1>2 DEF CheckParent, Begin
<1>3. ASSUME NEW c \in Comments, AcquireLock(c) PROVE TypeOK'
  BY <1>3 DEF AcquireLock
<1>4. ASSUME NEW c \in Comments, ReadSent(c) \/ ReadReceived(c) PROVE TypeOK'
  BY <1>4 DEF ReadSent, ReadReceived, Checked
<1>5. ASSUME NEW c \in Comments, CheckReply(c) \/ InsertComment(c) \/ ReadMembers(c)
      PROVE TypeOK'
  BY <1>5 DEF CheckReply, InsertComment, ReadMembers
<1>6. ASSUME NEW c \in Comments, Commit(c) PROVE TypeOK'
  BY <1>6 DEF Commit
<1>7. ASSUME NEW c \in Comments, Rollback(c) \/ StatementThrows(c) PROVE TypeOK'
  BY <1>7 DEF Rollback, StatementThrows
<1>8. ASSUME NEW c \in Comments, SaveNotice(c) \/ LogicalDelete(c) PROVE TypeOK'
  BY <1>8 DEF SaveNotice, LogicalDelete
<1>9. ASSUME NEW c \in Comments, TokenInsertThrows(c) PROVE TypeOK'
  BY <1>9 DEF TokenInsertThrows, Die
<1>10. CASE Crash \/ \E c \in Comments : DeleteThrows(c)
  BY <1>10 DEF Crash, DeleteThrows, Die
<1>11. CASE UNCHANGED vars
  BY <1>11 DEF vars
<1> QED
  BY <1>1, <1>2, <1>3, <1>4, <1>5, <1>6, <1>7, <1>8, <1>9, <1>10, <1>11
  DEF Next, RequestStep

(* Type correctness of every state the commenting reaches. *)
THEOREM TypeCorrect == Spec => []TypeOK
  BY TypeInit, TypeStep, PTL DEF Spec

-----------------------------------------------------------------------------
(* Comment and tokens.  AllOrNothing is inductive as it stands: the two sets   *)
(* grow in the same step, but for the row that throws.                         *)

(* A comment that carries tokens is never there without them, nor they without *)
(* it, except where the row threw behind a COMMIT under way.                   *)
THEOREM CommentsWhole == Spec => []AllOrNothing
<1>1. Init => AllOrNothing
  BY DEF Init, AllOrNothing
<1>2. AllOrNothing /\ [Next]_vars => AllOrNothing'
  <2> SUFFICES ASSUME AllOrNothing, [Next]_vars PROVE AllOrNothing'
    OBVIOUS
  <2> USE DEF AllOrNothing, ledger, posts
  <2>1. ASSUME NEW c \in Comments, Commit(c) PROVE AllOrNothing'
    BY <2>1 DEF Commit, Pay
  <2>2. ASSUME NEW c \in Comments, TokenInsertThrows(c) PROVE AllOrNothing'
    BY <2>2 DEF TokenInsertThrows, Die
  <2>3. CASE \/ Crash \/ (\E c \in Comments : DeleteThrows(c)) \/ UNCHANGED vars
             \/ \E m \in Member : Grant(m) \/ TakeBack(m)
             \/ \E c \in Comments :
                  \/ CheckParent(c) \/ Begin(c) \/ AcquireLock(c) \/ ReadSent(c)
                  \/ ReadReceived(c) \/ CheckReply(c) \/ InsertComment(c) \/ ReadMembers(c)
                  \/ Rollback(c) \/ StatementThrows(c) \/ SaveNotice(c) \/ LogicalDelete(c)
    BY <2>3 DEF Crash, DeleteThrows, Die, Grant, TakeBack, Checked, CheckParent, Begin, AcquireLock, ReadSent, ReadReceived,
       CheckReply, InsertComment, ReadMembers, Rollback, StatementThrows, SaveNotice, LogicalDelete,
       vars
  <2> QED
    BY <2>1, <2>2, <2>3 DEF Next, RequestStep
<1> QED
  BY <1>1, <1>2, PTL DEF Spec

-----------------------------------------------------------------------------
(* Threads and notifications.  A reply was looked at in the middle of its      *)
(* transaction: what it saw then has to hold until the COMMIT.                 *)

CheckedReply(c) ==
  ReplyTo[c] # Nobody => ReplyTo[c] \in comments /\ ReplyTo[ReplyTo[c]] = Nobody

ReplyInv ==
  /\ \A c \in comments : CheckedReply(c)
  /\ \A c \in Comments : pc[c] \in {"insert", "members", "commit"} => CheckedReply(c)

(* No reply hangs below a reply or below a comment that is not there. *)
THEOREM RepliesOneLevel == Spec => []ThreadsOneLevel
<1> USE DEF CheckedReply
<1>1. Init => ReplyInv
  BY DEF Init, ReplyInv
<1>2. TypeOK /\ ReplyInv /\ [Next]_vars => ReplyInv'
  <2> SUFFICES ASSUME TypeOK, ReplyInv, [Next]_vars PROVE ReplyInv'
    OBVIOUS
  <2> USE DEF ReplyInv, TypeOK, Goto, Release, ledger, posts, notices
  <2>1. ASSUME NEW c \in Comments, Commit(c) PROVE ReplyInv'
    BY <2>1 DEF Commit
  <2>2. ASSUME NEW c \in Comments, TokenInsertThrows(c) PROVE ReplyInv'
    BY <2>2 DEF TokenInsertThrows, Die, Active
  <2>3. ASSUME NEW c \in Comments, CheckReply(c) PROVE ReplyInv'
    <3>1. UNCHANGED comments
      BY <2>3 DEF CheckReply
    <3>2. \/ pc' = [pc EXCEPT ![c] = "rollback"]
          \/ pc' = [pc EXCEPT ![c] = "insert"] /\ CheckedReply(c)
      BY <2>3 DEF CheckReply, FindById
    <3> QED
      BY <3>1, <3>2
  <2>4. CASE \/ UNCHANGED vars
             \/ \E m \in Member : Grant(m) \/ TakeBack(m)
             \/ \E c \in Comments :
                  \/ CheckParent(c) \/ Begin(c) \/ AcquireLock(c) \/ ReadSent(c)
                  \/ ReadReceived(c) \/ InsertComment(c) \/ ReadMembers(c)
                  \/ Rollback(c) \/ StatementThrows(c) \/ SaveNotice(c) \/ LogicalDelete(c)
    BY <2>4 DEF Grant, TakeBack, CheckParent, Begin, AcquireLock, ReadSent, ReadReceived, Checked,
       InsertComment, ReadMembers, Rollback, StatementThrows, SaveNotice, LogicalDelete, vars
  <2>5. CASE Crash \/ \E c \in Comments : DeleteThrows(c)
    BY <2>5 DEF Crash, DeleteThrows, Die, Active
  <2> QED
    BY <2>1, <2>2, <2>3, <2>4, <2>5 DEF Next, RequestStep
<1>3. ReplyInv => ThreadsOneLevel
  <2> SUFFICES ASSUME ReplyInv, NEW t \in comments, ReplyTo[t] # Nobody
               PROVE  \E c \in DOMAIN CommentsShown : t \in CommentsShown[c]
    BY DEF ThreadsOneLevel
  <2>1. ReplyTo[t] \in comments /\ ReplyTo[ReplyTo[t]] = Nobody
    BY DEF ReplyInv
  <2>2. ReplyTo[t] \in DOMAIN CommentsShown /\ t \in CommentsShown[ReplyTo[t]]
    BY <2>1 DEF CommentsShown, Of
  <2> QED
    BY <2>2
<1> QED
  BY <1>1, <1>2, <1>3, TypeCorrect, PTL DEF Spec

NoticeInv ==
  \A c \in notified \cup queued : c \in comments \/ pc[c] = "commit" \/ c \in failed

(* Nobody is told of a comment that was refused. *)
THEOREM NoticesAccepted == Spec => []NoticeOfAccepted
<1>1. Init => NoticeInv
  BY DEF Init, NoticeInv
<1>2. TypeOK /\ NoticeInv /\ [Next]_vars => NoticeInv'
  <2> SUFFICES ASSUME TypeOK, NoticeInv, [Next]_vars PROVE NoticeInv'
    OBVIOUS
  <2> USE DEF NoticeInv, TypeOK, Goto, Release, ledger, posts, notices
  <2>1. ASSUME NEW c \in Comments, Commit(c) \/ ReadMembers(c) \/ SaveNotice(c)
        PROVE NoticeInv'
    BY <2>1 DEF Commit, ReadMembers, SaveNotice
  <2>2. ASSUME NEW c \in Comments, TokenInsertThrows(c) PROVE NoticeInv'
    BY <2>2 DEF TokenInsertThrows, Die, Active
  <2>3. CASE \/ UNCHANGED vars
             \/ \E m \in Member : Grant(m) \/ TakeBack(m)
             \/ \E c \in Comments :
                  \/ CheckParent(c) \/ Begin(c) \/ AcquireLock(c) \/ ReadSent(c)
                  \/ ReadReceived(c) \/ CheckReply(c) \/ InsertComment(c)
                  \/ Rollback(c) \/ StatementThrows(c) \/ LogicalDelete(c)
    BY <2>3 DEF Grant, TakeBack, CheckParent, Begin, AcquireLock, ReadSent, ReadReceived, Checked, CheckReply,
       InsertComment, Rollback, StatementThrows, LogicalDelete, vars
  <2>4. CASE Crash \/ \E c \in Comments : DeleteThrows(c)
    BY <2>4 DEF Crash, DeleteThrows, Die, Active
  <2> QED
    BY <2>1, <2>2, <2>3, <2>4 DEF Next, RequestStep
<1>3. NoticeInv => NoticeOfAccepted
  BY DEF NoticeInv, NoticeOfAccepted
<1> QED
  BY <1>1, <1>2, <1>3, TypeCorrect, PTL DEF Spec

-----------------------------------------------------------------------------
(* The ledger of the members that wait for the answer before their next        *)
(* comment.  The lock plays no part in it: what a request read stays true      *)
(* because no other request of its author is under way, and others, patient or *)
(* not, only add to what the author has received.                              *)

OneAtATime ==
  \A c, d \in Comments :
    Author[c] \in Patient /\ Author[c] = Author[d] /\ Active(c) /\ Active(d) => c = d

ReadIsFresh ==
  \A c \in Comments :
    Author[c] \in Patient /\ pc[c] = "readReceived" => seen[c] = sent[Author[c]]

Affordable ==
  \A c \in Comments :
    Author[c] \in Patient /\ pc[c] \in {"reply", "insert", "members", "commit"} =>
      sent[Author[c]] + Quantity[c] <= received[Author[c]] + taken[Author[c]]

TippedIsDone == \A c \in payments : pc[c] = "done"

LedgerInv == TypeOK /\ PatientNeverOverdrawn /\ OneAtATime /\ ReadIsFresh /\ Affordable /\ TippedIsDone

LEMMA LedgerInit == Init => LedgerInv
  BY TypeInit, BoundsAssumption
  DEF Init, TypeOK, LedgerInv, PatientNeverOverdrawn, OneAtATime, ReadIsFresh, Affordable,
      TippedIsDone, Active

LEMMA LedgerStep ==
  ASSUME LedgerInv, [Next]_vars PROVE LedgerInv'
<1> USE CommentAssumption, BoundsAssumption
        DEF LedgerInv, TypeOK, InTransaction, Goto, Release, Active, ledger, posts, notices
<1>0. TypeOK'
  BY TypeStep
<1>1. ASSUME NEW m \in Member, Grant(m) \/ TakeBack(m) PROVE LedgerInv'
  <2>1. /\ UNCHANGED <<sent, payments, pc, seen>>
        /\ \A n \in Member : received'[n] + taken'[n] >= received[n] + taken[n]
    BY <1>1 DEF Grant, TakeBack
  <2> QED
    BY <1>0, <2>1 DEF PatientNeverOverdrawn, OneAtATime, ReadIsFresh, Affordable, TippedIsDone
<1>2. ASSUME NEW c \in Comments, CheckParent(c) PROVE LedgerInv'
  <2>1. OneAtATime'
    BY <1>2 DEF CheckParent, OneAtATime
  <2> QED
    BY <1>0, <1>2, <2>1 DEF CheckParent, PatientNeverOverdrawn, ReadIsFresh, Affordable, TippedIsDone
<1>3. ASSUME NEW c \in Comments, Begin(c) PROVE LedgerInv'
  <2>1. Affordable'
    BY <1>3 DEF Begin, Affordable, PatientNeverOverdrawn
  <2> QED
    BY <1>0, <1>3, <2>1 DEF Begin, PatientNeverOverdrawn, OneAtATime, ReadIsFresh, TippedIsDone
<1>4. ASSUME NEW c \in Comments, ReadSent(c) \/ ReadReceived(c) PROVE LedgerInv'
  <2>1. CASE ReadSent(c)
    BY <1>0, <2>1
    DEF ReadSent, PatientNeverOverdrawn, OneAtATime, ReadIsFresh, Affordable, TippedIsDone
  <2>2. CASE ReadReceived(c)
    <3> USE <2>2 DEF ReadReceived, Checked
    <3>1. CASE ~(seen[c] + Quantity[c] <= received[Author[c]])
      BY <1>0, <3>1 DEF PatientNeverOverdrawn, OneAtATime, ReadIsFresh, Affordable, TippedIsDone
    <3>2. CASE seen[c] + Quantity[c] <= received[Author[c]]
      <4>1. /\ Author[c] \in Patient => sent[Author[c]] + Quantity[c] <= received[Author[c]]
            /\ taken' = [taken EXCEPT ![Author[c]] = 0]
            /\ pc' = [pc EXCEPT ![c] = "reply"]
        BY <3>2 DEF ReadIsFresh
      <4>2. PatientNeverOverdrawn'
        BY <4>1 DEF PatientNeverOverdrawn
      <4>3. ASSUME NEW d \in Comments, d # c, Active(d), Author[d] \in Patient
            PROVE  Author[d] # Author[c]
        BY <4>3 DEF OneAtATime
      <4>4. Affordable'
        BY <4>1, <4>3 DEF Affordable
      <4> QED
        BY <1>0, <4>1, <4>2, <4>4 DEF OneAtATime, ReadIsFresh, TippedIsDone
    <3> QED
      BY <3>1, <3>2
  <2> QED
    BY <1>4, <2>1, <2>2
<1>5. ASSUME NEW c \in Comments,
             \/ AcquireLock(c) \/ CheckReply(c) \/ InsertComment(c) \/ ReadMembers(c)
             \/ Rollback(c) \/ StatementThrows(c) \/ SaveNotice(c) \/ LogicalDelete(c)
      PROVE LedgerInv'
  <2>1. CASE CheckReply(c)
    <3>1. /\ UNCHANGED <<ledger, seen>> /\ pc[c] = "reply"
          /\ \E l \in {"insert", "rollback"} : pc' = [pc EXCEPT ![c] = l]
      BY <2>1 DEF CheckReply
    <3> QED
      BY <1>0, <3>1 DEF PatientNeverOverdrawn, OneAtATime, ReadIsFresh, Affordable, TippedIsDone
  <2>2. CASE \/ AcquireLock(c) \/ InsertComment(c) \/ ReadMembers(c) \/ Rollback(c)
             \/ StatementThrows(c) \/ SaveNotice(c) \/ LogicalDelete(c)
    BY <1>0, <2>2
    DEF AcquireLock, InsertComment, ReadMembers, Rollback, StatementThrows, SaveNotice,
        LogicalDelete, PatientNeverOverdrawn, OneAtATime, ReadIsFresh, Affordable, TippedIsDone
  <2> QED
    BY <1>5, <2>1, <2>2
<1>6. ASSUME NEW c \in Comments, Commit(c) PROVE LedgerInv'
  <2> USE <1>6 DEF Commit, Pay
  <2>1. /\ sent' = [sent EXCEPT ![Author[c]] = @ + Quantity[c]]
        /\ \A m \in Member : received[m] <= received'[m]
        /\ UNCHANGED taken
        /\ Author[c] \in Patient =>
             sent[Author[c]] + Quantity[c] <= received[Author[c]] + taken[Author[c]]
    BY DEF Affordable
  <2>2. PatientNeverOverdrawn'
    BY <2>1 DEF PatientNeverOverdrawn
  <2>3. ASSUME NEW d \in Comments, d # c, Active(d), Author[d] \in Patient
        PROVE  Author[d] # Author[c]
    BY <2>3 DEF OneAtATime
  <2>4. ReadIsFresh' /\ Affordable'
    BY <2>1, <2>3 DEF ReadIsFresh, Affordable
  <2> QED
    BY <1>0, <2>2, <2>4 DEF OneAtATime, TippedIsDone
<1>7. ASSUME NEW c \in Comments, TokenInsertThrows(c) PROVE LedgerInv'
  BY <1>0, <1>7
  DEF TokenInsertThrows, Die, PatientNeverOverdrawn, OneAtATime, ReadIsFresh, Affordable, TippedIsDone
<1>8. CASE Crash \/ \E c \in Comments : DeleteThrows(c)
  BY <1>0, <1>8
  DEF Crash, DeleteThrows, Die, PatientNeverOverdrawn, OneAtATime, ReadIsFresh, Affordable, TippedIsDone
<1>9. CASE UNCHANGED vars
  BY <1>0, <1>9 DEF vars, PatientNeverOverdrawn, OneAtATime, ReadIsFresh, Affordable, TippedIsDone
<1> QED
  BY <1>1, <1>2, <1>3, <1>4, <1>5, <1>6, <1>7, <1>8, <1>9 DEF Next, RequestStep

(* No member that waits for its answers ever sends more than it has received,  *)
(* but for what was taken back from it behind the last check that has passed.  *)
THEOREM NeverOverdrawn ==
  Spec => []PatientNeverOverdrawn
<1>1. LedgerInv /\ [Next]_vars => LedgerInv'
  BY LedgerStep
<1>2. LedgerInv => PatientNeverOverdrawn
  BY DEF LedgerInv
<1> QED
  BY <1>1, <1>2, LedgerInit, PTL DEF Spec

(* The ledger of such members is the abstract one: a comment moves its tokens  *)
(* once, as a whole, and only after they were found in the purse, with nothing *)
(* else spent in between.                                                      *)
THEOREM ImplementsLedger ==
  Spec => KeepsLedger
<1> DEFINE Purse == [m \in Member |-> received[m] - sent[m]]
           Passed == {"reply", "insert", "members", "commit"}
           Allowed == {c \in Comments : Quantity[c] > 0 /\ pc[c] \in Passed}
<1>1. Init => Promise!Init
  BY DEF Init, Promise!Init
<1>2. LedgerInv /\ [Next]_vars => [Promise!Next]_Promise!vars
  <2> SUFFICES ASSUME LedgerInv, [Next]_vars PROVE [Promise!Next]_Promise!vars
    OBVIOUS
  <2> USE CommentAssumption, BoundsAssumption
          DEF LedgerInv, TypeOK, Goto, ledger, posts, notices
  <2>1. ASSUME NEW m \in Member, NEW d \in {1, -1},
               /\ \A n \in Member : received'[n] - sent'[n] =
                                      IF n = m THEN (received[m] - sent[m]) + d
                                               ELSE received[n] - sent[n]
        PROVE  Purse' = [Purse EXCEPT ![m] = @ + d]
    <3>1. Purse' = [n \in Member |-> IF n = m THEN Purse[m] + d ELSE Purse[n]]
      BY <2>1, Zenon
    <3> QED
      BY <3>1
  <2>2. ASSUME NEW m \in Member, Grant(m) PROVE Promise!Next
    <3>1. \A n \in Member : received'[n] - sent'[n] =
                             IF n = m THEN (received[m] - sent[m]) + 1
                                      ELSE received[n] - sent[n]
      BY <2>2 DEF Grant
    <3>2. Purse' = [Purse EXCEPT ![m] = @ + 1]
      BY <2>1, <3>1
    <3>3. Promise!Fill(m)
      BY <2>2, <3>2 DEF Grant, Promise!Fill
    <3> QED
      BY <3>3 DEF Promise!Next
  <2>3. ASSUME NEW m \in Member, TakeBack(m) PROVE Promise!Next
    <3>1. \A n \in Member : received'[n] - sent'[n] =
                             IF n = m THEN (received[m] - sent[m]) + -1
                                      ELSE received[n] - sent[n]
      BY <2>3 DEF TakeBack
    <3>2. Purse' = [Purse EXCEPT ![m] = @ + -1]
      BY <2>1, <3>1
    <3>3. Purse' = [Purse EXCEPT ![m] = @ - 1]
      BY <3>2
    <3>4. Promise!TakeBack(m)
      BY <2>3, <3>3 DEF TakeBack, Promise!TakeBack
    <3> QED
      BY <3>4 DEF Promise!Next
  <2>4. ASSUME NEW c \in Comments, ReadReceived(c) PROVE [Promise!Next]_Promise!vars
    <3> USE <2>4 DEF ReadReceived, Checked
    <3>1. UNCHANGED <<received, sent, payments>> /\ pc[c] = "readReceived"
      OBVIOUS
    <3>2. CASE Allowed' = Allowed
      BY <3>1, <3>2 DEF Promise!vars
    <3>3. CASE Allowed' # Allowed
      <4>1. seen[c] + Quantity[c] <= received[Author[c]] /\ Allowed' = Allowed \cup {c}
        BY <3>3
      <4>2. Author[c] \in Patient => Quantity[c] <= Purse[Author[c]]
        BY <4>1 DEF ReadIsFresh
      <4>3. Author[c] \in Patient => \A d \in Allowed : Author[d] # Author[c]
        BY DEF OneAtATime, Active
      <4>4. c \notin Allowed \cup payments
        BY DEF TippedIsDone
      <4>5. Promise!Allow(c)
        BY <3>1, <4>1, <4>2, <4>3, <4>4 DEF Promise!Allow
      <4> QED
        BY <4>5 DEF Promise!Next
    <3> QED
      BY <3>2, <3>3
  <2>5. ASSUME NEW c \in Comments, Commit(c), Quantity[c] > 0 PROVE Promise!Next
    <3>1. c \in Allowed /\ Allowed' = Allowed \ {c}
      BY <2>5 DEF Commit, Release
    <3>2. Purse' = [m \in Member |->
                      Purse[m] + (IF m = Owner[c] THEN Quantity[c] ELSE 0)
                               - (IF m = Author[c] THEN Quantity[c] ELSE 0)]
      BY <2>5 DEF Commit, Pay
    <3>3. payments' = payments \cup {c}
      BY <2>5 DEF Commit, Pay
    <3>4. Promise!Tip(c)
      BY <3>1, <3>2, <3>3 DEF Promise!Tip
    <3> QED
      BY <3>4 DEF Promise!Next
  <2>6. ASSUME NEW c \in Comments, Commit(c), Quantity[c] = 0 PROVE UNCHANGED Promise!vars
    BY <2>6 DEF Commit, Release, Pay, Promise!vars
  <2>7. ASSUME UNCHANGED <<received, sent, payments>>, Allowed' \subseteq Allowed
        PROVE  [Promise!Next]_Promise!vars
    <3>1. Allowed' = Allowed \ (Allowed \ Allowed')
      BY <2>7
    <3>2. Promise!Refuse
      BY <2>7, <3>1 DEF Promise!Refuse
    <3> QED
      BY <3>2 DEF Promise!Next
  <2>8. ASSUME \/ Crash \/ (\E c \in Comments : DeleteThrows(c)) \/ UNCHANGED vars
               \/ \E c \in Comments :
                    \/ CheckParent(c) \/ Begin(c) \/ AcquireLock(c) \/ ReadSent(c)
                    \/ CheckReply(c) \/ InsertComment(c)
                    \/ ReadMembers(c) \/ Rollback(c) \/ StatementThrows(c)
                    \/ TokenInsertThrows(c) \/ SaveNotice(c) \/ LogicalDelete(c)
        PROVE  [Promise!Next]_Promise!vars
    <3>1. UNCHANGED <<received, sent, payments>>
      BY <2>8 DEF Crash, DeleteThrows, Die, CheckParent, Begin, AcquireLock, ReadSent,
         CheckReply, InsertComment, ReadMembers, Rollback, StatementThrows,
         TokenInsertThrows, SaveNotice, LogicalDelete, vars
    <3>2. CASE Crash \/ (\E c \in Comments : DeleteThrows(c) \/ TokenInsertThrows(c))
      BY <2>7, <3>1, <3>2 DEF Crash, DeleteThrows, TokenInsertThrows, Die, Active
    <3>3. CASE UNCHANGED pc
      BY <2>7, <3>1, <3>3
    <3>4. CASE \E c \in Comments :
                 \/ CheckParent(c) \/ Begin(c) \/ ReadSent(c) \/ CheckReply(c)
                 \/ InsertComment(c) \/ ReadMembers(c) \/ Rollback(c) \/ StatementThrows(c)
      <4>1. PICK c \in Comments :
              \/ CheckParent(c) \/ Begin(c) \/ ReadSent(c) \/ CheckReply(c)
              \/ InsertComment(c) \/ ReadMembers(c) \/ Rollback(c) \/ StatementThrows(c)
        BY <3>4
      <4>2. /\ \A d \in Comments \ {c} : pc'[d] = pc[d]
            /\ Quantity[c] > 0 /\ pc'[c] \in Passed => pc[c] \in Passed
        BY <4>1 DEF CheckParent, Begin, ReadSent, CheckReply, InsertComment, ReadMembers,
           Rollback, Release, StatementThrows, InTransaction
      <4> QED
        BY <2>7, <3>1, <4>2
    <3> QED
      BY <2>8, <3>2, <3>3, <3>4 DEF AcquireLock, SaveNotice, LogicalDelete, vars
  <2>9. ASSUME NEW c \in Comments PROVE Quantity[c] > 0 \/ Quantity[c] = 0
    OBVIOUS
  <2> QED
    BY <2>2, <2>3, <2>4, <2>5, <2>6, <2>8, <2>9 DEF Next, RequestStep
<1>3. LedgerInv /\ [Next]_vars => LedgerInv'
  BY LedgerStep
<1> QED
  BY <1>1, <1>2, <1>3, LedgerInit, PTL DEF Spec, KeepsLedger, Promise!Spec
=============================================================================
