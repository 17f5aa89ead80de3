--------------------------- MODULE MintBatchProofs ---------------------------
(***************************************************************************)
(* Theorems about MintBatch, for any contents, collections and jobs, any   *)
(* number of activations that overlap, and any number of mishaps.          *)
(***************************************************************************)
EXTENDS MintBatch, FiniteSetTheorems, TLAPS

(* A run that is about to write the row of a trophy or of merchandise has    *)
(* entered its NFT into mint_master before.                                  *)
MasterFirst ==
  \A r \in Runs :
    pc[r] = "row" /\ cur[r] \notin RowFirst => <<got[r], cur[r]>> \in master

IInv == TypeOK /\ MasterFirst /\ LinkComplete

-----------------------------------------------------------------------------
(* Types. *)
LEMMA TypeInit == Init => TypeOK
  BY BoundsAssumption DEF Init, TypeOK

(* What the three ways out of a row do to the local variables. *)
LEMMA TypeLocal ==
  ASSUME TypeOK, NEW r \in Runs, NextContent(r) \/ AbandonCollection(r)
  PROVE  /\ pc' \in [Runs -> {"idle", "next", "loop", "mint", "row", "master"}]
         /\ left' \in [Runs -> SUBSET Collections]
         /\ todo' \in [Runs -> SUBSET Content]
         /\ cur' \in [Runs -> Content \cup {NoContent}]
         /\ \A q \in Runs : pc'[q] \in {"mint", "row", "master"} => cur'[q] \in Content
         /\ got' \in [Runs -> Nat]
         /\ AbandonCollection(r) => shared' \in [Runs -> SUBSET Content]
  BY DEF TypeOK, NextContent, AbandonCollection, Goto, Ahead

LEMMA TypeStep == TypeOK /\ [Next]_vars => TypeOK'
<1> SUFFICES ASSUME TypeOK, [Next]_vars PROVE TypeOK'
  OBVIOUS
<1> USE DEF tables, local, history
<1>1. ASSUME NEW c \in Content, Queue(c) \/ OwnerWithdraws(c) PROVE TypeOK'
  BY <1>1 DEF TypeOK, Queue, OwnerWithdraws
<1>2. ASSUME NEW r \in Runs, StartRun(r) PROVE TypeOK'
  BY <1>2, RunsAssumption DEF TypeOK, StartRun, Goto
<1>3. ASSUME NEW r \in Runs, ReadCollection(r) PROVE TypeOK'
  BY <1>3 DEF TypeOK, ReadCollection, Goto, ToMint, Ahead
<1>4. ASSUME NEW r \in Runs, PickContent(r) PROVE TypeOK'
  <2>1. CASE AbandonCollection(r)
    BY <1>4, <2>1, TypeLocal DEF TypeOK, PickContent
  <2>2. CASE ~AbandonCollection(r)
    BY <1>4, <2>2 DEF TypeOK, PickContent, Goto
  <2> QED
    BY <2>1, <2>2
<1>5. ASSUME NEW r \in Runs, Mint(r) PROVE TypeOK'
  BY <1>5 DEF TypeOK, Mint, DeleteFile, Goto
<1>6. ASSUME NEW r \in Runs, SaveRow(r) PROVE TypeOK'
  <2>1. CASE NextContent(r)
    BY <1>6, <2>1, TypeLocal DEF TypeOK, SaveRow
  <2>2. CASE ~NextContent(r)
    BY <1>6, <2>2 DEF TypeOK, SaveRow, Goto
  <2> QED
    BY <2>1, <2>2
<1>7. ASSUME NEW r \in Runs, InsertMaster(r) PROVE TypeOK'
  <2>1. CASE NextContent(r)
    BY <1>7, <2>1, TypeLocal DEF TypeOK, InsertMaster
  <2>2. CASE ~NextContent(r)
    BY <1>7, <2>2 DEF TypeOK, InsertMaster, Goto
  <2> QED
    BY <2>1, <2>2
<1>8. ASSUME NEW r \in Runs, MintThrows(r) PROVE TypeOK'
  BY <1>8, TypeLocal, BoundsAssumption DEF TypeOK, MintThrows, DeleteFile, Mishap
<1>9. ASSUME NEW r \in Runs, StatementThrows(r) PROVE TypeOK'
  BY <1>9, TypeLocal, BoundsAssumption DEF TypeOK, StatementThrows, Mishap
<1>10. CASE Crash
  <2>1. \A c \in Content : Cardinality({r \in Runs : Unrecorded(r, c)}) \in Nat
    BY RunsAssumption, FS_Subset, FS_CardinalityType
  <2>2. excuses' \in [Content -> Nat]
    BY <1>10, <2>1 DEF TypeOK, Crash
  <2> QED
    BY <1>10, <2>2, BoundsAssumption DEF TypeOK, Crash, Mishap
<1>11. CASE UNCHANGED vars
  BY <1>11 DEF TypeOK, vars
<1> QED
  BY <1>1, <1>2, <1>3, <1>4, <1>5, <1>6, <1>7, <1>8, <1>9, <1>10, <1>11 DEF Next, RunStep

(* Type correctness of every state the minting jobs reach. *)
THEOREM TypeCorrect == Spec => []TypeOK
  BY TypeInit, TypeStep, PTL DEF Spec

-----------------------------------------------------------------------------
(* Rows and mint_master.  A row gets a new NFT only in SaveRow, where          *)
(* MasterFirst speaks for trophies and merchandise and the run itself for the  *)
(* others; a run leaves "master" by inserting, or leaves the content torn.     *)

LEMMA InvInit == Init => IInv
  BY TypeInit DEF Init, IInv, MasterFirst, LinkComplete

LEMMA InvWrites ==
  ASSUME IInv, TypeOK', NEW r \in Runs, SaveRow(r) \/ InsertMaster(r)
  PROVE  MasterFirst' /\ LinkComplete'
<1> USE DEF IInv, TypeOK, tables, history, Goto, Unlinked
<1>1. CASE SaveRow(r)
  <2>1. MasterFirst'
    BY <1>1 DEF SaveRow, NextContent, Ahead, MasterFirst
  <2>2. LinkComplete'
    <3> SUFFICES ASSUME NEW c \in Content, column'[c] > 0
                 PROVE  \/ <<column'[c], c>> \in master'
                        \/ c \in RowFirst /\ c \in torn'
                        \/ \E q \in Runs : Unlinked(q, c)' /\ got'[q] = column'[c]
      BY DEF LinkComplete
    <3>1. CASE c = cur[r] /\ c \in RowFirst
      BY <1>1, <3>1 DEF SaveRow
    <3>2. CASE c = cur[r] /\ c \notin RowFirst
      BY <1>1, <3>2 DEF SaveRow, MasterFirst
    <3>3. CASE c # cur[r]
      BY <1>1, <3>3 DEF SaveRow, NextContent, LinkComplete
    <3> QED
      BY <3>1, <3>2, <3>3
  <2> QED
    BY <2>1, <2>2
<1>2. CASE InsertMaster(r)
  <2>1. MasterFirst'
    BY <1>2 DEF InsertMaster, NextContent, Ahead, MasterFirst
  <2>2. LinkComplete'
    BY <1>2 DEF InsertMaster, NextContent, LinkComplete
  <2> QED
    BY <2>1, <2>2
<1> QED
  BY <1>1, <1>2

LEMMA InvFailures ==
  ASSUME IInv, TypeOK',
         \/ \E r \in Runs : MintThrows(r) \/ StatementThrows(r)
         \/ Crash
  PROVE  MasterFirst' /\ LinkComplete'
<1> USE DEF IInv, TypeOK, tables, Goto, Unlinked, Ahead
<1>1. ASSUME NEW r \in Runs, MintThrows(r) PROVE MasterFirst' /\ LinkComplete'
  BY <1>1 DEF MintThrows, AbandonCollection, MasterFirst, LinkComplete
<1>2. ASSUME NEW r \in Runs, StatementThrows(r) PROVE MasterFirst' /\ LinkComplete'
  BY <1>2 DEF StatementThrows, AbandonCollection, MasterFirst, LinkComplete
<1>3. CASE Crash
  BY <1>3 DEF Crash, MasterFirst, LinkComplete
<1> QED
  BY <1>1, <1>2, <1>3

LEMMA InvOthers ==
  ASSUME IInv, TypeOK',
         \/ \E c \in Content : Queue(c) \/ OwnerWithdraws(c)
         \/ \E r \in Runs : StartRun(r) \/ ReadCollection(r) \/ PickContent(r) \/ Mint(r)
         \/ UNCHANGED vars
  PROVE  MasterFirst' /\ LinkComplete'
<1> USE DEF IInv, TypeOK, tables, local, history, Goto, Unlinked, Ahead
<1>1. ASSUME NEW c \in Content, Queue(c) \/ OwnerWithdraws(c)
      PROVE  MasterFirst' /\ LinkComplete'
  BY <1>1 DEF Queue, OwnerWithdraws, MasterFirst, LinkComplete
<1>2. ASSUME NEW r \in Runs, StartRun(r) \/ ReadCollection(r)
      PROVE  MasterFirst' /\ LinkComplete'
  BY <1>2 DEF StartRun, ReadCollection, MasterFirst, LinkComplete
<1>3. ASSUME NEW r \in Runs, PickContent(r) PROVE MasterFirst' /\ LinkComplete'
  BY <1>3 DEF PickContent, AbandonCollection, MasterFirst, LinkComplete
<1>4. ASSUME NEW r \in Runs, Mint(r) PROVE MasterFirst' /\ LinkComplete'
  BY <1>4 DEF Mint, MasterFirst, LinkComplete
<1>5. CASE UNCHANGED vars
  BY <1>5 DEF vars, MasterFirst, LinkComplete
<1> QED
  BY <1>1, <1>2, <1>3, <1>4, <1>5

(* A row never names an NFT that mint_master lacks, but for a lure or a        *)
(* fishing result between its two writes, or torn between them.                *)
THEOREM LinksComplete == Spec => []LinkComplete
<1>1. IInv /\ [Next]_vars => IInv'
  <2> SUFFICES ASSUME IInv, [Next]_vars PROVE IInv'
    OBVIOUS
  <2>1. TypeOK'
    BY TypeStep DEF IInv
  <2> QED
    BY <2>1, InvWrites, InvFailures, InvOthers DEF Next, RunStep, IInv
<1>2. IInv => LinkComplete
  BY DEF IInv
<1> QED
  BY InvInit, <1>1, <1>2, PTL DEF Spec

-----------------------------------------------------------------------------
(* Duplicates.  The runs that may still mint a content without an excuse count *)
(* as NFTs to come: NFTs and such runs together never exceed 1 + excuses, and  *)
(* the NFTs of a content that no such run has ahead of it, none has minted and *)
(* is about to record, and that is not recorded are paid for by excuses alone. *)

Pending(r, c) ==
  (c \in todo[r] \/ (cur[r] = c /\ pc[r] = "mint")) /\ c \notin shared[r]
Holders(c) == {r \in Runs : Pending(r, c)}

LocalInv ==
  \A r \in Runs :
    /\ pc[r] \in {"idle", "next"} => todo[r] = {}
    /\ pc[r] \in {"idle", "next", "loop"} => cur[r] = NoContent
    /\ cur[r] \notin todo[r]
    /\ pc[r] \in {"row", "master"} => got[r] > 0

Counted(c) ==
  /\ nfts[c] + Cardinality(Holders(c)) <= 1 + excuses[c]
  /\ column[c] = 0 /\ (\A r \in Runs : ~Pending(r, c) /\ ~Unrecorded(r, c)) =>
       nfts[c] <= excuses[c]

DupInv == TypeOK /\ LocalInv /\ \A c \in Content : Counted(c)

(* Counting runs. *)
LEMMA CardRuns ==
  /\ \A S \in SUBSET Runs : Cardinality(S) \in Nat
  /\ \A S, T \in SUBSET Runs : S \subseteq T => Cardinality(S) <= Cardinality(T)
  /\ \A S \in SUBSET Runs : S # {} => Cardinality(S) > 0
  /\ \A S \in SUBSET Runs, r \in Runs :
       r \in S => Cardinality(S \ {r}) = Cardinality(S) - 1
  /\ \A S \in SUBSET Runs, r \in Runs :
       Cardinality(S \cup {r}) <= Cardinality(S) + 1
<1>1. \A S \in SUBSET Runs : IsFiniteSet(S) /\ Cardinality(S) \in Nat
  BY RunsAssumption, FS_Subset, FS_CardinalityType
<1>2. \A S, T \in SUBSET Runs : S \subseteq T => Cardinality(S) <= Cardinality(T)
  BY <1>1, FS_Subset
<1>3. \A S \in SUBSET Runs : S # {} => Cardinality(S) > 0
  BY <1>1, FS_EmptySet
<1>4. \A S \in SUBSET Runs, r \in Runs :
        r \in S => Cardinality(S \ {r}) = Cardinality(S) - 1
  BY <1>1, FS_RemoveElement
<1>5. \A S \in SUBSET Runs, r \in Runs : Cardinality(S \cup {r}) <= Cardinality(S) + 1
  <2> SUFFICES ASSUME NEW S \in SUBSET Runs, NEW r \in Runs
               PROVE  Cardinality(S \cup {r}) <= Cardinality(S) + 1
    OBVIOUS
  <2>1. Cardinality(S) \in Nat /\ IsFiniteSet(S)
    BY <1>1
  <2>2. Cardinality(S \cup {r}) = IF r \in S THEN Cardinality(S) ELSE Cardinality(S) + 1
    BY <2>1, FS_AddElement
  <2> QED
    BY <2>1, <2>2
<1> QED
  BY <1>1, <1>2, <1>3, <1>4, <1>5

(* If no run takes a content in hand and none mints it, its count stays good: *)
(* a run that had minted it goes away with an excuse or a record.             *)
LEMMA CountKept ==
  ASSUME DupInv, TypeOK', NEW c \in Content,
         nfts'[c] = nfts[c], excuses'[c] >= excuses[c],
         \A r \in Runs : Pending(r, c)' => Pending(r, c),
         column'[c] = 0 => column[c] = 0,
         \/ column'[c] > 0
         \/ excuses'[c] > excuses[c]
         \/ \A r \in Runs : Unrecorded(r, c) => Unrecorded(r, c)'
  PROVE  Counted(c)'
<1> DEFINE H == Holders(c)
           G == Holders(c)'
<1>1. H \in SUBSET Runs /\ G \in SUBSET Runs /\ G \subseteq H
  BY DEF Holders
<1>2. Cardinality(H) \in Nat /\ Cardinality(G) \in Nat /\ Cardinality(G) <= Cardinality(H)
  BY <1>1, CardRuns
<1>3. nfts[c] \in Nat /\ excuses[c] \in Nat /\ excuses'[c] \in Nat /\ column'[c] \in Nat
  BY DEF DupInv, TypeOK
<1>4. nfts[c] + Cardinality(H) <= 1 + excuses[c]
  BY DEF DupInv, Counted
<1>5. nfts'[c] + Cardinality(G) <= 1 + excuses'[c]
  <2> HIDE DEF H, G
  <2> QED
    BY <1>2, <1>3, <1>4
<1>6. ASSUME column'[c] = 0, \A r \in Runs : ~Pending(r, c)' /\ ~Unrecorded(r, c)'
      PROVE  nfts'[c] <= excuses'[c]
  <2>1. CASE \E r \in Runs : Pending(r, c)
    <3>1. Cardinality(H) > 0
      BY <1>1, <2>1, CardRuns DEF Holders
    <3> HIDE DEF H, G
    <3> QED
      BY <3>1, <1>2, <1>3, <1>4
  <2>2. CASE \E r \in Runs : Unrecorded(r, c)
    <3>1. excuses'[c] > excuses[c]
      BY <1>3, <1>6, <2>2
    <3> HIDE DEF H, G
    <3> QED
      BY <3>1, <1>2, <1>3, <1>4
  <2>3. CASE \A r \in Runs : ~Pending(r, c) /\ ~Unrecorded(r, c)
    <3>1. nfts[c] <= excuses[c]
      BY <1>6, <2>3 DEF DupInv, Counted
    <3> QED
      BY <3>1, <1>3
  <2> QED
    BY <2>1, <2>2, <2>3
<1> QED
  BY <1>5, <1>6 DEF Counted

LEMMA LocalInit == Init => DupInv
<1> SUFFICES ASSUME Init PROVE DupInv
  OBVIOUS
<1>1. TypeOK /\ LocalInv
  BY TypeInit, ContentAssumption DEF Init, LocalInv
<1>2. ASSUME NEW c \in Content PROVE Counted(c)
  <2>1. Holders(c) = {}
    BY <1>2, ContentAssumption DEF Init, Holders, Pending
  <2>2. Cardinality(Holders(c)) = 0
    BY <2>1, FS_EmptySet
  <2> QED
    BY <2>2 DEF Init, Counted
<1> QED
  BY <1>1, <1>2 DEF DupInv

LEMMA LocalStep == TypeOK /\ LocalInv /\ [Next]_vars => LocalInv'
<1> SUFFICES ASSUME TypeOK, LocalInv, [Next]_vars PROVE LocalInv'
  OBVIOUS
<1> USE ContentAssumption DEF TypeOK, LocalInv, tables, local, history, Goto, Ahead
<1>1. ASSUME NEW c \in Content, Queue(c) \/ OwnerWithdraws(c) PROVE LocalInv'
  BY <1>1 DEF Queue, OwnerWithdraws
<1>2. ASSUME NEW r \in Runs, StartRun(r) \/ ReadCollection(r) PROVE LocalInv'
  BY <1>2 DEF StartRun, ReadCollection, ToMint
<1>3. ASSUME NEW r \in Runs, PickContent(r) PROVE LocalInv'
  BY <1>3 DEF PickContent, AbandonCollection
<1>4. ASSUME NEW r \in Runs, Mint(r) \/ MintThrows(r) PROVE LocalInv'
  BY <1>4 DEF Mint, MintThrows, AbandonCollection
<1>5. ASSUME NEW r \in Runs, SaveRow(r) \/ InsertMaster(r) PROVE LocalInv'
  BY <1>5 DEF SaveRow, InsertMaster, NextContent
<1>6. ASSUME NEW r \in Runs, StatementThrows(r) PROVE LocalInv'
  BY <1>6 DEF StatementThrows, AbandonCollection
<1>7. CASE Crash
  BY <1>7 DEF Crash
<1>8. CASE UNCHANGED vars
  BY <1>8 DEF vars
<1> QED
  BY <1>1, <1>2, <1>3, <1>4, <1>5, <1>6, <1>7, <1>8 DEF Next, RunStep

(* A run lists a collection: a row that another run has in hand is shared, and *)
(* of a row that nobody has in hand it is the only holder.                     *)
LEMMA CountRead ==
  ASSUME DupInv, TypeOK', NEW r \in Runs, ReadCollection(r), NEW c \in Content
  PROVE  Counted(c)'
<1>1. PICK k \in left[r] :
        /\ todo' = [todo EXCEPT ![r] = ToMint(k)]
        /\ shared' = [shared EXCEPT ![r] =
                        {e \in ToMint(k) : \E q \in Runs \ {r} : InHand(q, e)}]
  BY DEF ReadCollection
<1>2. /\ pc[r] = "next" /\ todo[r] = {} /\ cur[r] = NoContent /\ cur' = cur
      /\ \A q \in Runs \ {r} : pc'[q] = pc[q]
      /\ pc'[r] \in {"loop", "next", "idle"}
      /\ nfts' = nfts /\ column' = column /\ excuses' = excuses
  BY DEF ReadCollection, Goto, Ahead, tables, DupInv, TypeOK, LocalInv
<1>3. nfts[c] \in Nat /\ excuses[c] \in Nat
  BY DEF DupInv, TypeOK
<1>4. CASE c \in ToMint(k) /\ ~(\E q \in Runs \ {r} : InHand(q, c))
  <2>1. \A q \in Runs : ~InHand(q, c)
    BY <1>2, <1>4, ContentAssumption DEF InHand, Unrecorded
  <2>2. nfts[c] <= excuses[c]
    BY <1>4, <2>1 DEF DupInv, Counted, ToMint, InHand, Pending
  <2>3. Holders(c)' = {r} /\ Pending(r, c)'
    BY <1>1, <1>2, <1>4, <2>1, ContentAssumption DEF Holders, Pending, InHand, DupInv, TypeOK
  <2>4. Cardinality(Holders(c)') = 1
    BY <2>3, FS_Singleton
  <2>5. nfts'[c] + Cardinality(Holders(c)') <= 1 + excuses'[c]
    BY <1>2, <1>3, <2>2, <2>4
  <2> QED
    BY <2>3, <2>5 DEF Counted
<1>5. CASE c \notin ToMint(k) \/ \E q \in Runs \ {r} : InHand(q, c)
  <2>1. \A q \in Runs : Pending(q, c)' => Pending(q, c)
    BY <1>1, <1>2, <1>5 DEF Pending, DupInv, TypeOK
  <2>2. \A q \in Runs : Unrecorded(q, c) => Unrecorded(q, c)'
    BY <1>2 DEF Unrecorded, DupInv, TypeOK
  <2> QED
    BY <1>2, <1>3, <2>1, <2>2, CountKept
<1> QED
  BY <1>4, <1>5

(* An NFT comes into being: the run shared the content and this is its excuse, *)
(* or it is no holder any more; it goes on to the row or leaves it with an     *)
(* excuse.                                                                     *)
LEMMA CountMint ==
  ASSUME DupInv, TypeOK', NEW r \in Runs, Mint(r) \/ MintThrows(r), NEW c \in Content
  PROVE  Counted(c)'
<1>1. /\ pc[r] = "mint" /\ cur[r] \in Content /\ column' = column
      /\ \A q \in Runs \ {r} : /\ pc'[q] = pc[q] /\ cur'[q] = cur[q]
                             /\ todo'[q] = todo[q] /\ shared'[q] = shared[q]
      /\ todo'[r] \subseteq todo[r] /\ cur'[r] \in {cur[r], NoContent} /\ pc'[r] # "mint"
      /\ cur[r] \notin todo[r]
  BY DEF Mint, MintThrows, AbandonCollection, Goto, Ahead, tables, DupInv, TypeOK, LocalInv
<1>2. \A q \in Runs : Pending(q, c)' => Pending(q, c)
  <2>1. todo'[r] = {} \/ shared'[r] = shared[r] \ {cur[r]}
    BY DEF Mint, MintThrows, AbandonCollection, DupInv, TypeOK
  <2> QED
    BY <1>1, <2>1 DEF Pending
<1>3. nfts[c] \in Nat /\ excuses[c] \in Nat
  BY DEF DupInv, TypeOK
<1>4. excuses'[c] >= excuses[c] /\ excuses'[c] \in Nat
  BY <1>3 DEF Mint, MintThrows, DupInv, TypeOK
<1>5. CASE nfts'[c] = nfts[c]
  <2>1. \A q \in Runs : Unrecorded(q, c) => Unrecorded(q, c)'
    BY <1>1 DEF Unrecorded
  <2> QED
    BY <1>1, <1>2, <1>4, <1>5, <2>1, CountKept
<1>6. CASE nfts'[c] # nfts[c]
  <2> DEFINE H == Holders(c)
             G == Holders(c)'
  <2>1. c = cur[r] /\ nfts'[c] = nfts[c] + 1
    BY <1>6 DEF Mint, MintThrows, DupInv, TypeOK
  <2>2. H \in SUBSET Runs /\ G \in SUBSET Runs /\ G \subseteq H \ {r}
    BY <1>1, <1>2, <2>1 DEF Holders, Pending
  <2>3. Cardinality(H) \in Nat /\ Cardinality(G) \in Nat /\ Cardinality(G) <= Cardinality(H)
    BY <2>2, CardRuns
  <2>4. nfts[c] + Cardinality(H) <= 1 + excuses[c]
    BY DEF DupInv, Counted
  <2>5. r \in H <=> c \notin shared[r]
    BY <1>1, <2>1 DEF Holders, Pending
  <2>6. r \in H => Cardinality(G) <= Cardinality(H) - 1
    <3>1. H \ {r} \in SUBSET Runs
      BY <2>2
    <3> HIDE DEF H, G
    <3>2. ASSUME r \in H PROVE Cardinality(G) <= Cardinality(H) - 1
      <4>1. Cardinality(H \ {r}) = Cardinality(H) - 1
        BY <2>2, <3>2, CardRuns
      <4> QED
        BY <2>2, <3>1, <4>1, CardRuns
    <3> QED
      BY <3>2
  <2>7. CASE Mint(r)
    <3>1. Unrecorded(r, c)'
      BY <2>1, <2>7 DEF Mint, Unrecorded, Goto, DupInv, TypeOK
    <3>2. r \notin H => excuses'[c] = excuses[c] + 1
      BY <2>1, <2>5, <2>7 DEF Mint, DupInv, TypeOK
    <3>3. nfts'[c] + Cardinality(G) <= 1 + excuses'[c]
      <4> HIDE DEF H, G
      <4> QED
        BY <1>3, <1>4, <2>1, <2>3, <2>4, <2>6, <3>2
    <3> QED
      BY <3>1, <3>3 DEF Counted
  <2>8. CASE MintThrows(r)
    <3>1. excuses'[c] = excuses[c] + 1
      BY <1>6, <2>1, <2>8 DEF MintThrows, DupInv, TypeOK
    <3>2. nfts'[c] + Cardinality(G) <= 1 + excuses'[c]
      <4> HIDE DEF H, G
      <4> QED
        BY <1>3, <2>1, <2>3, <2>4, <3>1
    <3>3. ASSUME column'[c] = 0, \A q \in Runs : ~Pending(q, c)' /\ ~Unrecorded(q, c)'
          PROVE  nfts'[c] <= excuses'[c]
      <4>1. CASE r \in H
        <5>1. Cardinality(H) > 0
          BY <2>2, <4>1, CardRuns
        <5> HIDE DEF H, G
        <5> QED
          BY <1>3, <2>1, <2>3, <2>4, <3>1, <5>1
      <4>2. CASE r \notin H
        <5>1. \A q \in Runs : ~Pending(q, c) /\ ~Unrecorded(q, c)
          BY <1>1, <2>5, <3>3, <4>2 DEF Pending, Unrecorded
        <5>2. nfts[c] <= excuses[c]
          BY <1>1, <3>3, <5>1 DEF DupInv, Counted
        <5> QED
          BY <1>3, <2>1, <3>1, <5>2
      <4> QED
        BY <4>1, <4>2
    <3> QED
      BY <3>2, <3>3 DEF Counted
  <2> QED
    BY <2>7, <2>8
<1> QED
  BY <1>5, <1>6

(* The other steps take no content in hand and mint nothing. *)
LEMMA CountOthers ==
  ASSUME DupInv, TypeOK', NEW c \in Content,
         \/ \E d \in Content : Queue(d) \/ OwnerWithdraws(d)
         \/ \E r \in Runs :
              \/ StartRun(r) \/ PickContent(r) \/ SaveRow(r) \/ InsertMaster(r)
              \/ StatementThrows(r)
         \/ Crash \/ UNCHANGED vars
  PROVE  Counted(c)'
<1>0. nfts[c] \in Nat /\ excuses[c] \in Nat /\ column[c] \in Nat
  BY DEF DupInv, TypeOK
<1>1. CASE (\E d \in Content : Queue(d) \/ OwnerWithdraws(d)) \/ UNCHANGED vars
  <2>1. /\ nfts' = nfts /\ excuses' = excuses /\ column' = column
        /\ pc' = pc /\ cur' = cur /\ todo' = todo /\ shared' = shared
    BY <1>1 DEF Queue, OwnerWithdraws, vars, tables, local, history
  <2>2. /\ \A q \in Runs : Pending(q, c)' => Pending(q, c)
        /\ \A q \in Runs : Unrecorded(q, c) => Unrecorded(q, c)'
    BY <2>1 DEF Pending, Unrecorded
  <2> QED
    BY <1>0, <2>1, <2>2, CountKept
<1>2. ASSUME NEW r \in Runs, StartRun(r) \/ PickContent(r) PROVE Counted(c)'
  <2>1. nfts' = nfts /\ excuses' = excuses /\ column' = column
    BY <1>2 DEF StartRun, PickContent, tables, history
  <2>2. /\ \A q \in Runs : Pending(q, c)' => Pending(q, c)
        /\ \A q \in Runs : Unrecorded(q, c) => Unrecorded(q, c)'
    BY <1>2, ContentAssumption DEF StartRun, PickContent, AbandonCollection, Goto, Ahead, Pending,
       Unrecorded, history, DupInv, TypeOK, LocalInv
  <2> QED
    BY <1>0, <2>1, <2>2, CountKept
<1>3. ASSUME NEW r \in Runs, SaveRow(r) PROVE Counted(c)'
  <2>1. nfts' = nfts /\ excuses' = excuses
    BY <1>3 DEF SaveRow, history
  <2>2. \A q \in Runs : Pending(q, c)' => Pending(q, c)
    BY <1>3, ContentAssumption
    DEF SaveRow, NextContent, Goto, Ahead, Pending, history, DupInv, TypeOK
  <2>3. CASE c = cur[r]
    <3>1. column'[c] > 0
      BY <1>3, <2>3 DEF SaveRow, DupInv, TypeOK, LocalInv
    <3> QED
      BY <1>0, <2>1, <2>2, <3>1, CountKept
  <2>4. CASE c # cur[r]
    <3>1. column'[c] = column[c]
      BY <1>3, <2>4 DEF SaveRow, DupInv, TypeOK
    <3>2. \A q \in Runs : Unrecorded(q, c) => Unrecorded(q, c)'
      BY <1>3, <2>4 DEF SaveRow, NextContent, Goto, Ahead, Unrecorded, DupInv, TypeOK
    <3> QED
      BY <1>0, <2>1, <2>2, <3>1, <3>2, CountKept
  <2> QED
    BY <2>3, <2>4
<1>4. ASSUME NEW r \in Runs, InsertMaster(r) PROVE Counted(c)'
  <2>1. nfts' = nfts /\ excuses' = excuses /\ column' = column
    BY <1>4 DEF InsertMaster, history
  <2>2. /\ \A q \in Runs : Pending(q, c)' => Pending(q, c)
        /\ \A q \in Runs : Unrecorded(q, c) => Unrecorded(q, c)'
    BY <1>4, ContentAssumption DEF InsertMaster, NextContent, Goto, Ahead, Pending, Unrecorded,
       history, DupInv, TypeOK
  <2> QED
    BY <1>0, <2>1, <2>2, CountKept
<1>5. ASSUME NEW r \in Runs, StatementThrows(r) PROVE Counted(c)'
  <2>1. nfts' = nfts /\ column' = column
    BY <1>5 DEF StatementThrows, tables
  <2>2. \A q \in Runs : Pending(q, c)' => Pending(q, c)
    BY <1>5, ContentAssumption
    DEF StatementThrows, AbandonCollection, Goto, Ahead, Pending, DupInv, TypeOK
  <2>3. CASE Unrecorded(r, c)
    <3>1. excuses'[c] = excuses[c] + 1
      BY <1>5, <2>3 DEF StatementThrows, DupInv, TypeOK
    <3> QED
      BY <1>0, <2>1, <2>2, <3>1, CountKept
  <2>4. CASE ~Unrecorded(r, c)
    <3>1. excuses'[c] = excuses[c]
      BY <1>5, <2>4 DEF StatementThrows, DupInv, TypeOK
    <3>2. \A q \in Runs : Unrecorded(q, c) => Unrecorded(q, c)'
      BY <1>5, <2>4
      DEF StatementThrows, AbandonCollection, Goto, Unrecorded, DupInv, TypeOK
    <3> QED
      BY <1>0, <2>1, <2>2, <3>1, <3>2, CountKept
  <2> QED
    BY <2>3, <2>4
<1>6. CASE Crash
  <2> DEFINE U == {r \in Runs : Unrecorded(r, c)}
  <2>1. nfts' = nfts /\ column' = column /\ excuses'[c] = excuses[c] + Cardinality(U)
    BY <1>6 DEF Crash, tables
  <2>2. \A q \in Runs : ~Pending(q, c)'
    BY <1>6, ContentAssumption DEF Crash, Pending
  <2>3. Cardinality(U) \in Nat /\ (U # {} => Cardinality(U) > 0)
    BY CardRuns
  <2>4. excuses'[c] >= excuses[c] /\ (U # {} => excuses'[c] > excuses[c])
    <3> HIDE DEF U
    <3> QED
      BY <1>0, <2>1, <2>3
  <2>5. excuses'[c] > excuses[c] \/ \A q \in Runs : Unrecorded(q, c) => Unrecorded(q, c)'
    BY <2>4
  <2> QED
    BY <1>0, <2>1, <2>2, <2>4, <2>5, CountKept
<1> QED
  BY <1>1, <1>2, <1>3, <1>4, <1>5, <1>6

LEMMA DupStep == DupInv /\ [Next]_vars => DupInv'
<1> SUFFICES ASSUME DupInv, [Next]_vars PROVE DupInv'
  OBVIOUS
<1>1. TypeOK' /\ LocalInv'
  BY TypeStep, LocalStep DEF DupInv
<1>2. ASSUME NEW c \in Content PROVE Counted(c)'
  BY <1>1, <1>2, CountRead, CountMint, CountOthers DEF Next, RunStep
<1> QED
  BY <1>1, <1>2 DEF DupInv

LEMMA DupInvImplies == DupInv => DuplicatesExplained
<1> SUFFICES ASSUME DupInv, NEW c \in Content PROVE nfts[c] <= 1 + excuses[c]
  BY DEF DuplicatesExplained
<1>1. Cardinality(Holders(c)) \in Nat /\ nfts[c] \in Nat /\ excuses[c] \in Nat
  BY CardRuns DEF Holders, DupInv, TypeOK
<1>2. nfts[c] + Cardinality(Holders(c)) <= 1 + excuses[c]
  BY DEF DupInv, Counted
<1> QED
  BY <1>1, <1>2

(* Every NFT beyond a content's first has its excuse, however many jobs        *)
(* overlap, throw or die.                                                      *)
THEOREM NoUnexplainedDuplicate == Spec => []DuplicatesExplained
  BY LocalInit, DupStep, DupInvImplies, PTL DEF Spec

-----------------------------------------------------------------------------
(* One NFT per content.  Nothing in the code keeps an activation from         *)
(* starting while an earlier one is at work: the excuses are there for that    *)
(* and for what fails between the mint and the row.  Without both, each NFT    *)
(* is the only one.  The jobs of different collections may overlap as before.  *)

JobsApart ==
  \A r, q \in Runs :
    r # q /\ Visits[r] \cap Visits[q] # {} => pc[r] = "idle" \/ pc[q] = "idle"

OneNftEach ==
  \A c \in Content :
    /\ nfts[c] <= 1
    /\ column[c] > 0 => <<column[c], c>> \in master \/ \E r \in Runs : Unlinked(r, c)

(* What a run has at hand or ahead of it is of the collections of its job. *)
OwnWork ==
  \A r \in Runs :
    /\ left[r] \subseteq Visits[r]
    /\ \A c \in Content : c \in todo[r] \/ cur[r] = c => CollectionOf[c] \in Visits[r]

NoExcuses ==
  /\ \A c \in Content : excuses[c] = 0
  /\ torn = {}
  /\ \A r \in Runs : shared[r] = {}

LEMMA OwnWorkStep == TypeOK /\ OwnWork /\ [Next]_vars => OwnWork'
<1> SUFFICES ASSUME TypeOK, OwnWork, [Next]_vars PROVE OwnWork'
  OBVIOUS
<1> USE ContentAssumption, RunsAssumption
<1>1. CASE (\E c \in Content : Queue(c) \/ OwnerWithdraws(c)) \/ UNCHANGED vars
  BY <1>1 DEF Queue, OwnerWithdraws, vars, local, OwnWork
<1>2. ASSUME NEW r \in Runs, StartRun(r) PROVE OwnWork'
  BY <1>2 DEF StartRun, OwnWork, TypeOK
<1>3. ASSUME NEW r \in Runs, ReadCollection(r) PROVE OwnWork'
  BY <1>3 DEF ReadCollection, ToMint, OwnWork, TypeOK
<1>4. ASSUME NEW r \in Runs, PickContent(r) PROVE OwnWork'
  BY <1>4 DEF PickContent, AbandonCollection, OwnWork, TypeOK
<1>5. ASSUME NEW r \in Runs, Mint(r) PROVE OwnWork'
  BY <1>5 DEF Mint, OwnWork
<1>6. ASSUME NEW r \in Runs, SaveRow(r) \/ InsertMaster(r) PROVE OwnWork'
  BY <1>6 DEF SaveRow, InsertMaster, NextContent, OwnWork, TypeOK
<1>7. ASSUME NEW r \in Runs, MintThrows(r) \/ StatementThrows(r) PROVE OwnWork'
  BY <1>7 DEF MintThrows, StatementThrows, AbandonCollection, OwnWork, TypeOK
<1>8. CASE Crash
  BY <1>8 DEF Crash, OwnWork
<1> QED
  BY <1>1, <1>2, <1>3, <1>4, <1>5, <1>6, <1>7, <1>8 DEF Next, RunStep

(* Two runs that have the same content at hand are runs of one job. *)
LEMMA SameJob ==
  ASSUME LocalInv, OwnWork, JobsApart, NEW c \in Content,
         NEW r \in Runs, NEW q \in Runs \ {r},
         pc[r] # "idle", CollectionOf[c] \in Visits[r], InHand(q, c)
  PROVE  FALSE
<1>1. CollectionOf[c] \in Visits[q]
  BY DEF OwnWork, InHand, Unrecorded
<1>2. pc[q] = "idle"
  BY <1>1 DEF JobsApart
<1> QED
  BY <1>2, ContentAssumption DEF LocalInv, InHand, Unrecorded

LEMMA NoExcusesStep ==
  ASSUME MaxMishaps = 0
  PROVE  DupInv /\ OwnWork /\ JobsApart /\ NoExcuses /\ [Next]_vars => NoExcuses'
<1> SUFFICES ASSUME DupInv, OwnWork, JobsApart, NoExcuses, [Next]_vars PROVE NoExcuses'
  OBVIOUS
<1>0. ~Mishap
  BY DEF Mishap, DupInv, TypeOK
<1>1. CASE (\E c \in Content : Queue(c) \/ OwnerWithdraws(c)) \/ UNCHANGED vars
  BY <1>1 DEF Queue, OwnerWithdraws, vars, history, NoExcuses
<1>2. ASSUME NEW r \in Runs, StartRun(r) \/ PickContent(r) \/ SaveRow(r) \/ InsertMaster(r)
      PROVE  NoExcuses'
  BY <1>2 DEF StartRun, PickContent, AbandonCollection, SaveRow, InsertMaster, history,
     NoExcuses, DupInv, TypeOK
<1>3. ASSUME NEW r \in Runs, ReadCollection(r) PROVE NoExcuses'
  <2>1. PICK k \in left[r] :
          shared' = [shared EXCEPT ![r] =
                      {c \in ToMint(k) : \E q \in Runs \ {r} : InHand(q, c)}]
    BY <1>3 DEF ReadCollection
  <2>2. k \in Visits[r] /\ pc[r] = "next"
    BY <1>3, <2>1 DEF OwnWork, ReadCollection
  <2>3. ASSUME NEW c \in ToMint(k), NEW q \in Runs \ {r}, InHand(q, c) PROVE FALSE
    BY <2>2, <2>3, SameJob DEF ToMint, DupInv, TypeOK
  <2>4. \A q \in Runs : shared'[q] = {}
    BY <2>1, <2>3 DEF NoExcuses, DupInv, TypeOK
  <2> QED
    BY <1>3, <2>4 DEF ReadCollection, NoExcuses
<1>4. ASSUME NEW r \in Runs, Mint(r) PROVE NoExcuses'
  BY <1>4 DEF Mint, NoExcuses, DupInv, TypeOK
<1>5. ASSUME NEW r \in Runs, MintThrows(r) PROVE NoExcuses'
  BY <1>0, <1>5 DEF MintThrows, AbandonCollection, NoExcuses, DupInv, TypeOK
<1>6. ASSUME NEW r \in Runs, StatementThrows(r) PROVE NoExcuses'
  BY <1>0, <1>6 DEF StatementThrows
<1>7. CASE Crash
  BY <1>0, <1>7 DEF Crash
<1> QED
  BY <1>1, <1>2, <1>3, <1>4, <1>5, <1>6, <1>7 DEF Next, RunStep

(* A content is minted once, and the NFT its row names is in mint_master or   *)
(* about to be entered there by the run that wrote the row, for any number of  *)
(* contents, collections and jobs: if no two activations of jobs that share a  *)
(* collection are alive together, no await throws but for a file that another  *)
(* run has deleted, and the process lives.                                     *)
THEOREM MintedOnce ==
  ASSUME MaxMishaps = 0
  PROVE  Spec /\ []JobsApart => []OneNftEach
<1>1. Init => OwnWork /\ NoExcuses
  BY ContentAssumption DEF Init, OwnWork, NoExcuses
<1>2. Spec => []DupInv
  <2>1. DupInv /\ [Next]_vars => DupInv'
    BY DupStep
  <2> QED
    BY LocalInit, <2>1, PTL DEF Spec
<1>3. DupInv /\ OwnWork /\ [Next]_vars => OwnWork'
  BY OwnWorkStep DEF DupInv
<1>4. DupInv /\ OwnWork /\ JobsApart /\ NoExcuses /\ [Next]_vars => NoExcuses'
  BY NoExcusesStep
<1>5. DupInv /\ NoExcuses /\ LinkComplete => OneNftEach
  <2> SUFFICES ASSUME DupInv, NoExcuses, LinkComplete, NEW c \in Content
               PROVE  /\ nfts[c] <= 1
                      /\ column[c] > 0 =>
                           <<column[c], c>> \in master \/ \E r \in Runs : Unlinked(r, c)
    BY DEF OneNftEach
  <2>1. nfts[c] <= 1 + excuses[c]
    BY DupInvImplies DEF DuplicatesExplained
  <2> QED
    BY <2>1 DEF NoExcuses, LinkComplete, DupInv, TypeOK
<1> QED
  BY <1>1, <1>2, <1>3, <1>4, <1>5, LinksComplete, PTL DEF Spec
=============================================================================
