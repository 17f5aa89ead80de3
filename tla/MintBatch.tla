----------------------------- MODULE MintBatch -----------------------------
(***************************************************************************)
(* The minting jobs of batch/batch.service.ts.  A content whose column     *)
(* mint_id holds a placeholder waits for its NFT.  An hourly job visits    *)
(* one enabled collection after the other, a ten-minute job the digital    *)
(* lures; each reads the rows that wait, mints them one by one on chain    *)
(* and then writes two tables: the content's own row and mint_master.      *)
(* Fishing results and lures write their row first, trophies and           *)
(* merchandise mint_master first.  Nothing keeps a job from starting       *)
(* while an earlier activation of it still runs.                           *)
(*                                                                         *)
(* Left out: what the files hold, names and attributes of an NFT; the      *)
(* placeholders' own rows of mint_master (the delete in front of each      *)
(* insertion goes by content id, the table by mint id, so it never finds   *)
(* one); the switch that enables a collection.                             *)
(***************************************************************************)
EXTENDS Naturals, FiniteSets

CONSTANTS
  Content,       \* fishing results, lures, trophies and merchandise
  Collections,
  CollectionOf,  \* [Content -> Collections]
  RowFirst,      \* contents whose own row is written before mint_master
  Basis,         \* [Content -> Content \cup {NoContent}], the fishing result
                 \* that a trophy was won with
  Images,        \* base names of image files
  ImageOf,       \* [Content -> Images]; several contents may have one image
  Runs,          \* activations of the jobs that may be alive together
  Visits,        \* [Runs -> SUBSET Collections], what the run's job visits
  NoContent,     \* "no content at hand"
  MaxMishaps     \* bound: how often an await throws or the process dies

ASSUME ContentAssumption ==
  /\ CollectionOf \in [Content -> Collections]
  /\ RowFirst \subseteq Content
  /\ Basis \in [Content -> Content \cup {NoContent}]
  /\ ImageOf \in [Content -> Images]
  /\ NoContent \notin Content
ASSUME RunsAssumption == IsFiniteSet(Runs) /\ Visits \in [Runs -> SUBSET Collections]
ASSUME BoundsAssumption == MaxMishaps \in Nat

VARIABLES
  queued,    \* contents that were given a placeholder
  column,    \* [Content -> Nat], mint_id: 0 for none or the placeholder, else
             \* the number of the content's NFT it names
  master,    \* rows of mint_master: pairs of an NFT's number and a content
  gone,      \* contents whose owner has withdrawn
  nfts,      \* [Content -> Nat], how many NFTs the chain holds for a content
  unfiled,   \* minting runs whose temporary file another run has deleted
  pc,
  left,      \* collections the run still has to visit
  todo,      \* rows its loop still has to visit
  cur,       \* the content at hand
  got,       \* the NFT just minted for it
  shared,    \* history: [Runs -> contents listed while another run had them in hand]
  torn,      \* history: contents whose second write never came
  excuses,   \* history: [Content -> Nat], see DuplicatesExplained
  mishaps

tables == <<queued, column, master, gone>>
local == <<pc, left, todo, cur, got>>
history == <<shared, torn, excuses, mishaps>>
vars == <<tables, nfts, unfiled, local, history>>

TypeOK ==
  /\ queued \subseteq Content
  /\ column \in [Content -> Nat]
  /\ master \subseteq Nat \X Content
  /\ gone \subseteq Content
  /\ nfts \in [Content -> Nat]
  /\ unfiled \subseteq Runs
  /\ pc \in [Runs -> {"idle", "next", "loop", "mint", "row", "master"}]
  /\ left \in [Runs -> SUBSET Collections]
  /\ todo \in [Runs -> SUBSET Content]
  /\ cur \in [Runs -> Content \cup {NoContent}]
  /\ \A r \in Runs : pc[r] \in {"mint", "row", "master"} => cur[r] \in Content
  /\ got \in [Runs -> Nat]
  /\ shared \in [Runs -> SUBSET Content]
  /\ torn \subseteq Content
  /\ excuses \in [Content -> Nat]
  /\ mishaps \in 0..MaxMishaps

Init ==
  /\ queued = {}
  /\ column = [c \in Content |-> 0]
  /\ master = {}
  /\ gone = {}
  /\ nfts = [c \in Content |-> 0]
  /\ unfiled = {}
  /\ pc = [r \in Runs |-> "idle"]
  /\ left = [r \in Runs |-> {}]
  /\ todo = [r \in Runs |-> {}]
  /\ cur = [r \in Runs |-> NoContent]
  /\ got = [r \in Runs |-> 0]
  /\ shared = [r \in Runs |-> {}]
  /\ torn = {}
  /\ excuses = [c \in Content |-> 0]
  /\ mishaps = 0

-----------------------------------------------------------------------------
(* Helpers *)

Goto(r, l) == pc' = [pc EXCEPT ![r] = l]

\* findFisingResultsToMint, findLuresToMint and the like: the rows whose
\* column still holds a placeholder.
ToMint(k) == {c \in queued : CollectionOf[c] = k /\ column[c] = 0}

\* The look-ups for c fail each time: its owner has withdrawn, or the fishing
\* result it was won with has not even a placeholder.
Blocked(c) == c \in gone \/ Basis[c] \in Content \ queued

\* r has minted c and not yet recorded it: if it ends here, c is minted again.
Unrecorded(r, c) ==
  /\ cur[r] = c
  /\ pc[r] = "row" \/ (pc[r] = "master" /\ c \notin RowFirst)

\* r has recorded c, and mint_master does not know the NFT yet.
Unlinked(r, c) == cur[r] = c /\ pc[r] = "master" /\ c \in RowFirst

\* r has listed c and may mint it, or has minted it and not yet recorded it.
InHand(r, c) ==
  c \in todo[r] \/ (cur[r] = c /\ pc[r] = "mint") \/ Unrecorded(r, c)

\* Where a run goes with the collections S ahead of it.
Ahead(S) == IF S = {} THEN "idle" ELSE "next"

\* The row at hand is done; the loop goes on, or the next collection's turn.
NextContent(r) ==
  /\ Goto(r, IF todo[r] = {} THEN Ahead(left[r]) ELSE "loop")
  /\ cur' = [cur EXCEPT ![r] = NoContent]
  /\ got' = [got EXCEPT ![r] = 0]
  /\ UNCHANGED <<left, todo>>

\* Mutant: safeRun throws again, and the run ends.
AbandonRun(r) ==
  /\ Goto(r, "idle")
  /\ left' = [left EXCEPT ![r] = {}]
  /\ shared' = [shared EXCEPT ![r] = {}]
  /\ todo' = [todo EXCEPT ![r] = {}]
  /\ cur' = [cur EXCEPT ![r] = NoContent]
  /\ got' = [got EXCEPT ![r] = 0]

\* safeRun: an exception ends the collection, and the run visits the next one.
AbandonCollection(r) ==
  /\ Goto(r, Ahead(left[r]))
  /\ shared' = [shared EXCEPT ![r] = {}]
  /\ todo' = [todo EXCEPT ![r] = {}]
  /\ cur' = [cur EXCEPT ![r] = NoContent]
  /\ got' = [got EXCEPT ![r] = 0]
  /\ UNCHANGED left

Mishap ==
  /\ mishaps < MaxMishaps
  /\ mishaps' = mishaps + 1

-----------------------------------------------------------------------------
(* Around the jobs: a reviewer's approval, or the registration of a digital *)
(* lure, writes the placeholder; members withdraw.                          *)

Queue(c) ==
  /\ c \in Content \ queued
  /\ queued' = queued \cup {c}
  /\ UNCHANGED <<column, master, gone, nfts, unfiled, local, history>>

OwnerWithdraws(c) ==
  /\ c \in Content \ gone
  /\ gone' = gone \cup {c}
  /\ UNCHANGED <<queued, column, master, nfts, unfiled, local, history>>

-----------------------------------------------------------------------------
(* A run *)

StartRun(r) ==
  /\ pc[r] = "idle"
  /\ Visits[r] # {}
  /\ left' = [left EXCEPT ![r] = Visits[r]]
  /\ Goto(r, "next")
  /\ UNCHANGED <<tables, nfts, unfiled, todo, cur, got, history>>

\* The rows of the next collection are read.
ReadCollection(r) ==
  /\ pc[r] = "next"
  /\ \E k \in left[r] :
       /\ left' = [left EXCEPT ![r] = @ \ {k}]
       /\ todo' = [todo EXCEPT ![r] = ToMint(k)]
       /\ shared' = [shared EXCEPT ![r] =
                       {c \in ToMint(k) : \E q \in Runs \ {r} : InHand(q, c)}]
       /\ Goto(r, IF ToMint(k) # {} THEN "loop" ELSE Ahead(left[r] \ {k}))
  /\ UNCHANGED <<tables, nfts, unfiled, cur, got, torn, excuses, mishaps>>

\* The content, its collection, its image, its owner and a trophy's fishing
\* result are looked up; what is not found is an exception.
PickContent(r) ==
  /\ pc[r] = "loop"
  /\ \E c \in todo[r] :
       IF Blocked(c)
       THEN AbandonCollection(r)
       ELSE /\ cur' = [cur EXCEPT ![r] = c]
            /\ todo' = [todo EXCEPT ![r] = @ \ {c}]
            /\ Goto(r, "mint")
            /\ UNCHANGED <<left, got, shared>>
  /\ UNCHANGED <<tables, nfts, unfiled, torn, excuses, mishaps>>

\* The end of issueCompressNft, whatever came of it, deletes the temporary file.
\* Its name is that of the content's image: every run that mints a content with
\* this image at the time reads the same file.
DeleteFile(r) ==
  unfiled' = (unfiled \ {r}) \cup
               {q \in Runs \ {r} : pc[q] = "mint" /\ ImageOf[cur[q]] = ImageOf[cur[r]]}

\* issueCompressNft returns the id of the new NFT.
Mint(r) ==
  LET c == cur[r] IN
  /\ pc[r] = "mint"
  /\ nfts' = [nfts EXCEPT ![c] = @ + 1]
  /\ got' = [got EXCEPT ![r] = nfts[c] + 1]
  /\ DeleteFile(r)
  /\ shared' = [shared EXCEPT ![r] = @ \ {c}]
  /\ excuses' = IF c \in shared[r] THEN [excuses EXCEPT ![c] = @ + 1] ELSE excuses
  /\ Goto(r, IF c \in RowFirst THEN "row" ELSE "master")
  /\ UNCHANGED <<tables, left, todo, cur, torn, mishaps>>

\* issueCompressNft throws: the file is no longer there when it is uploaded, which
\* comes first, or, by a mishap, nothing was submitted, or the NFT was minted and
\* its id could not be found out.
MintThrows(r) ==
  LET c == cur[r] IN
  /\ pc[r] = "mint"
  /\ DeleteFile(r)
  /\ \/ r \in unfiled /\ UNCHANGED <<nfts, excuses, mishaps>>
     \/ Mishap /\ UNCHANGED <<nfts, excuses>>
     \/ /\ Mishap
        /\ nfts' = [nfts EXCEPT ![c] = @ + 1]
        /\ excuses' = [excuses EXCEPT ![c] = @ + 1]
  /\ AbandonCollection(r)
  /\ UNCHANGED <<tables, torn>>

\* Mutant: the write of the row is forgotten, and it keeps its placeholder.
SaveRowLost(r) ==
  /\ pc[r] = "row"
  /\ IF cur[r] \in RowFirst
     THEN Goto(r, "master") /\ UNCHANGED <<left, todo, cur, got>>
     ELSE NextContent(r)
  /\ UNCHANGED <<tables, nfts, unfiled, history>>

\* The content's own row names the NFT (updateMintIdById, or save).
SaveRow(r) ==
  LET c == cur[r] IN
  /\ pc[r] = "row"
  /\ column' = [column EXCEPT ![c] = got[r]]
  /\ IF c \in RowFirst
     THEN Goto(r, "master") /\ UNCHANGED <<left, todo, cur, got>>
     ELSE NextContent(r)
  /\ UNCHANGED <<queued, master, gone, nfts, unfiled, history>>

\* Mutant: the id is looked up again instead of being taken from the mint.
InsertMasterLatest(r) ==
  LET c == cur[r] IN
  /\ pc[r] = "master"
  /\ master' = master \cup {<<nfts[c], c>>}
  /\ IF c \in RowFirst
     THEN NextContent(r)
     ELSE Goto(r, "row") /\ UNCHANGED <<left, todo, cur, got>>
  /\ UNCHANGED <<queued, column, gone, nfts, unfiled, history>>

\* mintMasterDao: delete, which finds nothing, and insert.
InsertMaster(r) ==
  LET c == cur[r] IN
  /\ pc[r] = "master"
  /\ master' = master \cup {<<got[r], c>>}
  /\ IF c \in RowFirst
     THEN NextContent(r)
     ELSE Goto(r, "row") /\ UNCHANGED <<left, todo, cur, got>>
  /\ UNCHANGED <<queued, column, gone, nfts, unfiled, history>>

-----------------------------------------------------------------------------
(* What goes wrong *)

\* A look-up or a download throws, or a write after the mint.
StatementThrows(r) ==
  /\ pc[r] \in {"loop", "row", "master"}
  /\ Mishap
  /\ excuses' = [c \in Content |-> IF Unrecorded(r, c) THEN excuses[c] + 1 ELSE excuses[c]]
  /\ torn' = torn \cup {c \in Content : Unlinked(r, c)}
  /\ AbandonCollection(r)
  /\ UNCHANGED <<tables, nfts, unfiled>>

Crash ==
  /\ \E r \in Runs : pc[r] # "idle"
  /\ Mishap
  /\ pc' = [r \in Runs |-> "idle"]
  /\ left' = [r \in Runs |-> {}]
  /\ todo' = [r \in Runs |-> {}]
  /\ cur' = [r \in Runs |-> NoContent]
  /\ got' = [r \in Runs |-> 0]
  /\ shared' = [r \in Runs |-> {}]
  /\ excuses' = [c \in Content |->
                   excuses[c] + Cardinality({r \in Runs : Unrecorded(r, c)})]
  /\ torn' = torn \cup {c \in Content : \E r \in Runs : Unlinked(r, c)}
  /\ unfiled' = {}
  /\ UNCHANGED <<tables, nfts>>

-----------------------------------------------------------------------------
RunStep(r) ==
  \/ StartRun(r) \/ ReadCollection(r) \/ PickContent(r)
  \/ Mint(r) \/ SaveRow(r) \/ InsertMaster(r)

Next ==
  \/ \E c \in Content : Queue(c) \/ OwnerWithdraws(c)
  \/ \E r \in Runs : RunStep(r) \/ MintThrows(r) \/ StatementThrows(r)
  \/ Crash

Spec == Init /\ [][Next]_vars

\* The jobs start again and again, and every await of a run ends; that one of
\* them throws happens MaxMishaps times at most.
Fairness == \A r \in Runs : WF_vars(RunStep(r))

FairSpec == Spec /\ Fairness

-----------------------------------------------------------------------------
(* What minting promises *)

\* A row that names an NFT names one that mint_master knows, whatever overlaps
\* or fails: trophies and merchandise always, since mint_master is written
\* first; fishing results and lures once the run that wrote the row has gone
\* on, unless it failed or died right there.
LinkComplete ==
  \A c \in Content : column[c] > 0 =>
    \/ <<column[c], c>> \in master
    \/ c \in RowFirst /\ c \in torn
    \/ \E r \in Runs : Unlinked(r, c) /\ got[r] = column[c]

\* No NFT is minted twice without a reason.  Beyond the first, each NFT of a
\* content has an excuse: it was minted by a run that had listed the content while
\* another run had it in hand, or by one that threw or died before the row was
\* written.
DuplicatesExplained == \A c \in Content : nfts[c] <= 1 + excuses[c]

\* Every content that waits is minted, or something in its own collection is
\* blocked: what goes wrong in one collection does not keep the others waiting
\* (safeRun).  Within a collection it does, for the loop never gets past it.  And
\* runs that overlap may delete each other's files again and again: not if that
\* ends some day.
EventuallyMinted ==
  <>[](unfiled = {}) =>
    \A c \in Content :
      c \in queued ~> column[c] > 0 \/ \E d \in ToMint(CollectionOf[c]) : Blocked(d)
=============================================================================
