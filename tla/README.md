# TLA+ specifications of the bcl-backend

The backend (NestJS, TypeORM over MySQL, Solana, Shopify) serves an app for
anglers: members post fishing results, comment on them, tip each other with
tokens, register lures, receive tokens and NFTs on the Solana chain and exchange
tokens for Shopify coupons. Almost every operation is a chain of `await`s over
several tables and several outside services, most of them without a database
transaction, in a single Node process that also runs cron jobs. This directory
specifies what such chains do when they interleave, fail half-way or die, and
checks and proves what still holds.

All source paths are relative to `src/src/` of the repository unless they start with `src/`.

## Reading guide

| Module | What it is |
| --- | --- |
| `TokenGrant` | the granting of tokens to members: the `token_transaction` rows, the cron job `fixToken`, `giveToken`, the retries of `sendToken`, the chain |
| `GrantPromise` | what granting promises (abstract) |
| `TokenGrantMC` | instances for TLC |
| `TokenGrantProofs` | its theorems |
| `Checkout` | the exchange of a cart for coupons: `createOrder` and `checkoutForCart` with Shopify, the chain and the mail server; the order history and the use of coupons |
| `Purchase` | what one checkout promises (abstract) |
| `CheckoutMC`, `CheckoutProofs` | instances; theorems |
| `CommentSpend` | comments that carry tokens: the transaction, the row lock, the pool of connections, the balance check, replies, notifications, deletion |
| `TipLedger` | what tipping promises (abstract) |
| `CommentSpendMC`, `CommentSpendProofs` | instances; theorems |
| `MintBatch` | the cron jobs that mint NFTs: overlapping activations, the mint on chain, the two rows written behind it |
| `MintBatchMC`, `MintBatchProofs` | instances; theorems |
| `PushNotification` | the cron job that pushes notifications, the rows it marks and settles, devices, deletions |
| `PushNotificationMC`, `PushNotificationProofs` | instances; theorems |
| `LureRegistration` | how lures come into being: registration, purchase with a QR code, modification, digital lures for a one-time token, the review status |
| `LureRegistrationMC`, `LureRegistrationProofs` | instances; theorems |
| `Requests` | what every HTTP request of the modules below has in common: it arrives, goes from `await` to `await`, leaves work behind that nobody awaits, is ended by an exception or with the process |
| `Cart` | carts, their items and the stock |
| `CartMC`, `CartProofs` | instances; theorems |
| `Members` | the rows of members: profiles, withdrawal |
| `Posts` | posts, over `Members` |
| `SocialGraph` | good, follow, block, report and their notifications, over `Posts` |
| `FishingReview` | fishing results and their review, over `Members` |
| `TimelineRead` | the timeline and its read marks, over `SocialGraph` and `FishingReview` |
| `Community` | these five in one process and over one database |
| `CommunityMC`, `CommunityProofs` | instances; theorems |

Each configuration `<run>.cfg` belongs to the run of that name in `PROJECT.json`.
Definitions whose comment begins with "Mutant:" belong to no specification: each
is a plausible bug of the definition it stands in front of, and the property
listed with it in `PROJECT.json` is violated once it takes that definition's
place.

    tlc -config grant_safety.cfg TokenGrantMC.tla
    tlc -config community.cfg CommunityMC.tla
    tlapm TokenGrantProofs.tla

## The system

### How it runs

One Node process (`src/Dockerfile`, node 18) serves HTTP requests and starts the
cron jobs of `batch/batch.service.ts`. Between two `await`s nothing else runs, so
the unit of interleaving is the code from one `await` to the next; a call without
`await` runs beside its caller from then on. Node 18 ends the process when a
promise is rejected that nobody handles, and no handler for that is installed, so
an un-awaited call that throws is a crash. What survives a crash is MySQL, the
chain and the outside services.

Database access goes through a `mysql2` pool of default size (10 connections;
`type-orm-config.service.ts` sets no other). A repository call takes a free
connection for one statement. `dataSource.transaction` keeps one until it ends.
The isolation level is MySQL's default; a statement on its own is atomic.

### Components

**Token grant** (`util/token.utils.ts`, `dao/token-transaction.dao.ts`,
`solana/spl-token/send-token.ts`). State: rows of `token_transaction` with status
READY, PROCESSING, FIX or ERROR; transfers on chain. Operations:
`giveReadyToken` inserts READY rows for the receivers that are available;
`fixToken` marks READY rows PROCESSING, lists every PROCESSING row, sends the
tokens for each and writes FIX or ERROR; `giveToken` sends first and inserts the
row afterwards; `sendToken` retries with a new transfer. Called by
`post.service.ts:44` and by the cron job every three minutes. Hard: runs that
overlap (nothing keeps a run from starting while another is in its loop), a crash
between the transfer and the row, a confirmation that times out for a transfer
that arrives later, receivers that withdraw in between. Correct if: FIX means a
transfer happened; nothing is sent for a row that still looks untouched; each
grant is paid once; each grant is settled.

**Token exchange: checkout and orders** (`token-exchange/`,
`dao/token-exchange.dao.ts`, `solana/spl-token/real-time-token.ts`). State: the
rows of orders, order items, `exchange_transaction`, its coupons; the cart; the
signed transfer the client sends. Operations: `createOrder`; `checkoutForCart`
(read the cart, create the transaction row, save order items, ask Shopify for a
coupon per unit, send the transfer, insert the coupons, mail them, complete the
transaction and the order, clear the cart). Hard: eleven writes without a
database transaction, five outside calls that fail by themselves, concurrent
requests for the same order and with the same transfer. Correct if: the final
statuses tell what really happened.

**Token exchange: cart and stock.** State: cart rows and items, the stock of each
product. Operations: create, read, add, change, delete, and the clearing at the end of a
checkout (`buyDigitalLure`, which belongs here too, has no caller). Hard: the limit
of five units is checked against a total read earlier, the stock is written back
as an absolute number computed from a copy, a saved item that is gone is inserted
again, a checkout deletes the carts as they are at its end. Correct if: the limit
holds, stock and requests add up, there is one item per product, what was deleted
stays deleted, and a checkout removes what it has sold.

**Comments and tipping** (`comment/comment.service.ts`, `dao/comment.dao.ts`).
State: comments, `token_transaction` rows from author to owner, notifications.
Operations: `register` (with `checkTokenSendable` and
`checkParentCommentIdReturnComment`), `delete`, the two listings. Hard: a row lock that is
requested without `await`, checks on other connections than the transaction's,
the pool as a resource everybody waits for, an un-awaited insertion, notifications
outside of the transaction. Correct if: nobody spends more than it has, comment
and tokens go together, every reply is shown below a comment, requests end.

**Minting batch** (`batch/batch.service.ts`, `util/mint.utils.ts`). State: the
review and mint columns of the contents, `mint_master`, NFTs on chain.
Operations: hourly and ten-minute cron jobs that mint each content and then write
its row. Hard: overlapping runs that delete each other's temporary file, a crash
after the mint and before the row ("in
case of an error the data are repaired by hand", a comment of the catch clauses
behind both writes), one content that throws in every run. Correct if:
a content is minted once, the row names an NFT that exists, and what is blocked
does not block everything.

**Notifications and push** (`notification/`, `dao/notification.dao.ts`). State:
notification rows READY, PROCESSING, FIX, ERROR; Expo tokens of members.
Operations: create, delete, count, mark as read; `sendPushNotifications` every
three seconds. Hard: overlapping runs, a crash after PROCESSING, rows deleted
while a run has them in hand, one split over two requests to Expo. Correct if: a
notification is pushed to a device at most once, its status tells what happened, and
it is not lost.

**Lure registration, QR purchase, digital lures** (`lure/lure.service.ts`).
State: lures with type and serial code, one-time tokens, review statuses.
Operations: `registerLure`, `modifyLure`, `purchaseLureWithQR`, `applyForLost`,
`registerDigitalLure`, `generateSerialCode`, `isLureDuplicated`. Hard: uniqueness
by look-up and insertion, serial codes that are compared as strings, a one-time
token looked up first and deleted last, statuses saved without `await`.
Correct if: type and serial code are unique, a member buys a kind of lure once, a
one-time token is used once, every lure reaches a reviewer, and what was approved
does not change afterwards.

**Fishing results and review** (`fishing-result/`, `dao/fishing-result*.dao.ts`).
State: results, review status and its log. Operations: `register` and `modify`,
each with a lure of the member's or with one in free text, the decisions of
reviewers. Hard: the status is saved without `await`, so a decision may come
between a row and its status; a result changes while it is being decided on.
Correct if: each result reaches a reviewer, and what counts as approved is what
the reviewer has seen.

**Good, follow, block, report** (`good/`, `follow/`, `block/`, `report/`).
State: one row per pair and the notification that belongs to it. Operations: add
and remove, counts. Hard: look-up and insertion apart, no unique index, a
notification saved and rows deleted without `await`. Correct if: the last request
about a pair has the last word, and rows and notifications go together.

**Timeline** (`timeline/`). State: per member and type, a mark up to which it has
read. Operations: view, check for unread items. Hard: the timeline is selected
first and the mark set afterwards, to the time of the database. Correct if: what
is marked as read was shown.

**Posts** (`post/`). State: posts. Operations: `register`, which asks for the
reward (token grant), `modify`, which starts its check of the owner without
`await`, `delete`. Correct if: a post says what its author wrote.

**Members and profiles** (`user/`). State: the member row, the withdrawal.
Operations: save the profile, save the angler's profile, withdraw. Hard: the row is
saved as the guard read it before an upload. Correct if: what was saved stays.

**The rest**: trophies, merchandise and contests (single-column updates),
gallery, ranking, search, tackle box, masters, news (queries), translation,
upload, mail, Slack (calls of services), guards, middleware and configuration,
older Solana helpers. Entities, `member.dao`, the utilities for encryption, files
and S3 and the SQL of `dao/mapper` are not in the repository; what they do is
taken from how the code uses them.

### How components meet

- `post.register` requests a grant; `fixToken` and `comment.register` both create
  notifications, which the push job sends.
- Grants and comments share `token_transaction`: what `fixToken` and `giveToken`
  mark FIX is what a comment may spend (`Grant` in `CommentSpend`), and what they
  mark otherwise afterwards it may not (`TakeBack`).
- The cart that `checkoutForCart` reads and clears is the one the cart operations
  change: `CartAdd` and `CartRemove` stand for them in `Checkout`,
  `CheckoutReadCart` and `ClearUserCart` for the checkout in `Cart`.
- The withdrawal of a member ends its grants, makes a comment fail and keeps it
  from being followed (`Withdraw` in `TokenGrant`, the failing `ReadMembers` in
  `CommentSpend`, `Withdrawal` in `Members`, `FindMember` in `SocialGraph`).
- A good is for a post that its author may delete meanwhile; the timeline shows
  posts and approved results of members one follows; and whatever throws in work
  that nobody awaits ends the process and with it every request under way.
  `Community` composes these.
- `buyDigitalLure` and `registerDigitalLure` create what the minting batch mints
  (`ApprovedCanBeMinted` in `LureRegistration` is what `Queue` in `MintBatch` starts
  from).

## What the modules model

### TokenGrant

`status` is the column of that name (NONE: no row). `Runs` are activations of
`fixToken` that may be alive together, `Callers` are requests inside `giveToken`;
`pc` says at which `await` each waits and `ids`, `todo`, `cur`, `tries` are its
local variables. `landed`, `paid` and `floating` count, per row, the transfers the
chain has included, those of them that were executed, and those `sendToken` has
given up on that may still be included.

| Code | Actions |
| --- | --- |
| `giveTokenFromTokenMaster`, `giveReadyToken` | `RequestGrant` (read the receivers), `InsertReady`, `InsertReadyFails` |
| `fixToken` up to its loop | `FindReady`, `MarkProcessing` (by id alone), `FindProcessing` (every PROCESSING row) |
| its loop | `PickRow` (asks again whether the receiver is available), `RecordFix`, `Notify`, `RecordError`, `CaughtDbFailure` (the catch block around the whole iteration) |
| `giveToken` | `CallGiveToken`, then the same loop steps with an insertion instead of an update |
| `sendToken` | `PrepareFails`, `Confirmed`, `NotConfirmed` (a retry is a new transfer, three of them) |
| statements outside of every try block | `RunFails` |
| process and chain | `Crash`, `LateInclusion`, `Expire` |

Two facts of `sendToken` shape the model. `confirmTransaction` resolves for a
transfer that was included and *reverted* and its `value.err` is not read, so
`Confirmed` may land a transfer that pays nothing (`Verdicts`). And an attempt
whose confirmation throws may have been lost, may have landed, or may land later
(`Fates`).

### Checkout

`Checkouts` are requests, each with the member who sends it and the order and the
signed transfer in its body, chosen in `Init`, as is the owner of each order. An
order is looked up by its id alone (`InitializeTransaction`), so requests of
different members may meet in one. The steps of `pc` follow the numbered
comments of `checkoutForCart`. Carts are sets of units: a unit is one piece of a
product, so quantities are counted by units. `SendToken` is a submission: the
handler does not wait for the chain, and a node accepts the same signed transfer
again as long as it is in flight. `StatementThrows` may end a request at every
statement; the two failures the code handles are `FailCoupons` and `FailEmail`.

`CouponMail` is what the mail lists, `OrderHistory` what the history query and its
flattening show a member: the COMPLETED orders it has created, newest first, of
which the controller asks for the first page only (20 orders, `PageSize`), each
with its COMPLETED transactions, whoever's they are. Orders are numbered by their
`createdAt`. So the codes of a request for another's order are in that member's
history, and those of an order that a page of newer ones follows are in none:
`MailedIsShown` says so. `used` are the coupons that
`updateCouponUsage` has marked. Its reads before the write are one step with it,
because rows of coupons are never deleted and never change hands.

### CommentSpend

`received` and `sent` are the sums `findAvailableTokenCount` computes in two
reads. `Grant` is a row of the system that becomes FIX, `TakeBack` one that is FIX no
more: `fixToken` writes ERROR over FIX when what follows throws, and a run that
listed the row as READY before puts it back to PROCESSING. `taken` counts what was
taken back since the member's last check that has passed. `InTransaction` is the set of steps at which a request keeps a connection
of the pool; a read of its checks needs another one (`FreeConnection`) and gives
it back. `lock` is the row lock on the author: `register` requests it without
`await` at line 75, so `AcquireLock` is a step of its own that only the later
statements *of the same connection* wait for (`Holds`). The insertion of the
token row is not awaited either: it commits with the comment, or throws
(`TokenInsertThrows`), which ends the process with or without the COMMIT behind
it (`torn`). `SaveNotice` runs whenever a connection is free.

`Patient` are the members that wait for the answer to a comment before they send
the next. The server asks that of nobody; it is the assumption under which a
balance is safe (but for what the system takes back), and the other members do what they like. `LogicalDelete` may
throw, and as nobody awaits it, that ends the process (`DeleteThrows`). Whether
`findById` still finds a deleted comment is up to a query that is not in the
repository, so it may or may not (`FindById`). `CommentsShown` is what the listing
returns: comments with the replies that hang below them. All comments of the model
are of one parent; `register` does not compare the parent of a reply with that of
the comment it hangs below, and a reply with another parent is shown nowhere.

### MintBatch

`queued` are the contents that were given a placeholder ("dmint-..." or
"dluremint-..." in the column `mint_id`), `column` is that column (0 while it
holds none or the placeholder, else which of the content's NFTs it names),
`master` the table `mint_master`, `nfts` the chain. `Runs` are activations of the
jobs; `Visits` says which collections a run's job goes through (the ten-minute
job visits one, the hourly job the others). `RowFirst` separates the two orders
of writing: fishing results and lures update their row and then insert into
`mint_master`, trophies and merchandise do it the other way round.

| Code | Actions |
| --- | --- |
| a reviewer's approval, `registerDigitalLure` | `Queue` |
| `executeBatchForMintCollection`, `executeBatchForMintDigitalLure` | `StartRun`, `ReadCollection` |
| the loops of `mintFishingResults`, `mintLures`, `mintTrophies`, `mintMerchandises` | `PickContent`, which throws for a content that is `Blocked` |
| `issueCompressNft` | `Mint`, `MintThrows` (before or after the NFT exists) |
| the try block behind it | `SaveRow`, `InsertMaster`, `StatementThrows` |
| `safeRun` | `AbandonCollection` |
| process and members | `Crash`, `OwnerWithdraws` |

`mintMasterDao.delete(content id)` is called in front of each insertion and finds
nothing, because the table is keyed by mint id: the placeholder's own row stays.
It is therefore no action, and the placeholder rows are left out. `shared` are the
contents a run has listed while another had them in hand; `excuses` counts, per
content, how often such a run minted it and how often a run that had minted it
threw or died before the row was written; `torn` are the contents whose second
write never came. `unfiled` are the runs whose temporary file another run has
deleted: it has the base name of the content's image (`ImageOf`), so runs that mint
contents with one image share it (digital lures of a product have one,
`lure.service.ts:305`; a fishing result's is the client's, `fishing-result.service.ts:70`),
and `MintThrows` may follow, with nothing submitted, since the upload reads the file
first. The file utilities themselves are external. Two runs that keep meeting may so
keep each other from minting for ever: TLC shows it if `EventuallyMinted` is stated
without `<>[](unfiled = {})`.

### PushNotification

`status` is the column of `notification` (NONE and DELETED: no row), `owner` the
table `tokens_expo`. A run of `sendPushNotifications` goes through `ReadTokens`,
`ListReady`, `Mark`, one `SendOk` or `SendThrows` per chunk, and `SaveOutcome`;
`seen`, `batch`, `todo`, `fixed` and `failed` are its local variables. `Updated`
is `updateStatus`: by id, over whatever the row holds, and without effect on a
row that is gone. A message is a pair of a notification and a device of its
receiver (`NoDevice` if there is none: `to` is undefined). The SDK cuts messages, not
notifications, into chunks of 100, so the border between two chunks may go through
a notification to several devices (`parted`); here any set of messages can be a
chunk. `statusUpdates` then has two entries of that notification and the first one
decides in the CASE of `updateStatus`: ERROR although its other half arrived, or FIX
although it did not. A chunk with a message without a device may be refused at
any time; any chunk may fail, with or without Expo having taken it (`unsure`). What
Expo says in single tickets is not read by the code, so `SendOk` means that the
request was accepted. `Registered` is what the table of devices may hold at first.
`addTokenForMember` is one step: its look-up and its save touch one row, and the
last save wins as it does here. A deletion names a parent and a type, and a
notification is one row of them. Notifications of goods and follows are created
and deleted in `SocialGraph`, where what is at stake is that they go with their
rows; here only that a row may go at any time.

### LureRegistration

A serial code is "color/number"; color and number stand for it, and number 0 is
"000", the code of lures that need no unique one. `Lures` are pairs of a request
and an index: the id of the lure the request inserts. `row`, `mint`, `status` and
`tokens` are the tables; `status` holds the latest entry of `lure_review_status`,
which is the one the code reads. A member has several requests under way
together; `pc` says at which `await` each waits and `ask`, `number`, `target`,
`left` are its body and local variables.

| Code | Actions |
| --- | --- |
| `purchaseLureWithQR` | `GenerateSerialCode`, `CheckOnce`, then as `registerLure` |
| `registerLure` | `CheckUnique`, `InsertLure`, `FinishRegister` |
| `modifyLure` | `CheckOwn`, `CheckUnique`, `CheckRejected`, `SaveModified` |
| `registerDigitalLure` | `FindToken`, then per lure `InsertDigital`, `UpdateMintId`, `InsertMintMaster`; `DeleteToken` |
| `saveReviewStatus`, which nobody awaits | `SaveReviewStatus`, for the pairs in `owed` |
| `updateReviewStatusById`, for the admin services | `FindReviewed`, `UpdateReviewStatus`, for the pairs in `decisions` |
| an await that throws, the process | `Throw`, `Crash` |

`isLureDuplicated` is `Duplicated`, with the arguments as they are passed: a
condition whose argument is left out (`Unset`) is none, as TypeORM has it, and
where a serial code stands in the place of a member id (`CodeAsMember`) no row
fits. `Latest` is the order of the database: codes are compared as strings, and
the strings have the same length up to `LastPadded` (999) only; `Cut` gives the
order beyond it. The rest of `modifyLure` stands inside the condition on the
number, so that the modification of a lure with number 000 is answered as if it
had happened and changes nothing; the model has that too.

The other variables are history. `numberedAt` and `checkedAt` are the lures that
were there when a purchase read the latest code and checked for a second lure;
`company` are the redemptions that had found the same token when a request found
it; `crowded` are lures with two modifications under way past the check of the
status, or with one and a reviewer's update, which asks for no status; `torn` are lures whose request ended before the status was saved;
`version` and `decided` count modifications, and the ones the reviewer had seen
when the update of the status began.
They say, in the properties, under which circumstances the code does not keep
what it promises, and the properties say that there are no others.

### Requests

`Cart` and the modules of `Community` serve many kinds of requests, and each of
them declares only the steps of its own. `Requests` has the rest: `Arrive` (with
the body, `call`), `Goto`, `Refuse` for an answer with an error, `Leave` for a
handler that returns with work left that nobody awaits (`chores`), `FinishChore`,
`Throw` for a statement that throws and ends its request, `ProcessEnds` for a
rejection nobody handles, `Die` for any other end of the process. `before` keeps
which requests were over when one arrived; two of them `Overlap` if neither was
over before the other came. Most properties of these modules have the form: this
holds, unless two requests overlapped *in this way*. They would be violated by code
that goes wrong between requests that never meet, or that meet in another way.

A row is named by the request that inserts it, so that no ids have to be made up.

### Cart

| Code | Actions |
| --- | --- |
| `POST /cart`, `GET /cart` | `CreateCart`, `GetCartByUserId`, `CreateMissingCart` |
| `addProductToCart` | `AddFindProduct` (reads the stock into `copy`), `AddFindCart`, `AddCheckTotal`, `AddFindItem`, `CreateCartItem`, then the save, then `UpdateProductStock` |
| `updateCartItem` | `UpdateFindItem`, with a quantity `UpdateCheckTotal`, then the save |
| TypeORM's `save` of an item | `SaveReads`, then `SaveUpdates`, or `SaveInserts` if the row is gone, or nothing if it does not differ |
| `deleteCartItem` | `DeleteFindItem`, `DeleteCartItem` |
| `checkoutForCart` | `CheckoutReadCart`, then `CheckoutRefused` or `ClearUserCart` |

`carts`, `items`, `qty` and `stock` are the tables; `cart`, `row`, `want`, `copy` and
`seen` are local: the cart and the item a request works on, the quantity it is
about to save, the stock it has read, the quantities a checkout has read. `taken`
is history. `CreateCart` makes a cart even if there is one, as `POST /cart` does,
and `findCartByUserId` returns any of them. An item inserted again by a request
that found it without its cart comes back outside of every cart, or is refused,
as the column allows; what `updateCartItem` saves carries its cart. The body of an
add is not validated, so its quantity may be zero or negative (`AddQuantities`); that
of a change is at least one by its class (`UpdateQuantities`). An item with a negative
quantity makes room in the total for others, which stay when it is deleted: so
`LimitKept` excuses a cart to which somebody has added less than nothing
(`TakesOut`), with no overlap needed. A change of the status alone checks nothing
and saves the quantity as it was read. The code
returns no stock when an item is changed or deleted, and checks no stock when one
is added; the model does neither.

### Community

`Community` is `Members`, `Posts`, `SocialGraph`, `FishingReview` and `TimelineRead` side
by side: each step is one of theirs, and `Mishap` ends a request or all of them.

| Code | Actions |
| --- | --- |
| `user.controller.ts`, `user.service.ts` | `PostProfile` (the guard reads the member), `UploadFile`, `PostProfileAngler`, `Withdrawal`, then TypeORM's save: `SaveMember` compares, `UpdateMember` writes the columns that differ |
| `post/` | `RegisterPost`, `RewardPost`; `EditPost` with the chore `CheckOwnPost`, `SavePost`; `DeletePost` |
| `good/` | `AddGood`, `FindOwner`, `LookUpGood`, `InsertRow` with the chore `SaveNotice`; `RemoveGood`, `FindGood` with the chores `DeleteNotice`, `FindGoodAgain` and `DeleteRow`; `GoodsShown` |
| `follow/`, `block/`, `report/` | `AddFollow`, `AddBlock`, `AddReport`, `FindMember`, `InsertRow`, `SaveNotice` (of a follow); `RemoveFollow`, `RemoveBlock`, `DeleteRow`, `DeleteNotice` |
| `gallery/`: followers | `GetGallery` |
| `fishing-result/` | `RegisterResult`, `RegisterOtherLures`, `ModifyResult`, `ModifyOtherLures` (with `BuildDate`), `CheckExistsMasterId`, `InsertResult`, `CheckLatestReject`, `UpdateResult`, the chores `SaveReviewStatus` and `InsertLog` |
| the admin service (external) with `adminFishingResultUpdateById` | `AdminUpdate`, `Decide` |
| `timeline/` | `GetFollowerTimelines`; `HasUnreadTimeline`, `ReadMark`, `CountUnread`; for both `FindMark`, `InsertMark`, `UpdateMark` |

Contents are versions: `text` and `content` name the request that wrote a post or a
result last, a column of a member the request that saved it. `copy` is the member
as a request has read and changed it, and `columns` what its save is about to
update. The call of a reviewer's request names the content that was on the screen when
it was sent (`seen`), and `reviewed` is the one that the last decision on a result was
made on: a modification may write, apply again and be over between the two. A mark of the timeline
is a time in the code; here it is the set of items that were there at that time,
which says the same of every item that is still there. `BuildDate` is translated
with its calendar, because `setFullYear` moves a day that does not exist to the
next month and the comparison with the moved date is what refuses it.

## What the runs check

| Run | Question | Bounds | Size |
| --- | --- | --- | --- |
| `grant_safety` | Does READY mean no transfer, is nobody told of tokens no transfer was made for, whatever overlaps, fails or dies? Is `GrantPromise`, where FIX means a transfer, implemented? | 2 overlapping runs, a `giveToken` request, 3 rows, 1 crash, failing statements, late inclusion, no retry | 2.3 million states |
| `grant_exact` | Without overlap, crash and late inclusion: is each grant paid once, does ERROR mean unpaid, is each grant settled? | 1 run, 3 retries, 3 rows, 2 receivers that may withdraw, transfers may revert | 35 thousand |
| `grant_overlap` | Is each grant paid once if runs overlap? **No** | 2 runs that start apart, nothing else fails | counterexample |
| `checkout` | Do the statuses of a checkout tell the truth, and is what was mailed in the history? Is `Purchase` implemented? | 2 requests, 2 members, 2 orders of either, pages of one order, the same transfer, 2 units with coupons, 1 used coupon at a time, 1 crash, failing statements | 2.4 million |
| `comment` | Is a member that waits for its answers overdrawn by no more than was taken back from it behind a check, whatever the others do? Do comment and tokens go together, is every reply shown, do refused comments stay silent? Is `TipLedger` implemented, does every request end? | 4 comments, two of patient alice and two of impatient bob, who pay each other; a reply to a comment and a reply to that reply; one grant each, of which alice's may be taken back and made again, once between two checks; a pool of 4, 1 crash, failing statements | 166 thousand |
| `comment_overspend` | Is nobody overdrawn in general? **No** | 3 comments, nothing fails, nothing is taken back | counterexample |
| `mint` | Does a row name a known NFT, has every duplicate its reason, does a blocked content leave the other collections alone? | 2 overlapping activations of the hourly job, a fishing result and the trophy it won, one name for all files, owners that withdraw, 1 mishap (an exception or a crash) | 1.1 million |
| `push` | Do statuses tell what was sent, is a notice pushed once, does it reach its receiver only, is it settled? | 2 overlapping runs, 2 members with a notice each, 2 devices of which none or one is registered at first and one may be registered or change hands, 1 mishap | 1.0 million |
| `lure` | Are serial codes given out new, is a kind bought once, does a lure reach a reviewer, does an approval stand, does a token serve one request, and if not, why? | any 3 requests of 7 (two purchases, registrations with the last padded number and with 000, modifications to 001 and 000, a token for two lures; redemptions that race for the token keep to themselves), 2 members, 1 type and color, 1 reviewer's update at a time, 1 mishap | 1.4 million |
| `lure_duplicate` | Does the check let no type and serial code pass that an approved lure has? **No** | 2 registrations, nothing fails | counterexample |
| `cart` | Do the limit of five, the account of the stock, one item per product, deletions and the clearing hold but for the overlaps named? | any 3 requests of 2 users, 2 products, quantities -1, 0, 3 and 6, a stock of 5, 1 mishap | 5.0 million |
| `community` | Does what is saved in a member stand, is a stranger's text gone with the process, have rows their notices, has the last request about a pair the last word, is what is approved what was reviewed, is what is marked as read shown? | any 3 requests of ann and bob out of one of 5 mixes, after an old follow and an old rejected result; 2 posts; 29 February of two years; 1 mishap | 415 thousand |

Why the bounds are enough. Two runs of `fixToken` are the least that overlap, and
a third adds no new pair of steps; the row of `giveToken` and two of
`giveReadyToken` let a run hold one row while another is treated. One crash
separates "before" from "after"; a second one finds only states the first could
leave. Retries change nothing in `grant_safety` (an abandoned attempt and a
retried one leave the same trace on the chain), so they are counted where time
matters, in `grant_exact`. For a checkout, two requests are what can race for an
order, and two coupon units are what a loop that stops too early or a partial
coupon failure needs; with pages of one order, the second order is what pushes the
first one off. Two constraints of `CheckoutMC` leave out what nobody can tell
apart: orders that no request names, changes of a cart that is not read again, and
coupons used while a checkout is under way, which reads none of their marks.
Comments need three for a reply to a reply and four for
money that goes back and forth between a member that waits and one that does not.
For `mint`, a fishing result and a trophy stand for the two orders
of writing and for the one dependency between contents, and two runs for the
overlap; with the mishap a third NFT of the same content is reached. Both contents have
one image there, the worst case for the temporary files. For `push`, two notices make
chunks that are settled together or apart; with a second device registered, a chunk
may split one of them, and a registered device that moves is the least that can reach
a stranger. For `lure`, three requests are a lure, and two that meet over it; one type
and color suffice, because requests about different kinds do not meet, and two digital
lures make the loop repeat; reviewers deal with the last of them only (`OneReviewer`, with one
update under way at a time, which is what a modification needs to meet one), and
requests that race for a token meet no others (`RedeemApart`), which touch no token.
`LastPadded` is 2 and `Radix` 3 there, so that a registration
with the last padded number and a purchase reach the numbers whose order is
wrong. For `cart` and `community`, each property names two
requests that overlap, so it takes two to reach what it excuses and a third to
reach what it must not excuse: one that arrives when both are over, or that
repeats what one of them did. Two adds of 3 exceed the limit of five, 6 fits beside
-1 by a change, and an add of 6 is refused; a stock of 5 goes below zero, which
nothing prevents. `Mixes` keeps apart calls that share no table: saves of a
member; posts and goods; follows, blocks, reports and withdrawals; what a reader
sees of posts and follows; results, their review and their readers. A behaviour
takes its calls out of one mix. The proofs below remove these bounds for
everything but liveness and the invariants listed at their end.

`cart` and `community` check for deadlock: a state in which no step is possible
while a request is under way would be reported (`Stop` stands for the end of a
behaviour). The other instances offer finitely many requests or runs and stop
when they are answered; there, what must go on is a liveness property.

Symmetry is used in `grant_safety` (rows of one kind and receiver, runs), in
`checkout` (requests, members, units), in `lure`, `cart` and `community` (requests, of
`community` the new ones), never together with a liveness property.

### What the three counterexamples show

- `grant_overlap`: `fixToken` lists *all* rows that are PROCESSING, not those it
  has just marked. A run that starts (three minutes later) while an earlier one
  is still waiting for confirmations lists the earlier one's rows and pays them
  again. Each attempt may take its confirmation timeout, with three retries per
  row, so a run of a few slow rows is longer than three minutes. The job itself
  is documented as the settling of provisional grants, one payment each.
- `comment_overspend`: the comments at `comment.service.ts:74-77` say that the
  lock is taken so that nothing runs concurrently and that tokens are checked
  after it is taken. The call is not awaited, and the check reads on another
  connection, which no row lock stops. Two comments sent at the same time both
  pass.
- `lure_duplicate`: the comments at `lure.service.ts:123` and `175` say that type and
  serial code must be unique together. Both calls of `isLureDuplicated` give the
  serial code as its second argument, where the member id belongs; no lure has
  such an owner, and the answer is always that there is no duplicate. Two
  requests, one after the other, register the same code.

## Fairness

`TokenGrant`: weak fairness of each run's own steps (every await of a run returns
or throws: transfers have a confirmation timeout, statements return) and of
`FindReady`, because the cron job starts again every three minutes. Nothing is
assumed of clients, the chain's choice, withdrawals or faults. `CommentSpend`:
weak fairness of each request's steps and of `AcquireLock`: MySQL hands a free
row lock to a waiter, and a statement that has a connection ends. A request that
finds no free connection is not helped by fairness: `EveryRequestEnds` is
checked with a pool larger than the number of requests. With as many
transactions as connections each waits for a connection of another one and none
ever ends; that hazard is bounded by the instance, not refuted. `MintBatch` and
`PushNotification`: weak fairness of each run's steps; the cron jobs start again
and again, and statements, S3, the chain and Expo answer or throw. That something
throws is not fair and happens `MaxMishaps` times at most, so `EventuallyMinted`
and `EventuallySettled` say what happens once a disturbance is over; what keeps
failing by itself (an owner that has withdrawn, a chunk that Expo refuses) is not
limited. `Checkout`, `LureRegistration`, `Cart` and `Community` state no fairness and
no liveness: their requests wait for nothing but the database and an outside
service, a request that is refused ends, and nothing takes it up again. That none
of them is stuck on the way is what the deadlock check of `cart` and `community`
shows.

## What is proved

TLAPS checks every theorem for every value of the constants that meets the
assumptions of the module (`TxAssumption`, `ProcsAssumption`, `UnitAssumption`,
`CommentAssumption` and the like: sorts of functions, natural bounds, names for
"none" that no row, request or item has, finitely many rows to begin with), that is,
for any number of rows, runs, requests, members and connections.

| Theorem | States | Argument |
| --- | --- | --- |
| `TokenGrantProofs!TypeCorrect` | `[]TypeOK` | inductive as it stands |
| `TokenGrantProofs!FixIsBacked` | `[]FixBacked` | see below |
| `TokenGrantProofs!NothingSentEarly` | `[]NothingSentWhileReady` | see below |
| `TokenGrantProofs!NoticesAreBacked` | `[]NoticesBacked` | see below |
| `TokenGrantProofs!ImplementsPromise` | `Spec => KeepsPromise` | every step is a step of `GrantPromise` or a stutter |
| `TokenGrantProofs!PaymentsBounded` | if `~DbMayFail`: `Spec /\ []RunsApart => []GrantsBounded` | see below |
| `TokenGrantProofs!GrantsAreExact` | if `NothingFails`: `Spec /\ []RunsApart => []ExactGrant` | the bound above, with no crash and transfers that are lost or included |
| `CheckoutProofs!TypeCorrect` | `[]TypeOK` | inductive |
| `CheckoutProofs!CompletedWhole` | `[]CompletedIsWhole` | what is saved, coded and recorded at each `pc` |
| `CheckoutProofs!OrderBacked` | `[]OrderIsBacked` | at `order` and `clear` the request's own row is COMPLETED |
| `CheckoutProofs!ChargedReported` | `[]ChargedIsReported` | an accepted request is past `pay`, and a finished one has a final row |
| `CheckoutProofs!MailedShown` | `[]MailedIsShown` | from `clear` on, the order of a request whose transaction is COMPLETED is COMPLETED, and stays so; its codes are rows of a COMPLETED transaction, which the history of the order's owner lists while the order is on the page |
| `CheckoutProofs!ImplementsPurchase` | `Spec => KeepsPromise` | refinement |
| `CommentSpendProofs!TypeCorrect` | `[]TypeOK` | inductive |
| `CommentSpendProofs!CommentsWhole` | `[]AllOrNothing` | inductive: both sets grow in one step |
| `CommentSpendProofs!RepliesOneLevel` | `[]ThreadsOneLevel` | past `reply`, what a request replies to is committed and no reply; comments never go |
| `CommentSpendProofs!NoticesAccepted` | `[]NoticeOfAccepted` | a queued notice belongs to a request at `commit`, or to one that is committed or failed |
| `CommentSpendProofs!NeverOverdrawn` | `[]PatientNeverOverdrawn` | see below |
| `CommentSpendProofs!ImplementsLedger` | `Spec => KeepsLedger` | refinement, with the same invariant |
| `MintBatchProofs!TypeCorrect` | `[]TypeOK` | inductive |
| `MintBatchProofs!LinksComplete` | `[]LinkComplete` | at `row` a trophy's NFT is in `mint_master`, which only grows |
| `MintBatchProofs!NoUnexplainedDuplicate` | `[]DuplicatesExplained` | see below |
| `MintBatchProofs!MintedOnce` | if `MaxMishaps = 0`: `Spec /\ []JobsApart => []OneNftEach` | see below |
| `PushNotificationProofs!TypeCorrect` | `[]TypeOK` | inductive |
| `PushNotificationProofs!DevicesRespected` | `[]NoStrangers` | what a run believes of a device is right or the device is in `moved` |
| `PushNotificationProofs!StatusesTellTheTruth` | `[]StatusTruthful` | see below |
| `PushNotificationProofs!NoUnexplainedPush` | `[]PushedOnce` | see below |
| `PushNotificationProofs!StatusesNeverGoBack` | `Spec => NeverBack` | per action, from the types |
| `PushNotificationProofs!PushedAtMostOnce` | `Spec /\ []ListingsApart => []AtMostOnce` | see below |
| `LureRegistrationProofs!TypeCorrect` | `[]TypeOK` | with which request waits where and what it has at hand (`Shaped`) |
| `LureRegistrationProofs!ReviewsReached` | `[]LureHasReview` | inductive over `Base` |
| `LureRegistrationProofs!ApprovedIsLinked` | `[]ApprovedCanBeMinted` | a status is owed only where both tables are written |
| `LureRegistrationProofs!ApprovalHolds` | `[]ApprovedAsReviewed` | see below |
| `LureRegistrationProofs!SerialCodesNew` | `[]NumbersDistinct` | see below |
| `LureRegistrationProofs!BoughtOnce` | `[]PurchaseOnce` | see below |
| `LureRegistrationProofs!TokensServeOne` | `[]TokenOnce` | see below |
| `CartProofs!TypeCorrect` | `[]TypeOK` | with which rows each step refers to |
| `CartProofs!DeletionsHold` | `[]GoneStaysGone` | see below |
| `CartProofs!OneOfEachHolds` | `[]OneOfEach` | see below |
| `CartProofs!ClearingHolds` | `Spec => ClearedAsOrdered` | see below |
| `CartProofs!StockHolds` | `[]StockAccounted` | see below |
| `CartProofs!LimitHolds` | `[]LimitKept` | see below |
| `CartProofs!PatientUserServed` | for any `u`: `Spec /\ []OwnApart(u) => []CartsAsAsked(u)` | see below |
| `CommunityProofs!TypeCorrect` | `[]TypeOK` | one lemma per part |
| `CommunityProofs!ForeignEditsEnd` | `[]ForeignEditEndsServer` | an edit of a post that is not its author's has its check out, or is broken off |
| `CommunityProofs!SavesStay` | `[]SavesStand` | see below |
| `CommunityProofs!ReviewsHold` | `[]ReviewHolds` | see below |
| `CommunityProofs!NoticesFollowRows` | `[]NoticesMatchRows` | see below |
| `CommunityProofs!LastWordsCount` | `[]LastWordCounts` | see below |
| `CommunityProofs!ViewsMarkWhatTheyShow` | `Spec => MarksWhatItShows` | see below |

The arguments that need more than the property itself:

- *Grants.* `FixBacked` is not inductive: a run at `fix` may write FIX over
  anything. The strengthening says that a process at `fix` or `notify` has a row
  at hand for which the chain has included a transfer, and (if no transfer can
  revert) executed one; `landed` never falls. `NothingSentWhileReady` needs that
  the rows a process works on, has in its list or has in `pending` are asked for,
  that a row being asked for and not yet inserted has had no transfer, and that
  no row any loop holds is READY: nothing leads back to READY, because
  `MarkProcessing` comes before the listing the loop is made from. `NoticesBacked`
  counts: the notices of a row and the processes that still owe one (they stand at
  `fix` or `notify` with it) are together no more than its transfers on chain.
  `PaymentsBounded` counts per life of the process. A life may leave `PerLife`
  transfers of a row on the chain: `MaxRetries + 1`, or one where a transfer that was
  given up never gets there. The invariant `Bounded` says that a row in hand has been
  paid by earlier lives only, but for the one a process is at, and that one by what
  its tries so far may have added (`Spent`); that a row this life has paid says so,
  or is about to; and that nobody else has a row in hand. A crash makes what this
  life has spent part of what the lives before have (`Before`). Runs that overlap
  (`grant_overlap`) and statements that throw, after which another run finds the row
  PROCESSING again, have no such bound, which is why the theorem leaves them out.
- *Checkout.* One invariant gives, per step of a request, how far `saved`,
  `codes` and `recorded` have come and whether the transfer is out. It speaks of
  one request at a time; requests meet only in the order row, the transfer
  (which never becomes unsent again) and the cart, which is read once.
- *Comments.* At most one request of a patient member is active, so between its
  `ReadSent` and its `Commit` nobody else adds to `sent` of its author: what it has
  seen is still what the ledger holds. Others only add to `received`; what the system
  takes off it goes to `taken`, so that their sum covers what is about to be spent,
  from the check on (`Affordable`), and a check that passes starts `taken` anew because
  `received` alone covers it then. `TipLedger` has the same in two steps, `Allow` and
  `Tip`, with its own `TakeBack`. For members that do not wait the first sentence
  breaks.
- *Minting.* `DuplicatesExplained` counts runs. Call a run a holder of a content
  if it has listed it while nobody had it in hand and has not yet minted it. Then
  NFTs plus holders never exceed 1 + `excuses`, and while the row still waits, has no
  holder and nobody is about to record it, NFTs
  alone do not exceed `excuses`. Minting turns a holder into an NFT, and whoever
  shares the content mints it with an excuse; the second
  half is what lets a later run list the content again: whoever minted it and did
  not record it has left an excuse. `MintedOnce` says what this comes to where nothing
  fails (but for files that are gone) and no two activations of jobs that share a
  collection are alive together: no excuse is ever given, because an excuse takes a
  second run or a failure, and what a run holds is of the collections of its job
  (`OwnWork`).
- *Pushing.* Likewise, a run holds a message whose notice it has listed and which
  Expo has not accepted from it; pushes plus holders of a message never exceed
  1 + `excuses`, and where the last outcome is ERROR (and no answer was lost and no
  chunk split the notice) they do not exceed `excuses`, which makes ERROR truthful
  when two runs settle the same notice. A message that the run would not send, as it
  does not know the device, counts as held to the run's end; otherwise ERROR would say
  nothing of the devices that another run knew of. READY is never
  written by a run and `Mark` comes before the first chunk, so READY means unsent.
  `PushedAtMostOnce` needs one thing only, that no run lists while another stands
  between its listing and its marking: then there is no excuse, whatever throws or
  dies, since a notice that was taken up and never settled stays PROCESSING.
- *Lures.* All rest on `Base`: types, where each request may wait, and that a
  lure that is not there has neither status, placeholder nor anything owed.
  `ApprovedAsReviewed`: as long as a lure is not crowded, at most one request
  modifies it past the check, its status is REJECT until that request has saved,
  and a reviewer's update that is under way has seen the lure as it is. The update
  asks for no status, so this is all that keeps an approval from coming in between. `NumbersDistinct` and `PurchaseOnce`:
  a number in hand differs from those of the lures in `numberedAt` (up to
  `LastPadded`, where the order of the strings is that of the numbers), the lures
  in `checkedAt` are not of the kind or not of the member, and rows change by
  modification only, which the properties leave out. `TokenOnce`: a request that
  has found the token finds it undeleted, so whoever found it before is either
  still under way, and then in its `company`, or has failed.

- *Carts.* First, what a step may change at all: lemmas of the shape "the step
  leaves the request, the row, the item, the quantities alone, unless it is this
  action of that request". `GoneStaysGone`: once a deletion is over, every request
  that could bring the item back has read it before that, hence came before the
  deletion was over, and an item that is gone is found by nobody who comes later.
  `OneOfEach`: a request that is about to insert was there when its look-up found
  nothing; whoever has inserted meanwhile was under way then. `ClearedAsOrdered`:
  an item of the cart that a checkout holds has the quantity it has read, until
  a request saves the item that was not over when the checkout came.
  `StockHolds`: the copy a request is about to write from is what the stock is,
  unless some other that takes of the product was not over when the copy was read.
  `LimitHolds`: while no two that save in a cart overlapped and nobody has added a
  negative quantity to it, its quantities are naturals, the cart is within the
  limit and has room for what the one under way is about to save (`Room`), which
  covers the steps between the check and the save. Both add up sets. The sum of
  the community modules is recursive; the proofs use that its recursion has one
  solution, that a count of units is one (the units of the positive numbers less
  those of the negative ones), and that a claim that is wrong of some
  subset of a finite set is wrong of a smallest one. `PatientUserServed` puts three
  of these together; its part on the limit is for users that add no negative
  quantity. Every request works on a cart of its own user and deletes an
  item from one (`UsersOwn`), so the overlaps that `LimitKept`, `OneOfEach` and
  `GoneStaysGone` excuse are between requests of one user; a user that has no two
  under way has none that overlapped (`OwnOrdered`), whoever else is there.
- *Community.* All rest on the shapes a request may have (which step and which
  chores go with which call) and on `before`. `SavesStand`: as long as no other save
  of the member overlaps, the copy a request works on differs from the row in its
  own column only, so that what `SaveMember` finds to write is that column.
  `ReviewHolds`: each step is, as far as a result is concerned, quiet, an arrival,
  a write, a save of the status or a decision. While a result counts as approved,
  no request is about to rewrite it that was not under way when the approval was;
  whoever arrives later is refused at `CheckLatestReject`. What a decision under way has
  seen is what the result is, or the result was written by a request that overlaps the
  decision (`InSight`). The goods, follows and
  blocks rest on one invariant, `Graph`. Two rows of one pair come from requests that
  overlapped, because whoever finds no row was there before the row was (`NoneSeen`).
  What a removal finds and what it deletes was inserted for its pair, not later than
  it came, and of what was there before it came it finds and deletes the same
  (`Findings`, `NoneElse`); when its chores are done the row it found is gone, and
  the notification too (`RowsGo`, `NoticesGo`). `NoticesMatchRows` follows by looking at
  who could have taken one of the two away. For `LastWordCounts` the last request of a
  pair has all the others in `before`, so that a row it leaves, or finds, is the only one.
  `MarksWhatItShows`: an item enters a member's timeline by a post, an approval, a
  rewriting or a follow of a request that is under way; so all that is in the
  timeline of a request that sets marks was selected by it, or came meanwhile
  (`Covers`). That a result does not change hands unnoticed needs the invariant
  of `ReviewHolds`.

The code does not guarantee `RunsApart`, `JobsApart`, `ListingsApart` and
`OwnApart(u)`: these hypotheses say what it takes for the strong statement to hold.
Nothing keeps a job from starting while its last run is at work, so `RunsApart` and
`JobsApart` need runs that end before the next is due, and `ListingsApart` only that
two runs do not meet in the two statements at their head; `OwnApart(u)` is the
client's matter. Each is needed: without it TLC finds a state that violates the
conclusion, for the grants in `grant_overlap`.

Only model-checked: `EventuallySettled` (of both modules that have it),
`EventuallyMinted` and `EveryRequestEnds`, since liveness is beyond the prover. Every
other property of a passing run is stated by a theorem.
`FixBacked`, `OrderIsBacked` and the `TypeOK`s are proved and no properties of a run.
`KeepsPromise` and `KeepsLedger` are both checked and proved.

## Findings

`PROJECT.json` lists the three disagreements between a comment of the code and
what it does that `grant_overlap`, `comment_overspend` and `lure_duplicate`
exhibit. Of the hazards listed there one has no property: the transfer of a checkout
is submitted and never confirmed (`real-time-token.ts:45`), so what becomes of it is
known to nobody who could act on it; `ChainSettles` may drop it at any time, and
every property of `Checkout` speaks of transfers that were accepted, not of
transfers that were paid.

## Not modelled, and why

- *Amounts of a checkout* are the client's; nothing in the backend compares them
  with the cart, so no property could be about them. `validateTokenCount` is never
  called, `transferToken` is empty and `buyDigitalLure` has no caller.
- *Wording*: mails, notifications, errors, translation, the formatting of
  responses and the upload of files change no state the properties speak of. A
  mail about an order without coupons lists one blank line (`Blank`).
- *Quantities that are no integers*, which the body of an add does not rule out, and
  the value of the status of an item, which nothing reads.
- *Order history*: the totals it adds up are not modelled. They count all orders,
  and an order's items are those of its failed transactions too.
- *Lures*: `applyForLost` and `admitLegendaryLure` set flags that no other
  operation reads; the pictures, the review log and the queries are left out.
- *Fishing results*: `freeTextLure` is not written by `modify`; `modify` also writes
  the member, so that the owner of a result is whoever wrote it last
  (`Owner` in `TimelineRead`). The other fields are one version.
- *Notifications*: `last_read_at` is left out. `markAsRead` sets it for all rows of a
  member by a column (`to`) that only the entity, which is not in the repository,
  could explain, and only the count of unread rows reads it.
- *Timeline*: pages of it and the public timeline only read. An answer that is lost
  after the marks are set leaves the items marked and not shown; the model's
  items count as shown when they are selected.
- *Trophies, merchandise, contests*: queries, and updates of single columns that
  nothing reads in between; `MintBatch` mints what they hold.
- *Gallery, ranking, search, tackle box, masters, news*: queries, whose SQL is not
  in the repository. What the gallery tells of followers is `GetGallery`.
- *Guards, middleware, configuration, health check, older Solana helpers*: no state
  of their own. What a node does inside an RPC call is reduced to accept, refuse,
  or accept and lose the answer.

## What is left

Compositions: grants and comments over one `token_transaction` table, so that
`Grant` and `TakeBack` of `CommentSpend` become `RecordFix`, `RecordError` and
`MarkProcessing`; `Cart` in place of `CartAdd` and
`CartRemove` in `Checkout`; the notices of `SocialGraph` as rows of
`PushNotification`; `registerDigitalLure` in place of `Queue` in `MintBatch`. Each
multiplies two state spaces that are already as large as a run allows, and the
properties of the parts are stated over the interface each has to the other.

Proofs: the counterparts of `PatientUserServed` for members whose likes, follows and
saves never overlap, from the invariants of `CommunityProofs`, and for a member who
buys, registers and modifies lures one at a time, from those of `LureRegistrationProofs`.
