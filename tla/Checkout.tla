------------------------------ MODULE Checkout ------------------------------
(***************************************************************************)
(* The token exchange: TokenExchangeService.checkoutForCart, createOrder   *)
(* and the order history, over dao/token-exchange.dao.ts, the Shopify API, *)
(* the mail server and real-time-token.ts.  A member may send several      *)
(* checkout requests at a time (a second device, a second click, a retry), *)
(* for the same order and even with the same signed transfer; requests of  *)
(* different members meet in an order, since nobody asks whose it is.  A   *)
(* step is the code between two awaits; nothing in the handler is one      *)
(* database transaction.                                                   *)
(*                                                                         *)
(* Left out: prices (the amount charged is the client's, nothing compares  *)
(* it with the cart), the text of mails and coupon codes, and cart rows    *)
(* themselves: a cart is the set of units in it.                           *)
(***************************************************************************)
EXTENDS Naturals, FiniteSets

CONSTANTS
  Members,
  Unit,        \* units of products a member may put into the cart
  CouponUnit,  \* those whose product has a priceRuleId, so a coupon is made
  Order,       \* orders that may be created, numbered by their createdAt
  PageSize,    \* orders on the one page of the history that is ever asked for
  Transfer,    \* transfers a wallet may sign
  Checkouts,   \* checkout requests, each with the exchange_transaction it makes
  MaxUsed,     \* bound: how many coupons are marked as used at a time
  MaxCrashes,  \* bound: how often the server process dies
  DbMayFail    \* may a statement of the database throw?

ASSUME UnitAssumption == CouponUnit \subseteq Unit
ASSUME OrderAssumption == Order \subseteq Nat /\ PageSize \in Nat
ASSUME BoundsAssumption ==
  MaxUsed \in Nat /\ MaxCrashes \in Nat /\ DbMayFail \in BOOLEAN

VARIABLES
  cart,         \* [Members -> the units in the cart]
  orderStatus,  \* [Order -> status of the order row]
  txStatus,     \* [Checkouts -> status of the exchange_transaction row]
  saved,        \* [Checkouts -> units it has saved as order items]
  recorded,     \* [Checkouts -> units whose coupon row it has inserted]
  used,         \* coupon rows <<request, unit>> that are markedAsUsed
  owner,        \* userId of the order row: who creates the order
  member,       \* who sends the request
  orderOf,      \* orderId in the body of the request
  signed,       \* offlineTransaction in the body of the request
  pc,
  bought,       \* the cart as the request read it
  tried,        \* units it has asked Shopify a coupon for
  codes,        \* units Shopify has answered with a code
  accepted,     \* requests whose transfer the RPC node accepted
  mailed,       \* requests whose mail the mail server took
  transfer,     \* [Transfer -> where it is; "settled": included, or too old to be]
  interrupted,  \* history: requests that a throwing statement or a crash ended
  crashes

tables == <<cart, orderStatus, txStatus, saved, recorded, used>>
request == <<owner, member, orderOf, signed>>
local == <<pc, bought, tried, codes>>
outside == <<accepted, mailed, transfer>>
faults == <<interrupted, crashes>>
vars == <<tables, request, local, outside, faults>>

TxStatuses ==
  {"NONE", "PENDING", "IN_PROGRESS", "FAILED_SHOPIFY_COUPON", "FAILED_EMAIL", "COMPLETED"}
Steps ==
  {"idle", "init", "progress", "items", "coupons", "couponfail", "pay", "record",
   "email", "emailfail", "complete", "order", "clear", "done"}

TypeOK ==
  /\ cart \in [Members -> SUBSET Unit]
  /\ orderStatus \in [Order -> {"NONE", "PENDING", "COMPLETED"}]
  /\ txStatus \in [Checkouts -> TxStatuses]
  /\ saved \in [Checkouts -> SUBSET Unit]
  /\ recorded \in [Checkouts -> SUBSET CouponUnit]
  /\ used \subseteq Checkouts \X CouponUnit
  /\ owner \in [Order -> Members]
  /\ member \in [Checkouts -> Members]
  /\ orderOf \in [Checkouts -> Order]
  /\ signed \in [Checkouts -> Transfer]
  /\ pc \in [Checkouts -> Steps]
  /\ bought \in [Checkouts -> SUBSET Unit]
  /\ tried \in [Checkouts -> SUBSET CouponUnit]
  /\ codes \in [Checkouts -> SUBSET CouponUnit]
  /\ accepted \subseteq Checkouts
  /\ mailed \subseteq Checkouts
  /\ transfer \in [Transfer -> {"unsent", "inflight", "settled"}]
  /\ interrupted \subseteq Checkouts
  /\ crashes \in 0..MaxCrashes

Init ==
  /\ cart = [m \in Members |-> {}]
  /\ orderStatus = [o \in Order |-> "NONE"]
  /\ txStatus = [c \in Checkouts |-> "NONE"]
  /\ saved = [c \in Checkouts |-> {}]
  /\ recorded = [c \in Checkouts |-> {}]
  /\ used = {}
  /\ owner \in [Order -> Members]
  /\ member \in [Checkouts -> Members]
  /\ orderOf \in [Checkouts -> Order]
  /\ signed \in [Checkouts -> Transfer]
  /\ pc = [c \in Checkouts |-> "idle"]
  /\ bought = [c \in Checkouts |-> {}]
  /\ tried = [c \in Checkouts |-> {}]
  /\ codes = [c \in Checkouts |-> {}]
  /\ accepted = {}
  /\ mailed = {}
  /\ transfer = [s \in Transfer |-> "unsent"]
  /\ interrupted = {}
  /\ crashes = 0

-----------------------------------------------------------------------------
(* Helpers *)

Goto(c, l) == pc' = [pc EXCEPT ![c] = l]

\* updateTransactionStatus: c writes status s to its row and goes on to step l.
WriteTx(c, s, l) ==
  /\ txStatus' = [txStatus EXCEPT ![c] = s]
  /\ Goto(c, l)
  /\ UNCHANGED <<cart, orderStatus, saved, recorded, used, request, bought, tried, codes,
                 outside, faults>>

\* discountItems: the bought units that get a coupon.
Discount(c) == bought[c] \cap CouponUnit

-----------------------------------------------------------------------------
(* Carts and orders *)

CartAdd(m, u) ==
  /\ u \in Unit \ cart[m]
  /\ cart' = [cart EXCEPT ![m] = @ \cup {u}]
  /\ UNCHANGED <<orderStatus, txStatus, saved, recorded, used, request, local, outside, faults>>

CartRemove(m, u) ==
  /\ u \in cart[m]
  /\ cart' = [cart EXCEPT ![m] = @ \ {u}]
  /\ UNCHANGED <<orderStatus, txStatus, saved, recorded, used, request, local, outside, faults>>

\* createOrder: the next row, for a cart that holds something.  Its loop over the
\* items only builds objects and saves none of them.
CreateOrder(o) ==
  /\ orderStatus[o] = "NONE"
  /\ \A p \in Order : p < o => orderStatus[p] # "NONE"
  /\ cart[owner[o]] # {}
  /\ orderStatus' = [orderStatus EXCEPT ![o] = "PENDING"]
  /\ UNCHANGED <<cart, txStatus, saved, recorded, used, request, local, outside, faults>>

-----------------------------------------------------------------------------
(* checkoutForCart *)

\* (1) The cart is read once; an empty one is refused.
ReadCart(c) ==
  /\ pc[c] = "idle"
  /\ bought' = [bought EXCEPT ![c] = cart[member[c]]]
  /\ Goto(c, IF cart[member[c]] = {} THEN "done" ELSE "init")
  /\ UNCHANGED <<tables, request, tried, codes, outside, faults>>

\* (3) initializeTransaction: an order that does not exist ends the request; one
\* that does is taken, whoever created it and whatever its status.
InitializeTransaction(c) ==
  /\ pc[c] = "init"
  /\ IF orderStatus[orderOf[c]] = "NONE"
     THEN Goto(c, "done") /\ UNCHANGED <<tables, request, bought, tried, codes, outside, faults>>
     ELSE WriteTx(c, "PENDING", "progress")

MarkInProgress(c) == pc[c] = "progress" /\ WriteTx(c, "IN_PROGRESS", "items")

\* (4) createOrderItem, one bought unit after the other.
CreateOrderItem(c) ==
  /\ pc[c] = "items"
  /\ \E u \in bought[c] \ saved[c] :
       /\ saved' = [saved EXCEPT ![c] = @ \cup {u}]
       /\ Goto(c, IF saved[c] \cup {u} # bought[c] THEN "items"
                  ELSE IF Discount(c) = {} THEN "pay" ELSE "coupons")
  /\ UNCHANGED <<cart, orderStatus, txStatus, recorded, used, request, bought, tried, codes,
                 outside, faults>>

\* (5) createDiscountCodes: Shopify is asked for every unit, whether or not an
\* earlier one failed; a failure is a null among the codes.
CreateDiscountCode(c) ==
  /\ pc[c] = "coupons"
  /\ \E u \in Discount(c) \ tried[c], ok \in BOOLEAN :
       /\ tried' = [tried EXCEPT ![c] = @ \cup {u}]
       /\ codes' = IF ok THEN [codes EXCEPT ![c] = @ \cup {u}] ELSE codes
       /\ Goto(c, IF tried[c] \cup {u} # Discount(c) THEN "coupons"
                  ELSE IF codes'[c] = Discount(c) THEN "pay" ELSE "couponfail")
  /\ UNCHANGED <<tables, request, bought, outside, faults>>

FailCoupons(c) == pc[c] = "couponfail" /\ WriteTx(c, "FAILED_SHOPIFY_COUPON", "done")

\* realTimeSendToken: the node simulates the transfer, which fails if it was
\* already included or is too old, and forwards it.  Nobody waits for inclusion.
SendToken(c) ==
  /\ pc[c] = "pay"
  /\ transfer[signed[c]] \in {"unsent", "inflight"}
  /\ transfer' = [transfer EXCEPT ![signed[c]] = "inflight"]
  /\ accepted' = accepted \cup {c}
  /\ Goto(c, IF codes[c] = {} THEN "email" ELSE "record")
  /\ UNCHANGED <<tables, request, bought, tried, codes, mailed, faults>>

\* The call throws: the transfer was refused, or forwarded and the answer lost.
\* The request ends with a 500 and the row stays IN_PROGRESS.
SendTokenThrows(c) ==
  /\ pc[c] = "pay"
  /\ \/ UNCHANGED transfer
     \/ transfer[signed[c]] = "unsent"
        /\ transfer' = [transfer EXCEPT ![signed[c]] = "inflight"]
  /\ Goto(c, "done")
  /\ UNCHANGED <<tables, request, bought, tried, codes, accepted, mailed, faults>>

\* Mutant: the loop over the codes stops after the first row.
InsertFirstCoupon(c) ==
  /\ pc[c] = "record"
  /\ \E u \in codes[c] \ recorded[c] : recorded' = [recorded EXCEPT ![c] = @ \cup {u}]
  /\ Goto(c, "email")
  /\ UNCHANGED <<cart, orderStatus, txStatus, saved, used, request, bought, tried, codes,
                 outside, faults>>

\* (6) One row of exchange_transaction_coupon after the other.
InsertCoupon(c) ==
  /\ pc[c] = "record"
  /\ \E u \in codes[c] \ recorded[c] :
       /\ recorded' = [recorded EXCEPT ![c] = @ \cup {u}]
       /\ Goto(c, IF recorded[c] \cup {u} = codes[c] THEN "email" ELSE "record")
  /\ UNCHANGED <<cart, orderStatus, txStatus, saved, used, request, bought, tried, codes,
                 outside, faults>>

\* sendEmail: SendGrid takes the mail or the call throws; when the answer is lost
\* it throws although the mail is on its way.
SendEmail(c, ok) ==
  \/ mailed' = mailed \cup {c}
  \/ ~ok /\ UNCHANGED mailed

\* Mutant: what the mail server answers is not looked at.
SendCouponEmailUnchecked(c) ==
  /\ pc[c] = "email"
  /\ \E ok \in BOOLEAN : SendEmail(c, ok)
  /\ Goto(c, "complete")
  /\ UNCHANGED <<tables, request, bought, tried, codes, accepted, transfer, faults>>

\* (7) The mail with the codes: an error of the mail server is the answer "not sent".
SendCouponEmail(c) ==
  /\ pc[c] = "email"
  /\ \E ok \in BOOLEAN :
       SendEmail(c, ok) /\ Goto(c, IF ok THEN "complete" ELSE "emailfail")
  /\ UNCHANGED <<tables, request, bought, tried, codes, accepted, transfer, faults>>

\* What the mail lists: one line per code, cut out of the codes joined with commas
\* (no code holds one); without any code that still is one line, a blank one.
Blank == <<>>
CouponMail(c) == IF codes[c] = {} THEN {Blank} ELSE {<<c, u>> : u \in codes[c]}

\* Mutant: a failed mail ends the request without a word in the table.
FailEmailSilently(c) ==
  /\ pc[c] = "emailfail"
  /\ Goto(c, "done")
  /\ UNCHANGED <<tables, request, bought, tried, codes, outside, faults>>

FailEmail(c) == pc[c] = "emailfail" /\ WriteTx(c, "FAILED_EMAIL", "done")

\* (8) The transaction row, then the order row, then the cart.
CompleteTransaction(c) == pc[c] = "complete" /\ WriteTx(c, "COMPLETED", "order")

CompleteOrder(c) ==
  /\ pc[c] = "order"
  /\ orderStatus' = [orderStatus EXCEPT ![orderOf[c]] = "COMPLETED"]
  /\ Goto(c, "clear")
  /\ UNCHANGED <<cart, txStatus, saved, recorded, used, request, bought, tried, codes,
                 outside, faults>>

\* clearUserCart deletes the requester's cart with whatever it holds by now.
ClearUserCart(c) ==
  /\ pc[c] = "clear"
  /\ cart' = [cart EXCEPT ![member[c]] = {}]
  /\ Goto(c, "done")
  /\ UNCHANGED <<orderStatus, txStatus, saved, recorded, used, request, bought, tried, codes,
                 outside, faults>>

-----------------------------------------------------------------------------
(* The coupons.  Their rows are never deleted and never change hands, so the *)
(* reads before the write of updateCouponUsage and the write are one step.   *)

\* findCouponById: the row of the coupon, or a 404.
FindCouponById(k) == k[2] \in recorded[k[1]]

\* findTransactionById: the transaction has the userId of who sent the request.
UserIdOf(c) == member[c]

ValidateCouponOwnership(k, who) == FindCouponById(k) /\ UserIdOf(k[1]) = who

UpdateCouponUsageStatus(k, isUsed) == used' = IF isUsed THEN used \cup {k} ELSE used \ {k}

\* updateCouponUsage: a coupon of one's own is marked or unmarked, as often as one likes.
UpdateCouponUsage(k, who, isUsed) ==
  /\ ValidateCouponOwnership(k, who)
  /\ isUsed => Cardinality(used \cup {k}) <= MaxUsed
  /\ UpdateCouponUsageStatus(k, isUsed)
  /\ UNCHANGED <<cart, orderStatus, txStatus, saved, recorded, request, local, outside, faults>>

-----------------------------------------------------------------------------
(* The order history *)

\* The COMPLETED orders of member m that are newer than o.
NewerOrders(m, o) ==
  {p \in Order : p > o /\ owner[p] = m /\ orderStatus[p] = "COMPLETED"}

\* skip 0, take PageSize.
OnPage(m, o) == Cardinality(NewerOrders(m, o)) < PageSize

\* The first page of the COMPLETED orders member m has created, newest first (the
\* controller asks for no other), each with the COMPLETED transactions for it,
\* whoever's they are.
FindOrdersByUserId(m) ==
  [o \in {p \in Order : owner[p] = m /\ orderStatus[p] = "COMPLETED" /\ OnPage(m, p)} |->
     {c \in Checkouts : orderOf[c] = o /\ txStatus[c] = "COMPLETED"}]

\* Mutant: the coupons of one transaction of the order.
CouponsOfOne(m) ==
  [o \in DOMAIN FindOrdersByUserId(m) |->
     LET c == CHOOSE d \in FindOrdersByUserId(m)[o] : TRUE IN {<<c, u>> : u \in recorded[c]}]

\* What the history shows of an order: the coupons of all those transactions, flattened.
OrderHistory(m) ==
  [o \in DOMAIN FindOrdersByUserId(m) |->
     UNION {{<<c, u>> : u \in recorded[c]} : c \in FindOrdersByUserId(m)[o]}]

-----------------------------------------------------------------------------
(* Faults and the chain *)

\* A statement of the database throws: the controller answers 500.
StatementThrows(c) ==
  /\ DbMayFail
  /\ pc[c] \in Steps \ {"idle", "coupons", "pay", "email", "done"}
  /\ Goto(c, "done")
  /\ interrupted' = interrupted \cup {c}
  /\ UNCHANGED <<tables, request, bought, tried, codes, outside, crashes>>

\* The process dies with every request in it.
Crash ==
  LET alive == {c \in Checkouts : pc[c] \notin {"idle", "done"}} IN
  /\ crashes < MaxCrashes
  /\ crashes' = crashes + 1
  /\ alive # {}
  /\ pc' = [c \in Checkouts |-> IF c \in alive THEN "done" ELSE pc[c]]
  /\ interrupted' = interrupted \cup alive
  /\ UNCHANGED <<tables, request, bought, tried, codes, outside>>

ChainSettles(s) ==
  /\ transfer[s] = "inflight"
  /\ transfer' = [transfer EXCEPT ![s] = "settled"]
  /\ UNCHANGED <<tables, request, local, accepted, mailed, faults>>

-----------------------------------------------------------------------------
CheckoutStep(c) ==
  \/ ReadCart(c) \/ InitializeTransaction(c) \/ MarkInProgress(c) \/ CreateOrderItem(c)
  \/ CreateDiscountCode(c) \/ FailCoupons(c)
  \/ SendToken(c) \/ SendTokenThrows(c)
  \/ InsertCoupon(c) \/ SendCouponEmail(c) \/ FailEmail(c)
  \/ CompleteTransaction(c) \/ CompleteOrder(c) \/ ClearUserCart(c)

Next ==
  \/ \E m \in Members, u \in Unit : CartAdd(m, u) \/ CartRemove(m, u)
  \/ \E o \in Order : CreateOrder(o)
  \/ \E c \in Checkouts : CheckoutStep(c) \/ StatementThrows(c)
  \/ \E k \in Checkouts \X CouponUnit, who \in Members, isUsed \in BOOLEAN :
       UpdateCouponUsage(k, who, isUsed)
  \/ Crash
  \/ \E s \in Transfer : ChainSettles(s)

Spec == Init /\ [][Next]_vars

-----------------------------------------------------------------------------
(* What a checkout promises *)

\* COMPLETED is the last word on a purchase whose every part is done: the
\* transfer went out, each bought unit is an order item, and each unit that
\* gets a coupon has its row, although no transaction ties the writes together.
CompletedIsWhole ==
  \A c \in Checkouts : txStatus[c] = "COMPLETED" =>
    /\ transfer[signed[c]] # "unsent"
    /\ saved[c] = bought[c]
    /\ recorded[c] = Discount(c)

\* The order history lists COMPLETED orders with their COMPLETED transactions:
\* an order never counts as completed without one, whichever of several
\* requests for it completed it and whichever of them failed or died.
OrderIsBacked ==
  \A o \in Order : orderStatus[o] = "COMPLETED" =>
    \E c \in Checkouts : orderOf[c] = o /\ txStatus[c] = "COMPLETED"

\* Once the node has accepted the transfer, the request ends with the outcome
\* in the table, unless a statement threw or the process died under it: the
\* code's own error paths never lose sight of a charged member.
ChargedIsReported ==
  \A c \in accepted \ interrupted :
    pc[c] = "done" => txStatus[c] \in {"FAILED_EMAIL", "COMPLETED"}

\* Once a request is over, the codes it has mailed are in a history under its
\* order, whichever other requests for the order failed or came later: in the
\* history of the member who created the order, so in that of the buyer unless
\* the order given was another's.  An order that PageSize newer COMPLETED orders
\* have pushed off the page is shown to nobody.  Beyond that only a lost answer of
\* the mail server (the transaction then says FAILED_EMAIL), a statement that
\* threw or a crash may leave the codes in the mail alone.
MailedIsShown ==
  \A c \in mailed \ interrupted :
    LET o == orderOf[c] IN
    pc[c] = "done" =>
      \/ txStatus[c] = "FAILED_EMAIL"
      \/ ~OnPage(owner[o], o)
      \/ /\ o \in DOMAIN OrderHistory(owner[o])
         /\ CouponMail(c) \ {Blank} \subseteq OrderHistory(owner[o])[o]

\* Each request is a Purchase.
Promise == INSTANCE Purchase WITH
  charged <- accepted,
  report <- [c \in Checkouts |->
               CASE txStatus[c] = "FAILED_SHOPIFY_COUPON" -> "couponsFailed"
                 [] txStatus[c] = "FAILED_EMAIL" -> "mailFailed"
                 [] txStatus[c] = "COMPLETED" -> "completed"
                 [] OTHER -> "none"]
KeepsPromise == Promise!Spec
=============================================================================
