--------------------------- MODULE CheckoutProofs ---------------------------
(***************************************************************************)
(* Theorems about Checkout, for any number of units, orders, transfers and *)
(* concurrent requests and of members.                                     *)
(***************************************************************************)
EXTENDS Checkout, TLAPS

(* The steps a request may be at once a fact about it is settled. *)
Listed == {"coupons", "couponfail", "pay", "record", "email", "emailfail", "complete",
           "order", "clear"}
Coded == {"pay", "record", "email", "emailfail", "complete", "order", "clear"}
Charged == Coded \ {"pay"}
Recorded == Charged \ {"record"}
Mailed == {"complete", "order", "clear"}

(* What a request has done, by where it stands. *)
ProgressOK ==
  \A c \in Checkouts :
    /\ pc[c] = "idle" => saved[c] = {} /\ codes[c] = {}
    /\ saved[c] \subseteq bought[c] /\ (pc[c] \in Listed => saved[c] = bought[c])
    /\ codes[c] \subseteq Discount(c) /\ (pc[c] \in Coded => codes[c] = Discount(c))
    /\ recorded[c] \subseteq codes[c] /\ (pc[c] \in Recorded => recorded[c] = Discount(c))
    /\ pc[c] \in Charged => c \in accepted
    /\ c \in accepted => pc[c] \in Charged \cup {"done"} /\ transfer[signed[c]] # "unsent"
    /\ pc[c] \in Mailed => c \in mailed
    /\ c \in mailed => pc[c] \in Mailed \cup {"emailfail", "done"} /\ c \in accepted

(* What its row says, by where it stands, and what a final status implies. *)
RowOK ==
  \A c \in Checkouts :
    /\ pc[c] \in {"idle", "init"} => txStatus[c] = "NONE"
    /\ pc[c] = "progress" => txStatus[c] = "PENDING"
    /\ pc[c] \in {"items", "coupons", "couponfail", "pay", "record", "email", "emailfail",
                  "complete"} => txStatus[c] = "IN_PROGRESS"
    /\ pc[c] \in {"order", "clear"} => txStatus[c] = "COMPLETED"
    /\ txStatus[c] = "FAILED_SHOPIFY_COUPON" => c \notin accepted
    /\ txStatus[c] = "FAILED_EMAIL" => c \in accepted
    /\ txStatus[c] = "COMPLETED" =>
         c \in mailed /\ saved[c] = bought[c] /\ recorded[c] = Discount(c)

IInv == TypeOK /\ ProgressOK /\ RowOK /\ OrderIsBacked /\ ChargedIsReported

-----------------------------------------------------------------------------
(* Types. *)
LEMMA TypeInit == Init => TypeOK
  BY BoundsAssumption DEF Init, TypeOK, TxStatuses, Steps

LEMMA TypeStep == TypeOK /\ [Next]_vars => TypeOK'
<1> SUFFICES ASSUME TypeOK, [Next]_vars PROVE TypeOK'
  OBVIOUS
<1> USE UnitAssumption, BoundsAssumption
        DEF TypeOK, TxStatuses, Steps, Goto, WriteTx, Discount, tables, request, local,
            outside, faults
<1>1. ASSUME NEW m \in Members, NEW u \in Unit, CartAdd(m, u) \/ CartRemove(m, u)
      PROVE TypeOK'
  BY <1>1 DEF CartAdd, CartRemove
<1>2. ASSUME NEW o \in Order, CreateOrder(o) PROVE TypeOK'
  BY <1>2 DEF CreateOrder
<1>3. ASSUME NEW c \in Checkouts, ReadCart(c) \/ InitializeTransaction(c) \/ MarkInProgress(c)
      PROVE TypeOK'
  BY <1>3 DEF ReadCart, InitializeTransaction, MarkInProgress
<1>4. ASSUME NEW c \in Checkouts, CreateOrderItem(c) PROVE TypeOK'
  BY <1>4 DEF CreateOrderItem
<1>5. ASSUME NEW c \in Checkouts, CreateDiscountCode(c) \/ FailCoupons(c) PROVE TypeOK'
  BY <1>5 DEF CreateDiscountCode, FailCoupons
<1>6. ASSUME NEW c \in Checkouts, SendToken(c) \/ SendTokenThrows(c) PROVE TypeOK'
  BY <1>6 DEF SendToken, SendTokenThrows
<1>7. ASSUME NEW c \in Checkouts, InsertCoupon(c) \/ SendCouponEmail(c) \/ FailEmail(c)
      PROVE TypeOK'
  BY <1>7 DEF InsertCoupon, SendCouponEmail, SendEmail, FailEmail
<1>8. ASSUME NEW c \in Checkouts, CompleteTransaction(c) \/ CompleteOrder(c) \/ ClearUserCart(c)
      PROVE TypeOK'
  BY <1>8 DEF CompleteTransaction, CompleteOrder, ClearUserCart
<1>9. ASSUME NEW c \in Checkouts, StatementThrows(c) PROVE TypeOK'
  BY <1>9 DEF StatementThrows
<1>10. CASE Crash
  BY <1>10 DEF Crash
<1>11. ASSUME NEW s \in Transfer, ChainSettles(s) PROVE TypeOK'
  BY <1>11 DEF ChainSettles
<1>12. ASSUME NEW k \in Checkouts \X CouponUnit, NEW who, NEW isUsed,
              UpdateCouponUsage(k, who, isUsed)
       PROVE TypeOK'
  BY <1>12 DEF UpdateCouponUsage, UpdateCouponUsageStatus
<1>13. CASE UNCHANGED vars
  BY <1>13 DEF vars
<1> QED
  BY <1>1, <1>2, <1>3, <1>4, <1>5, <1>6, <1>7, <1>8, <1>9, <1>10, <1>11, <1>12, <1>13
  DEF Next, CheckoutStep

(* Type correctness of every state the shop reaches. *)
THEOREM TypeCorrect == Spec => []TypeOK
  BY TypeInit, TypeStep, PTL DEF Spec

-----------------------------------------------------------------------------
(* The inductive invariant.  CompletedIsWhole and ChargedIsReported speak of   *)
(* rows whose request is over; what makes them true is what the request had    *)
(* done when it stood at the step that wrote the row (ProgressOK, RowOK).      *)

LEMMA InvInit == Init => IInv
  BY TypeInit DEF Init, IInv, ProgressOK, RowOK, OrderIsBacked, ChargedIsReported, Discount,
     Listed, Coded, Charged, Recorded, Mailed

(* The steps of a request, in three groups. *)
LEMMA InvFirstSteps ==
  ASSUME IInv, TypeOK', NEW c \in Checkouts,
         \/ ReadCart(c) \/ InitializeTransaction(c) \/ MarkInProgress(c)
         \/ CreateOrderItem(c) \/ CreateDiscountCode(c) \/ FailCoupons(c)
  PROVE  IInv'
<1> USE UnitAssumption
        DEF Goto, WriteTx, Discount, tables, request, local, outside, faults
<1>1. ProgressOK'
  <2> USE DEF IInv, TypeOK, ProgressOK, Listed, Coded, Charged, Recorded, Mailed
  <2>1. CASE ReadCart(c)
    BY <2>1 DEF ReadCart, RowOK
  <2>2. CASE InitializeTransaction(c) \/ MarkInProgress(c) \/ FailCoupons(c)
    BY <2>2 DEF InitializeTransaction, MarkInProgress, FailCoupons
  <2>3. CASE CreateOrderItem(c)
    BY <2>3 DEF CreateOrderItem
  <2>4. CASE CreateDiscountCode(c)
    BY <2>4 DEF CreateDiscountCode
  <2> QED
    BY <2>1, <2>2, <2>3, <2>4
<1>2. RowOK'
  BY DEF IInv, TypeOK, ProgressOK, RowOK, Charged, Coded, Mailed, ReadCart,
     InitializeTransaction, MarkInProgress, CreateOrderItem, CreateDiscountCode, FailCoupons
<1>3. OrderIsBacked'
  BY DEF IInv, TypeOK, RowOK, OrderIsBacked, ReadCart, InitializeTransaction, MarkInProgress,
     CreateOrderItem, CreateDiscountCode, FailCoupons
<1>4. ChargedIsReported'
  BY DEF IInv, TypeOK, ProgressOK, ChargedIsReported, Charged, Coded, ReadCart,
     InitializeTransaction, MarkInProgress, CreateOrderItem, CreateDiscountCode, FailCoupons
<1> QED
  BY <1>1, <1>2, <1>3, <1>4 DEF IInv

LEMMA InvPayment ==
  ASSUME IInv, TypeOK', NEW c \in Checkouts,
         \/ SendToken(c) \/ SendTokenThrows(c) \/ InsertCoupon(c) \/ SendCouponEmail(c)
  PROVE  IInv'
<1> USE UnitAssumption DEF Goto, Discount, tables, request, local, outside, faults
<1>1. ProgressOK'
  BY DEF IInv, TypeOK, ProgressOK, Listed, Coded, Charged, Recorded, Mailed, SendToken,
     SendTokenThrows, InsertCoupon, SendCouponEmail, SendEmail
<1>2. RowOK'
  BY DEF IInv, TypeOK, ProgressOK, RowOK, SendToken, SendTokenThrows, InsertCoupon,
     SendCouponEmail, SendEmail
<1>3. OrderIsBacked'
  BY DEF IInv, TypeOK, OrderIsBacked, SendToken, SendTokenThrows, InsertCoupon,
     SendCouponEmail, SendEmail
<1>4. ChargedIsReported'
  BY DEF IInv, TypeOK, ProgressOK, ChargedIsReported, Charged, Coded, SendToken,
     SendTokenThrows, InsertCoupon, SendCouponEmail, SendEmail
<1> QED
  BY <1>1, <1>2, <1>3, <1>4 DEF IInv

LEMMA InvLastSteps ==
  ASSUME IInv, TypeOK', NEW c \in Checkouts,
         \/ FailEmail(c) \/ CompleteTransaction(c) \/ CompleteOrder(c) \/ ClearUserCart(c)
  PROVE  IInv'
<1> USE DEF Goto, WriteTx, Discount, tables, request, local, outside, faults
<1>1. ProgressOK'
  BY DEF IInv, TypeOK, ProgressOK, Listed, Coded, Charged, Recorded, Mailed, FailEmail,
     CompleteTransaction, CompleteOrder, ClearUserCart
<1>2. RowOK'
  BY DEF IInv, TypeOK, ProgressOK, RowOK, Listed, Coded, Charged, Recorded, Mailed, FailEmail,
     CompleteTransaction, CompleteOrder, ClearUserCart
<1>3. OrderIsBacked'
  BY DEF IInv, TypeOK, RowOK, OrderIsBacked, FailEmail, CompleteTransaction, CompleteOrder,
     ClearUserCart
<1>4. ChargedIsReported'
  BY DEF IInv, TypeOK, ProgressOK, RowOK, ChargedIsReported, FailEmail, CompleteTransaction,
     CompleteOrder, ClearUserCart
<1> QED
  BY <1>1, <1>2, <1>3, <1>4 DEF IInv

(* Everything that is not a step of a request. *)
LEMMA InvOthers ==
  ASSUME IInv, TypeOK',
         \/ \E m \in Members, u \in Unit : CartAdd(m, u) \/ CartRemove(m, u)
         \/ \E o \in Order : CreateOrder(o)
         \/ \E c \in Checkouts : StatementThrows(c)
         \/ Crash
         \/ \E s \in Transfer : ChainSettles(s)
         \/ UNCHANGED vars
  PROVE  IInv'
<1> USE DEF Goto, Discount, tables, request, local, outside, faults
<1>1. ProgressOK'
  <2> USE DEF IInv, TypeOK, ProgressOK, Listed, Coded, Charged, Recorded, Mailed
  <2>1. CASE \/ \E m \in Members, u \in Unit : CartAdd(m, u) \/ CartRemove(m, u)
             \/ \E o \in Order : CreateOrder(o)
             \/ UNCHANGED vars
    BY <2>1 DEF CartAdd, CartRemove, CreateOrder, vars
  <2>2. CASE \E c \in Checkouts : StatementThrows(c)
    BY <2>2 DEF StatementThrows
  <2>3. CASE Crash
    BY <2>3 DEF Crash
  <2>4. CASE \E s \in Transfer : ChainSettles(s)
    BY <2>4 DEF ChainSettles
  <2> QED
    BY <2>1, <2>2, <2>3, <2>4
<1>2. RowOK'
  BY DEF IInv, TypeOK, RowOK, CartAdd, CartRemove, CreateOrder, StatementThrows,
     Crash, ChainSettles, vars
<1>3. OrderIsBacked'
  BY DEF IInv, TypeOK, OrderIsBacked, CartAdd, CartRemove, CreateOrder, StatementThrows,
     Crash, ChainSettles, vars
<1>4. ChargedIsReported'
  BY DEF IInv, TypeOK, ChargedIsReported, CartAdd, CartRemove, CreateOrder, StatementThrows,
     Crash, ChainSettles, vars
<1> QED
  BY <1>1, <1>2, <1>3, <1>4 DEF IInv

(* Marking a coupon touches nothing the invariant speaks of. *)
LEMMA InvUsage ==
  ASSUME IInv, TypeOK', NEW k, NEW who, NEW isUsed, UpdateCouponUsage(k, who, isUsed)
  PROVE  IInv'
<1> USE DEF UpdateCouponUsage, request, local, outside, faults, Discount
<1>1. ProgressOK'
  BY DEF IInv, ProgressOK
<1>2. RowOK' /\ OrderIsBacked' /\ ChargedIsReported'
  BY DEF IInv, RowOK, OrderIsBacked, ChargedIsReported
<1> QED
  BY <1>1, <1>2 DEF IInv

LEMMA InvStep == IInv /\ [Next]_vars => IInv'
<1> SUFFICES ASSUME IInv, [Next]_vars PROVE IInv'
  OBVIOUS
<1>1. TypeOK'
  BY TypeStep DEF IInv
<1> QED
  BY <1>1, InvFirstSteps, InvPayment, InvLastSteps, InvOthers, InvUsage DEF Next, CheckoutStep

LEMMA InvHolds == Spec => []IInv
  BY InvInit, InvStep, PTL DEF Spec

-----------------------------------------------------------------------------
(* The shop implements Purchase for each request. *)

Outcome == [c \in Checkouts |->
              CASE txStatus[c] = "FAILED_SHOPIFY_COUPON" -> "couponsFailed"
                [] txStatus[c] = "FAILED_EMAIL" -> "mailFailed"
                [] txStatus[c] = "COMPLETED" -> "completed"
                [] OTHER -> "none"]

LEMMA PromiseStep == IInv /\ [Next]_vars => [Promise!Next]_(Promise!vars)
<1> SUFFICES ASSUME IInv, [Next]_vars PROVE [Promise!Next]_(Promise!vars)
  OBVIOUS
<1> USE DEF Goto, tables, request, local, outside, faults
<1>0. ASSUME UNCHANGED <<accepted, mailed, txStatus>> PROVE UNCHANGED Promise!vars
  BY <1>0 DEF Promise!vars
<1>1. ASSUME NEW c \in Checkouts, InitializeTransaction(c) \/ MarkInProgress(c)
      PROVE  UNCHANGED Promise!vars
  <2>1. Outcome' = Outcome
    BY <1>1 DEF InitializeTransaction, MarkInProgress, WriteTx, Outcome, IInv, TypeOK, RowOK
  <2> QED
    BY <1>1, <2>1 DEF InitializeTransaction, MarkInProgress, WriteTx, Outcome, Promise!vars
<1>2. ASSUME NEW c \in Checkouts, FailCoupons(c) PROVE Promise!Next
  <2>1. Outcome[c] = "none" /\ Outcome' = [Outcome EXCEPT ![c] = "couponsFailed"]
    BY <1>2 DEF FailCoupons, WriteTx, Outcome, IInv, TypeOK, RowOK
  <2>2. c \notin accepted
    BY <1>2 DEF FailCoupons, IInv, ProgressOK, Charged, Coded
  <2>3. Promise!Report(c, "couponsFailed")
    BY <1>2, <2>1, <2>2 DEF FailCoupons, WriteTx, Promise!Report, Outcome
  <2> QED
    BY <2>3 DEF Promise!Next
<1>3. ASSUME NEW c \in Checkouts, SendToken(c) PROVE Promise!Next
  <2>1. Outcome[c] = "none" /\ c \notin accepted
    BY <1>3 DEF SendToken, Outcome, IInv, RowOK, ProgressOK, Charged, Coded
  <2>2. Promise!Charge(c)
    BY <1>3, <2>1 DEF SendToken, Promise!Charge, Outcome
  <2> QED
    BY <2>2 DEF Promise!Next
<1>4. ASSUME NEW c \in Checkouts, SendCouponEmail(c) PROVE [Promise!Next]_(Promise!vars)
  <2>1. Outcome[c] = "none" /\ c \in accepted
    BY <1>4 DEF SendCouponEmail, Outcome, IInv, RowOK, ProgressOK, Charged, Coded
  <2>2. CASE mailed' = mailed \cup {c}
    <3>1. Promise!Mail(c)
      BY <1>4, <2>1, <2>2 DEF SendCouponEmail, Promise!Mail, Outcome
    <3> QED
      BY <3>1 DEF Promise!Next
  <2>3. CASE UNCHANGED mailed
    BY <1>0, <1>4, <2>3 DEF SendCouponEmail
  <2> QED
    BY <1>4, <2>2, <2>3 DEF SendCouponEmail, SendEmail
<1>5. ASSUME NEW c \in Checkouts, FailEmail(c) PROVE Promise!Next
  <2>1. Outcome[c] = "none" /\ Outcome' = [Outcome EXCEPT ![c] = "mailFailed"]
    BY <1>5 DEF FailEmail, WriteTx, Outcome, IInv, TypeOK, RowOK
  <2>2. c \in accepted
    BY <1>5 DEF FailEmail, IInv, ProgressOK, Charged, Coded
  <2>3. Promise!Report(c, "mailFailed")
    BY <1>5, <2>1, <2>2 DEF FailEmail, WriteTx, Promise!Report, Outcome
  <2> QED
    BY <2>3 DEF Promise!Next
<1>6. ASSUME NEW c \in Checkouts, CompleteTransaction(c) PROVE Promise!Next
  <2>1. Outcome[c] = "none" /\ Outcome' = [Outcome EXCEPT ![c] = "completed"]
    BY <1>6 DEF CompleteTransaction, WriteTx, Outcome, IInv, TypeOK, RowOK
  <2>2. c \in mailed
    BY <1>6 DEF CompleteTransaction, IInv, ProgressOK, Mailed
  <2>3. Promise!Report(c, "completed")
    BY <1>6, <2>1, <2>2 DEF CompleteTransaction, WriteTx, Promise!Report, Outcome
  <2> QED
    BY <2>3 DEF Promise!Next
<1>7. ASSUME \/ \E m \in Members, u \in Unit : CartAdd(m, u) \/ CartRemove(m, u)
             \/ \E o \in Order : CreateOrder(o)
             \/ \E c \in Checkouts :
                  \/ ReadCart(c) \/ CreateOrderItem(c) \/ CreateDiscountCode(c)
                  \/ SendTokenThrows(c) \/ InsertCoupon(c) \/ CompleteOrder(c)
                  \/ ClearUserCart(c) \/ StatementThrows(c)
             \/ \E k \in Checkouts \X CouponUnit, who \in Members, isUsed \in BOOLEAN :
                  UpdateCouponUsage(k, who, isUsed)
             \/ Crash
             \/ \E s \in Transfer : ChainSettles(s)
             \/ UNCHANGED vars
      PROVE  UNCHANGED Promise!vars
  BY <1>0, <1>7 DEF CartAdd, CartRemove, CreateOrder, ReadCart, CreateOrderItem,
     CreateDiscountCode, SendTokenThrows, InsertCoupon, CompleteOrder, ClearUserCart,
     StatementThrows, UpdateCouponUsage, Crash, ChainSettles, vars
<1> QED
  BY <1>1, <1>2, <1>3, <1>4, <1>5, <1>6, <1>7 DEF Next, CheckoutStep

(* Every request is charged, mailed and reported as Purchase prescribes.       *)
THEOREM ImplementsPurchase == Spec => KeepsPromise
<1>1. Init => Promise!Init
  BY DEF Init, Promise!Init
<1> QED
  BY <1>1, PromiseStep, InvHolds, PTL DEF Spec, KeepsPromise, Promise!Spec

(* A COMPLETED purchase has every part, though no transaction ties its writes. *)
THEOREM CompletedWhole == Spec => []CompletedIsWhole
<1>1. IInv => CompletedIsWhole
  BY DEF IInv, ProgressOK, RowOK, CompletedIsWhole
<1> QED
  BY <1>1, InvHolds, PTL

(* A COMPLETED order has a COMPLETED transaction. *)
THEOREM OrderBacked == Spec => []OrderIsBacked
<1>1. IInv => OrderIsBacked
  BY DEF IInv
<1> QED
  BY <1>1, InvHolds, PTL

(* A charged request that ran to its end has its outcome in the table. *)
THEOREM ChargedReported == Spec => []ChargedIsReported
<1>1. IInv => ChargedIsReported
  BY DEF IInv
<1> QED
  BY <1>1, InvHolds, PTL

-----------------------------------------------------------------------------
(* What was mailed is in the history.  The order is COMPLETED from the step    *)
(* that clears the cart on, and no step takes a COMPLETED order back.          *)

OrderWritten ==
  \A c \in Checkouts :
    /\ pc[c] = "clear" => orderStatus[orderOf[c]] = "COMPLETED"
    /\ c \in mailed \ interrupted /\ pc[c] = "done" /\ txStatus[c] # "FAILED_EMAIL" =>
         txStatus[c] = "COMPLETED" /\ orderStatus[orderOf[c]] = "COMPLETED"

LEMMA OrderWrittenStep == IInv /\ OrderWritten /\ [Next]_vars => OrderWritten'
<1> SUFFICES ASSUME IInv, OrderWritten, [Next]_vars PROVE OrderWritten'
  OBVIOUS
<1> USE DEF Goto, WriteTx, tables, request, local, outside, faults, OrderWritten, IInv, TypeOK
<1>1. CASE \/ \E m \in Members, u \in Unit : CartAdd(m, u) \/ CartRemove(m, u)
           \/ \E o \in Order : CreateOrder(o)
           \/ \E s \in Transfer : ChainSettles(s)
           \/ \E k \in Checkouts \X CouponUnit, who \in Members, isUsed \in BOOLEAN :
                UpdateCouponUsage(k, who, isUsed)
           \/ UNCHANGED vars
  <2>1. UNCHANGED <<pc, txStatus, mailed, interrupted, orderOf>>
    BY <1>1 DEF CartAdd, CartRemove, CreateOrder, ChainSettles, UpdateCouponUsage, vars
  <2>2. CASE \E o \in Order : CreateOrder(o)
    BY <2>1, <2>2 DEF CreateOrder
  <2>3. CASE ~\E o \in Order : CreateOrder(o)
    <3>1. UNCHANGED orderStatus
      BY <1>1, <2>3 DEF CartAdd, CartRemove, ChainSettles, UpdateCouponUsage, vars
    <3> QED
      BY <2>1, <3>1
  <2> QED
    BY <2>2, <2>3
<1>2. ASSUME NEW c \in Checkouts,
             \/ ReadCart(c) \/ InitializeTransaction(c) \/ MarkInProgress(c)
             \/ CreateOrderItem(c) \/ CreateDiscountCode(c) \/ FailCoupons(c)
             \/ SendToken(c) \/ SendTokenThrows(c) \/ InsertCoupon(c) \/ SendCouponEmail(c)
      PROVE  OrderWritten'
  <2>1. pc[c] \notin {"complete", "order", "clear", "emailfail", "done"} /\ c \notin mailed
    BY <1>2 DEF ReadCart, InitializeTransaction, MarkInProgress, CreateOrderItem,
       CreateDiscountCode, FailCoupons, SendToken, SendTokenThrows, InsertCoupon,
       SendCouponEmail, ProgressOK, Mailed
  <2>2. /\ UNCHANGED <<orderStatus, orderOf, interrupted>>
        /\ \A d \in Checkouts \ {c} :
             pc'[d] = pc[d] /\ txStatus'[d] = txStatus[d] /\ (d \in mailed' <=> d \in mailed)
    BY <1>2 DEF ReadCart, InitializeTransaction, MarkInProgress, CreateOrderItem,
       CreateDiscountCode, FailCoupons, SendToken, SendTokenThrows, InsertCoupon,
       SendCouponEmail, SendEmail
  <2>3. pc'[c] # "clear" /\ (pc'[c] = "done" => c \notin mailed')
    BY <1>2, <2>1 DEF ReadCart, InitializeTransaction, MarkInProgress, CreateOrderItem,
       CreateDiscountCode, FailCoupons, SendToken, SendTokenThrows, InsertCoupon,
       SendCouponEmail, SendEmail
  <2> QED
    BY <2>2, <2>3
<1>3. ASSUME NEW c \in Checkouts, FailEmail(c) \/ CompleteTransaction(c) PROVE OrderWritten'
  BY <1>3 DEF FailEmail, CompleteTransaction
<1>4. ASSUME NEW c \in Checkouts, CompleteOrder(c) \/ ClearUserCart(c) PROVE OrderWritten'
  BY <1>4 DEF CompleteOrder, ClearUserCart, RowOK
<1>5. ASSUME NEW c \in Checkouts, StatementThrows(c) PROVE OrderWritten'
  BY <1>5 DEF StatementThrows
<1>6. CASE Crash
  BY <1>6 DEF Crash
<1> QED
  BY <1>1, <1>2, <1>3, <1>4, <1>5, <1>6 DEF Next, CheckoutStep

(* The mailed codes of a request that ran to its end are in the order history  *)
(* of the member who created the order, unless the transaction says that the    *)
(* mail failed or newer COMPLETED orders have pushed the order off the page.    *)
THEOREM MailedShown == Spec => []MailedIsShown
<1>1. Init => OrderWritten
  BY DEF Init, OrderWritten
<1>2. IInv /\ OrderWritten => MailedIsShown
  <2> SUFFICES ASSUME IInv, OrderWritten, NEW c \in mailed \ interrupted,
                      pc[c] = "done", txStatus[c] # "FAILED_EMAIL",
                      OnPage(owner[orderOf[c]], orderOf[c])
               PROVE  /\ orderOf[c] \in DOMAIN OrderHistory(owner[orderOf[c]])
                      /\ CouponMail(c) \ {Blank} \subseteq
                           OrderHistory(owner[orderOf[c]])[orderOf[c]]
    BY DEF MailedIsShown
  <2> DEFINE o == orderOf[c]
             m == owner[o]
  <2>1. c \in Checkouts /\ o \in Order
    BY DEF IInv, TypeOK
  <2>2. txStatus[c] = "COMPLETED" /\ orderStatus[o] = "COMPLETED"
    BY <2>1 DEF OrderWritten
  <2>3. codes[c] \subseteq recorded[c]
    BY <2>1, <2>2 DEF IInv, ProgressOK, RowOK
  <2>4. c \in FindOrdersByUserId(m)[o] /\ o \in DOMAIN FindOrdersByUserId(m)
    BY <2>1, <2>2 DEF FindOrdersByUserId
  <2>5. /\ o \in DOMAIN OrderHistory(m)
        /\ \A u \in recorded[c] : <<c, u>> \in OrderHistory(m)[o]
    BY <2>4 DEF OrderHistory
  <2>6. \A k \in CouponMail(c) \ {Blank} : \E u \in codes[c] : k = <<c, u>>
    BY DEF CouponMail
  <2> QED
    BY <2>3, <2>5, <2>6
<1> QED
  BY <1>1, <1>2, InvHolds, OrderWrittenStep, PTL DEF Spec
=============================================================================
