----------------------------- MODULE CartProofs -----------------------------
(***************************************************************************)
(* Theorems about Cart, for any users, products, quantities and stock, any *)
(* number of overlapping requests and any number of mishaps.               *)
(***************************************************************************)
EXTENDS Cart, FiniteSetTheorems, TLAPS

-----------------------------------------------------------------------------
(* Types: one lemma for what the requests have in common, then the step.   *)

RequestTypes ==
  /\ pc \in [Reqs -> Steps]
  /\ call \in [Reqs -> CartCalls \cup {NoCall}]
  /\ chores = [r \in Reqs |-> {}]
  /\ before \in [Reqs -> SUBSET Reqs]
  /\ broken \subseteq Reqs
  /\ mishaps \in 0..MaxMishaps

CartTypes ==
  /\ carts \subseteq Reqs
  /\ items \subseteq Reqs
  /\ qty \in [Reqs -> Int]
  /\ stock \in [Products -> Int]
  /\ cart \in [Reqs -> Reqs \cup {NoRow}]
  /\ row \in [Reqs -> Reqs \cup {NoRow}]
  /\ want \in [Reqs -> Int]
  /\ copy \in [Reqs -> Int]
  /\ seen \in [Reqs -> [Reqs -> Int]]
  /\ taken \subseteq Reqs

(* The steps that the handler of an operation has.                         *)
Fits(o, l) ==
  \/ o = "none" /\ l = "idle"
  \/ o = "open" /\ l = "done"
  \/ o = "get" /\ l \in {"create", "done"}
  \/ o = "add" /\ l \in {"cart", "create", "total", "item", "insert",
                        "load", "write", "reinsert", "stock", "done"}
  \/ o = "update" /\ l \in {"others", "load", "write", "reinsert", "done"}
  \/ o = "touch" /\ l \in {"load", "write", "reinsert", "done"}
  \/ o = "delete" /\ l \in {"remove", "done"}
  \/ o = "checkout" /\ l \in {"clear", "done"}

NeedsRow == {"load", "write", "reinsert", "others"}
NoRowYet == {"idle", "cart", "create", "total", "item", "insert"}

(* What a request saves is a row: it has read or inserted it, once.        *)
Shape ==
  \A r \in Reqs :
    /\ Fits(call[r].op, pc[r])
    /\ pc[r] \in NeedsRow => row[r] \in Reqs
    /\ pc[r] \in NoRowYet => row[r] = NoRow

Typed == RequestTypes /\ CartTypes /\ Shape

LEMMA TypeArrive ==
  ASSUME RequestTypes, NEW r \in Reqs, NEW c \in CartCalls, NEW l \in Steps, Arrive(r, c, l)
  PROVE  RequestTypes'
  BY DEF RequestTypes, Arrive

LEMMA TypeGoto ==
  ASSUME RequestTypes, NEW r \in Reqs, NEW l \in Steps, Goto(r, l)
  PROVE  RequestTypes'
  BY DEF RequestTypes, Goto

LEMMA TypeRefuse ==
  ASSUME RequestTypes, NEW r \in Reqs, Refuse(r)
  PROVE  RequestTypes'
  BY DEF RequestTypes, Refuse, Steps

LEMMA TypeMishap ==
  ASSUME RequestTypes, Mishap
  PROVE  RequestTypes'
<1> USE MishapsAssumption
<1>1. CASE Die
  <2>1. pc' \in [Reqs -> Steps] /\ chores' = [r \in Reqs |-> {}]
    BY <1>1 DEF RequestTypes, Die, Steps
  <2>2. broken' \subseteq Reqs /\ mishaps' \in 0..MaxMishaps /\ UNCHANGED <<call, before>>
    BY <1>1 DEF RequestTypes, Die
  <2> QED
    BY <2>1, <2>2 DEF RequestTypes
<1>2. ASSUME NEW r \in Reqs, Throw(r) PROVE RequestTypes'
  BY <1>2 DEF RequestTypes, Throw, Steps
<1> QED
  BY <1>1, <1>2 DEF Mishap

(* What an action asks for is a call. *)
LEMMA CallsAreCalls ==
  ASSUME NEW u \in Users
  PROVE  /\ \A o \in {"open", "get", "checkout"} : [op |-> o, user |-> u] \in CartCalls
         /\ \A p \in Products, n \in AddQuantities :
              [op |-> "add", user |-> u, product |-> p, n |-> n] \in CartCalls
         /\ \A i \in Reqs, n \in UpdateQuantities :
              [op |-> "update", user |-> u, item |-> i, n |-> n] \in CartCalls
         /\ \A o \in {"touch", "delete"}, i \in Reqs :
              [op |-> o, user |-> u, item |-> i] \in CartCalls
  BY DEF CartCalls

LEMMA QuantitiesAreNumbers == AddQuantities \subseteq Int /\ UpdateQuantities \subseteq Nat
<1>1. \A n \in AddQuantities : n \in Int
  BY QuantitiesAssumption DEF AddQuantities
<1>2. \A n \in UpdateQuantities : n \in Int /\ n >= 1
  BY QuantitiesAssumption DEF UpdateQuantities
<1>3. \A n \in UpdateQuantities : n \in Nat
  BY <1>2
<1> QED
  BY <1>1, <1>3

(* A change of a quantity is to a natural number. *)
LEMMA UpdateQuantity ==
  ASSUME RequestTypes, NEW r \in Reqs, call[r].op = "update"
  PROVE  call[r].n \in Nat
<1>1. call[r] \in [op : {"update"}, user : Users, item : Reqs, n : UpdateQuantities]
  BY DEF RequestTypes, CartCalls, NoCall
<1> QED
  BY <1>1, QuantitiesAreNumbers

LEMMA AddsProduct ==
  ASSUME RequestTypes, NEW r \in Reqs, call[r].op = "add"
  PROVE  call[r].product \in Products /\ call[r].n \in Int
<1>1. call[r] \in [op : {"add"}, user : Users, product : Products, n : AddQuantities]
  BY DEF RequestTypes, CartCalls, NoCall
<1> QED
  BY <1>1, QuantitiesAreNumbers

LEMMA CartsOfTyped ==
  ASSUME CartTypes, NEW u
  PROVE  CartsOf(u) \subseteq Reqs
  BY DEF CartTypes, CartsOf

(* A step that moves r to step l, and what it has of a row then.            *)
MovesRow(r, l) ==
  /\ l \in NeedsRow => row'[r] \in Reqs
  /\ l \in NoRowYet => row'[r] = NoRow
  /\ \A q \in Reqs : q # r => row'[q] = row[q]

LEMMA MoveShape ==
  ASSUME RequestTypes, Shape, NEW r \in Reqs, NEW l,
         pc' = [pc EXCEPT ![r] = l], Fits(call'[r].op, l),
         \A q \in Reqs : q # r => call'[q] = call[q],
         MovesRow(r, l)
  PROVE  Shape'
  BY DEF RequestTypes, Shape, MovesRow

LEMMA AlwaysDone ==
  ASSUME Shape, NEW r \in Reqs, pc[r] # "idle"
  PROVE  Fits(call[r].op, "done")
  BY DEF Shape, Fits

LEMMA MishapTypes ==
  ASSUME Typed, Mishap
  PROVE  Typed'
<1>1. RequestTypes' /\ CartTypes'
  BY TypeMishap DEF Typed, Mishap, CartTypes, cartVars, tables, local
<1>2. UNCHANGED <<call, row>>
  BY DEF Mishap, Die, Throw, cartVars, local
<1>3. \A q \in Reqs : pc'[q] = pc[q] \/ (pc[q] # "idle" /\ pc'[q] = "done")
  BY DEF Typed, RequestTypes, Mishap, Die, Throw, Underway
<1>4. Shape'
  <2> SUFFICES ASSUME NEW q \in Reqs
               PROVE  /\ Fits(call[q].op, pc'[q])
                      /\ pc'[q] \in NeedsRow => row[q] \in Reqs
                      /\ pc'[q] \in NoRowYet => row[q] = NoRow
    BY <1>2 DEF Shape
  <2>1. "done" \notin NeedsRow \cup NoRowYet
    BY DEF NeedsRow, NoRowYet
  <2> QED
    BY <1>3, <2>1, AlwaysDone DEF Typed, Shape
<1> QED
  BY <1>1, <1>4 DEF Typed

-----------------------------------------------------------------------------
(* The step relation, action by action.                                    *)

LEMMA ArrivalTypes ==
  ASSUME Typed, NEW r \in Reqs,
         \/ CreateCart(r) \/ GetCartByUserId(r) \/ AddFindProduct(r)
         \/ UpdateFindItem(r) \/ DeleteFindItem(r) \/ CheckoutReadCart(r)
  PROVE  Typed'
<1> RequestTypes /\ CartTypes /\ Shape
  BY DEF Typed
<1> SUFFICES RequestTypes' /\ CartTypes' /\ Shape'
  BY DEF Typed
<1> USE DEF tables, local, cartVars
<1> pc[r] = "idle" /\ row[r] = NoRow
  BY DEF CreateCart, GetCartByUserId, AddFindProduct, UpdateFindItem, DeleteFindItem,
         CheckoutReadCart, Arrive, Shape, NoRowYet
<1>1. ASSUME NEW u \in Users, NEW c \in CartCalls, NEW l \in Steps, Arrive(r, c, l),
             Fits(c.op, l), MovesRow(r, l)
      PROVE  RequestTypes' /\ Shape'
  <2>1. /\ pc' = [pc EXCEPT ![r] = l] /\ call'[r] = c
        /\ \A q \in Reqs : q # r => call'[q] = call[q]
    BY <1>1 DEF Arrive, RequestTypes
  <2> QED
    BY <1>1, <2>1, TypeArrive, MoveShape
<1>2. CASE CreateCart(r)
  <2>1. RequestTypes' /\ Shape'
    BY <1>2, <1>1, CallsAreCalls DEF CreateCart, Steps, NeedsRow, Fits, MovesRow
  <2> QED
    BY <1>2, <2>1 DEF CreateCart, CartTypes
<1>3. CASE GetCartByUserId(r)
  <2>1. RequestTypes' /\ Shape'
    BY <1>3, <1>1, CallsAreCalls DEF GetCartByUserId, Steps, NeedsRow, Fits, MovesRow
  <2> QED
    BY <1>3, <2>1 DEF GetCartByUserId, CartTypes
<1>4. CASE AddFindProduct(r)
  <2>1. RequestTypes' /\ Shape'
    BY <1>4, <1>1, CallsAreCalls DEF AddFindProduct, Steps, NeedsRow, Fits, MovesRow
  <2> QED
    BY <1>4, <2>1 DEF AddFindProduct, CartTypes
<1>5. CASE UpdateFindItem(r)
  <2>1. PICK u \in Users, i \in items :
          /\ \/ \E n \in UpdateQuantities :
                  Arrive(r, [op |-> "update", user |-> u, item |-> i, n |-> n], "others")
             \/ Arrive(r, [op |-> "touch", user |-> u, item |-> i], "load")
          /\ cart' = [cart EXCEPT ![r] = cart[i]]
          /\ row' = [row EXCEPT ![r] = i]
          /\ want' = [want EXCEPT ![r] = qty[i]]
          /\ UNCHANGED <<tables, copy, seen, taken>>
    BY <1>5 DEF UpdateFindItem
  <2>2. i \in Reqs /\ cart[i] \in Reqs \cup {NoRow} /\ qty[i] \in Int
    BY DEF CartTypes
  <2>3. CartTypes'
    BY <2>1, <2>2 DEF CartTypes
  <2>4. /\ [op |-> "touch", user |-> u, item |-> i] \in CartCalls
        /\ \A n \in UpdateQuantities :
             [op |-> "update", user |-> u, item |-> i, n |-> n] \in CartCalls
    BY <2>2, CallsAreCalls
  <2>5. row'[r] \in Reqs /\ \A q \in Reqs : q # r => row'[q] = row[q]
    BY <2>1, <2>2 DEF CartTypes
  <2>6. RequestTypes' /\ Shape'
    BY <2>1, <2>4, <2>5, <1>1 DEF Steps, Fits, MovesRow, NoRowYet
  <2> QED
    BY <2>3, <2>6
<1>6. CASE DeleteFindItem(r)
  <2>1. PICK u \in Users, i \in items :
          Arrive(r, [op |-> "delete", user |-> u, item |-> i], "remove")
    BY <1>6 DEF DeleteFindItem
  <2>2. i \in Reqs
    BY DEF CartTypes
  <2>3. [op |-> "delete", user |-> u, item |-> i] \in CartCalls
    BY <2>2, CallsAreCalls
  <2>4. UNCHANGED cartVars
    BY <1>6 DEF DeleteFindItem
  <2>5. RequestTypes' /\ Shape'
    BY <2>1, <2>3, <2>4, <1>1 DEF Steps, NeedsRow, Fits, MovesRow
  <2> QED
    BY <2>4, <2>5 DEF CartTypes
<1>7. CASE CheckoutReadCart(r)
  <2>1. PICK u \in Users : \E c \in CartsOf(u) :
          /\ Arrive(r, [op |-> "checkout", user |-> u], "clear")
          /\ cart' = [cart EXCEPT ![r] = c]
          /\ seen' = [seen EXCEPT ![r] =
                        [i \in Reqs |-> IF i \in FindCartItemsByCartId(c) THEN qty[i] ELSE 0]]
          /\ UNCHANGED <<tables, row, want, copy, taken>>
    BY <1>7 DEF CheckoutReadCart
  <2>2. RequestTypes' /\ Shape'
    BY <2>1, <1>1, CallsAreCalls DEF Steps, NeedsRow, Fits, MovesRow
  <2>3. CartsOf(u) \subseteq Reqs
    BY CartsOfTyped
  <2> QED
    BY <2>1, <2>2, <2>3 DEF CartTypes
<1> QED
  BY <1>2, <1>3, <1>4, <1>5, <1>6, <1>7

(* A step that moves r on, or refuses it. *)
LEMMA MoveTypes ==
  ASSUME Typed, NEW r \in Reqs, NEW l \in Steps, pc[r] # "idle", Goto(r, l) \/ Refuse(r),
         Fits(call[r].op, l), MovesRow(r, l)
  PROVE  RequestTypes' /\ Shape'
<1>1. CASE Goto(r, l)
  BY <1>1, TypeGoto, MoveShape DEF Typed, Goto
<1>2. CASE Refuse(r)
  <2>1. pc' = [pc EXCEPT ![r] = "done"] /\ call' = call
    BY <1>2 DEF Refuse
  <2>2. MovesRow(r, "done")
    BY DEF MovesRow, NeedsRow, NoRowYet
  <2>3. Fits(call[r].op, "done")
    BY <1>2, AlwaysDone DEF Typed, Fits
  <2> QED
    BY <1>2, <2>1, <2>2, <2>3, TypeRefuse, MoveShape DEF Typed
<1> QED
  BY <1>1, <1>2

LEMMA SaveTypes ==
  ASSUME Typed, NEW r \in Reqs, SaveReads(r) \/ SaveUpdates(r) \/ SaveInserts(r)
  PROVE  Typed'
<1> RequestTypes /\ CartTypes /\ Shape
  BY DEF Typed
<1> SUFFICES RequestTypes' /\ CartTypes' /\ Shape'
  BY DEF Typed
<1>1. row[r] \in Reqs /\ UNCHANGED row /\ pc[r] \in {"load", "write", "reinsert"}
  BY DEF Shape, NeedsRow, SaveReads, SaveUpdates, SaveInserts, local, cartVars
<1>2. ASSUME NEW l \in {"reinsert", "write", AfterSave(r)}, Goto(r, l) \/ Refuse(r)
      PROVE  RequestTypes' /\ Shape'
  <2>1. l \in Steps /\ Fits(call[r].op, l) /\ l \notin NoRowYet
    BY <1>1, <1>2 DEF AfterSave, Steps, Shape, Fits, NoRowYet
  <2> QED
    BY <1>1, <1>2, <2>1, MoveTypes DEF MovesRow
<1>3. CASE SaveReads(r)
  <2>1. PICK l \in {"reinsert", "write", AfterSave(r)} : Goto(r, l)
    BY <1>3 DEF SaveReads
  <2>2. RequestTypes' /\ Shape'
    BY <2>1, <1>2
  <2> QED
    BY <1>3, <2>2 DEF SaveReads, CartTypes, tables, local, cartVars
<1>4. CASE SaveUpdates(r)
  <2>1. RequestTypes' /\ Shape'
    BY <1>4, <1>2 DEF SaveUpdates
  <2> QED
    BY <1>4, <2>1 DEF SaveUpdates, CartTypes, local
<1>5. CASE SaveInserts(r)
  <2>1. RequestTypes' /\ Shape'
    <3>1. Goto(r, AfterSave(r)) \/ Refuse(r)
      BY <1>5 DEF SaveInserts, AfterSave
    <3> QED
      BY <1>2, <3>1
  <2>2. \/ UNCHANGED <<items, qty>>
        \/ items' = items \cup {row[r]} /\ qty' = [qty EXCEPT ![row[r]] = want[r]]
    BY <1>5 DEF SaveInserts
  <2>3. items' \subseteq Reqs /\ qty' \in [Reqs -> Int]
    BY <1>1, <2>2 DEF CartTypes
  <2> QED
    BY <1>5, <2>1, <2>3 DEF SaveInserts, CartTypes, local
<1> QED
  BY <1>3, <1>4, <1>5

(* CreateMissingCart to CreateCartItem: what only an add does, or a get.    *)
LEMMA AddTypes ==
  ASSUME Typed, NEW r \in Reqs,
         \/ CreateMissingCart(r) \/ AddFindCart(r) \/ AddCheckTotal(r)
         \/ AddFindItem(r) \/ CreateCartItem(r)
  PROVE  Typed'
<1> RequestTypes /\ CartTypes /\ Shape
  BY DEF Typed
<1> SUFFICES RequestTypes' /\ CartTypes' /\ Shape'
  BY DEF Typed
<1>1. pc[r] \in {"create", "cart", "total", "item", "insert"}
  BY DEF CreateMissingCart, AddFindCart, AddCheckTotal, AddFindItem, CreateCartItem
<1>2. row[r] = NoRow /\ call[r].op \in {"get", "add"} /\ (pc[r] # "create" => call[r].op = "add")
  BY <1>1 DEF Shape, Fits, NoRowYet
<1>3. ASSUME NEW l \in {"total", "create", "item", "insert", "done"},
             Goto(r, l) \/ Refuse(r), UNCHANGED row,
             l \in {"total", "create", "item", "insert"} => call[r].op = "add"
      PROVE  RequestTypes' /\ Shape'
  <2>1. l \in Steps /\ Fits(call[r].op, l) /\ l \notin NeedsRow
    BY <1>2, <1>3 DEF Steps, Fits, NeedsRow
  <2>2. MovesRow(r, l)
    BY <1>2, <1>3, <2>1 DEF MovesRow
  <2> QED
    BY <1>1, <1>3, <2>1, <2>2, MoveTypes
<1>4. ASSUME NEW i \in Reqs, row' = [row EXCEPT ![r] = i], Goto(r, "load"), call[r].op = "add"
      PROVE  RequestTypes' /\ Shape' /\ row' \in [Reqs -> Reqs \cup {NoRow}]
  <2>1. row' \in [Reqs -> Reqs \cup {NoRow}] /\ row'[r] = i
        /\ \A q \in Reqs : q # r => row'[q] = row[q]
    BY <1>4 DEF CartTypes
  <2>2. "load" \in Steps /\ Fits(call[r].op, "load") /\ MovesRow(r, "load")
    BY <1>4, <2>1 DEF Steps, Fits, MovesRow, NoRowYet
  <2> QED
    BY <1>1, <1>4, <2>1, <2>2, MoveTypes
<1> USE DEF tables, local, cartVars
<1>5. CASE CreateMissingCart(r)
  <2>1. RequestTypes' /\ Shape'
    BY <1>5, <1>3 DEF CreateMissingCart
  <2> QED
    BY <1>5, <2>1 DEF CreateMissingCart, CartTypes
<1>6. CASE AddFindCart(r)
  <2>1. RequestTypes' /\ Shape'
    BY <1>2, <1>6, <1>3 DEF AddFindCart
  <2>2. CartsOf(call[r].user) \subseteq Reqs
    BY CartsOfTyped
  <2>3. cart' \in [Reqs -> Reqs \cup {NoRow}]
    BY <1>6, <2>2 DEF AddFindCart, CartTypes
  <2> QED
    BY <1>6, <2>1, <2>3 DEF AddFindCart, CartTypes
<1>7. CASE AddCheckTotal(r)
  <2>1. PICK l \in {"item", "done"} : Goto(r, l)
    BY <1>7 DEF AddCheckTotal
  <2>2. RequestTypes' /\ Shape'
    BY <1>2, <1>7, <2>1, <1>3 DEF AddCheckTotal
  <2> QED
    BY <1>7, <2>2 DEF AddCheckTotal, CartTypes
<1>8. CASE AddFindItem(r)
  <2>1. UNCHANGED <<tables, cart, copy, seen, taken>> /\ call[r].op = "add"
    BY <1>2, <1>8 DEF AddFindItem
  <2>2. CASE Goto(r, "insert") /\ UNCHANGED <<row, want>>
    <3>1. RequestTypes' /\ Shape'
      BY <2>1, <2>2, <1>3
    <3> QED
      BY <2>1, <2>2, <3>1 DEF CartTypes
  <2>3. ASSUME NEW i \in FindCartItem(cart[r], call[r].product),
               row' = [row EXCEPT ![r] = i],
               want' = [want EXCEPT ![r] = qty[i] + call[r].n],
               Goto(r, "load")
        PROVE  RequestTypes' /\ CartTypes' /\ Shape'
    <3>1. i \in Reqs /\ qty[i] \in Int
      BY DEF FindCartItem, FindCartItemsByCartId, CartTypes
    <3>2. qty[i] + call[r].n \in Int
      BY <2>1, <3>1, AddsProduct
    <3> QED
      BY <1>4, <2>1, <2>3, <3>1, <3>2 DEF CartTypes
  <2> QED
    BY <1>8, <2>2, <2>3 DEF AddFindItem
<1>9. CASE CreateCartItem(r)
  <2>1. UNCHANGED <<carts, stock, cart, copy, seen, taken>> /\ call[r].op = "add"
    BY <1>2, <1>9 DEF CreateCartItem
  <2>2. CASE Refuse(r) /\ UNCHANGED <<items, qty, row, want>>
    <3>1. RequestTypes' /\ Shape'
      BY <1>3, <2>2
    <3> QED
      BY <2>1, <2>2, <3>1 DEF CartTypes
  <2>3. CASE ~(Refuse(r) /\ UNCHANGED <<items, qty, row, want>>)
    <3>1. /\ items' = items \cup {r}
          /\ qty' = [qty EXCEPT ![r] = call[r].n]
          /\ row' = [row EXCEPT ![r] = r]
          /\ want' = [want EXCEPT ![r] = call[r].n]
          /\ Goto(r, "load")
      BY <1>9, <2>3 DEF CreateCartItem
    <3>2. call[r].n \in Int
      BY <2>1, AddsProduct
    <3> QED
      BY <1>4, <2>1, <3>1, <3>2 DEF CartTypes
  <2> QED
    BY <2>2, <2>3
<1> QED
  BY <1>5, <1>6, <1>7, <1>8, <1>9

(* The rest: the stock, the check of a change, and what deletes.            *)
LEMMA OtherTypes ==
  ASSUME Typed, NEW r \in Reqs,
         \/ UpdateProductStock(r) \/ UpdateCheckTotal(r) \/ DeleteCartItem(r)
         \/ CheckoutRefused(r) \/ ClearUserCart(r)
  PROVE  Typed'
<1> RequestTypes /\ CartTypes /\ Shape
  BY DEF Typed
<1> SUFFICES RequestTypes' /\ CartTypes' /\ Shape'
  BY DEF Typed
<1> USE DEF tables, local, cartVars
<1>1. pc[r] \in {"stock", "others", "remove", "clear"} /\ UNCHANGED row
  BY DEF UpdateProductStock, UpdateCheckTotal, DeleteCartItem, CheckoutRefused, ClearUserCart
<1>2. ASSUME Goto(r, "done")
      PROVE  RequestTypes' /\ Shape'
  <2>1. Fits(call[r].op, "done") /\ MovesRow(r, "done") /\ "done" \in Steps
    BY <1>1, AlwaysDone DEF MovesRow, NeedsRow, NoRowYet, Steps
  <2> QED
    BY <1>1, <1>2, <2>1, MoveTypes
<1>3. CASE UpdateProductStock(r)
  <2>1. call[r].op = "add"
    BY <1>3 DEF UpdateProductStock, Shape, Fits
  <2>2. copy[r] - call[r].n \in Int
    BY <2>1, AddsProduct DEF CartTypes
  <2> QED
    BY <1>2, <1>3, <2>2 DEF UpdateProductStock, CartTypes
<1>4. CASE UpdateCheckTotal(r)
  <2>1. call[r].op = "update" /\ row[r] \in Reqs
    BY <1>4 DEF UpdateCheckTotal, Shape, Fits, NeedsRow
  <2>2. call[r].n \in Nat
    BY <2>1, UpdateQuantity
  <2>3. UNCHANGED <<tables, cart, row, copy, seen, taken>>
    BY <1>4 DEF UpdateCheckTotal
  <2>4. CASE Goto(r, "done") /\ UNCHANGED want
    BY <1>2, <2>3, <2>4 DEF CartTypes
  <2>5. CASE want' = [want EXCEPT ![r] = call[r].n] /\ Goto(r, "load")
    <3>1. "load" \in Steps /\ Fits(call[r].op, "load") /\ MovesRow(r, "load")
      BY <2>1, <2>3 DEF Steps, Fits, MovesRow, NoRowYet
    <3>2. RequestTypes' /\ Shape'
      BY <1>1, <2>5, <3>1, MoveTypes
    <3> QED
      BY <2>2, <2>3, <2>5, <3>2 DEF CartTypes
  <2> QED
    BY <1>4, <2>4, <2>5 DEF UpdateCheckTotal
<1>5. CASE DeleteCartItem(r) \/ CheckoutRefused(r) \/ ClearUserCart(r)
  BY <1>2, <1>5 DEF DeleteCartItem, CheckoutRefused, ClearUserCart, CartTypes
<1> QED
  BY <1>3, <1>4, <1>5

LEMMA TypedInit == Init => Typed
  BY NoRowAssumption, StockAssumption, MishapsAssumption
  DEF Init, RequestsInit, Typed, RequestTypes, CartTypes, Shape, Fits, Steps, NeedsRow, NoCall

LEMMA TypedStep == Typed /\ [Next]_vars => Typed'
<1> SUFFICES ASSUME Typed, [Next]_vars PROVE Typed'
  OBVIOUS
<1>1. CASE UNCHANGED vars
  BY <1>1 DEF Typed, RequestTypes, CartTypes, Shape, vars, requestVars, cartVars, tables, local
<1>2. ASSUME NEW r \in Reqs,
             \/ CreateCart(r) \/ GetCartByUserId(r) \/ CreateMissingCart(r)
             \/ AddFindProduct(r) \/ AddFindCart(r) \/ AddCheckTotal(r) \/ AddFindItem(r)
             \/ CreateCartItem(r) \/ UpdateProductStock(r)
             \/ SaveReads(r) \/ SaveUpdates(r) \/ SaveInserts(r)
             \/ UpdateFindItem(r) \/ UpdateCheckTotal(r)
             \/ DeleteFindItem(r) \/ DeleteCartItem(r)
             \/ CheckoutReadCart(r) \/ CheckoutRefused(r) \/ ClearUserCart(r)
      PROVE  Typed'
  BY <1>2, ArrivalTypes, AddTypes, SaveTypes, OtherTypes
<1> QED
  BY <1>1, <1>2, MishapTypes DEF Next, Stop

(* Every reachable state of the carts is well typed.                        *)
THEOREM TypeCorrect == Spec => []TypeOK
<1>1. Typed => TypeOK
  BY DEF Typed, RequestTypes, CartTypes, TypeOK
<1> QED
  BY <1>1, TypedInit, TypedStep, PTL DEF Spec

-----------------------------------------------------------------------------
(* Deleted items.  What a step may do to requests, items and rows is said   *)
(* first; that the invariant is kept follows from that alone.               *)

(* A request that has arrived keeps its call and what was before it, and    *)
(* one that is over stays so.                                               *)
RequestFrame ==
  /\ \A q \in Reqs : pc[q] # "idle" =>
       pc'[q] # "idle" /\ call'[q] = call[q] /\ before'[q] = before[q]
  /\ \A q \in Reqs : pc[q] = "idle" =>
       before'[q] \subseteq before[q] \cup {s \in Reqs : Over(s)}
  /\ \A q \in Reqs : Over(q) => pc'[q] = "done"
  /\ broken \subseteq broken'

(* A request finds its row once, among the items or as its own.             *)
RowFrame ==
  \A q \in Reqs : row'[q] # row[q] => row[q] = NoRow /\ row'[q] \in items \cup {q}

(* An item is new, or a request that works on it inserts it again.          *)
ItemFrame ==
  \A i \in items' \ items :
    \/ row[i] = NoRow /\ row'[i] = i
    \/ \E r \in Reqs : Saves(r) /\ row[r] = i /\ ~Over(r) /\ pc[r] # "idle"

(* A deletion finds its item, and is over when the item is gone.            *)
DeleteFrame ==
  \A d \in Reqs :
    call'[d].op = "delete" =>
      /\ pc[d] = "idle" /\ pc'[d] # "idle" => call'[d].item \in items /\ pc'[d] # "done"
      /\ pc[d] = "idle" /\ pc'[d] = "idle" => call'[d] = call[d]
      /\ ~Over(d) /\ pc'[d] = "done" => d \in broken' \/ call'[d].item \notin items'

Frame == RequestFrame /\ RowFrame /\ ItemFrame /\ DeleteFrame

LEMMA ArriveFrame ==
  ASSUME Typed, NEW r \in Reqs, NEW c \in CartCalls, NEW l \in Steps \ {"idle"},
         Arrive(r, c, l), items' \subseteq items \cup {r},
         r \in items' => r \in items,
         row' = row \/ \E i \in items : row' = [row EXCEPT ![r] = i],
         c.op = "delete" => c.item \in items /\ l # "done"
  PROVE  Frame
<1>1. RequestFrame
  BY DEF Typed, RequestTypes, Arrive, RequestFrame, Over
<1>2. row[r] = NoRow
  BY DEF Typed, Shape, Arrive, NoRowYet
<1>3. RowFrame /\ ItemFrame
  BY <1>2 DEF Typed, CartTypes, RowFrame, ItemFrame
<1>4. DeleteFrame
  BY DEF Typed, RequestTypes, Arrive, DeleteFrame, Over
<1> QED
  BY <1>1, <1>3, <1>4 DEF Frame

LEMMA ArrivalsFrame ==
  ASSUME Typed, NEW r \in Reqs,
         \/ CreateCart(r) \/ GetCartByUserId(r) \/ AddFindProduct(r)
         \/ UpdateFindItem(r) \/ DeleteFindItem(r) \/ CheckoutReadCart(r)
  PROVE  Frame
<1> USE CallsAreCalls DEF tables, local, cartVars, Steps
<1>0. items \subseteq Reqs
  BY DEF Typed, CartTypes
<1>1. CASE CreateCart(r)
  BY <1>1, ArriveFrame DEF CreateCart
<1>2. CASE GetCartByUserId(r)
  BY <1>2, ArriveFrame DEF GetCartByUserId
<1>3. CASE AddFindProduct(r)
  BY <1>3, ArriveFrame DEF AddFindProduct
<1>4. CASE UpdateFindItem(r)
  <2>1. PICK u \in Users, i \in items :
          /\ \/ \E n \in UpdateQuantities :
                  Arrive(r, [op |-> "update", user |-> u, item |-> i, n |-> n], "others")
             \/ Arrive(r, [op |-> "touch", user |-> u, item |-> i], "load")
          /\ row' = [row EXCEPT ![r] = i]
          /\ UNCHANGED items
    BY <1>4 DEF UpdateFindItem
  <2>2. /\ [op |-> "touch", user |-> u, item |-> i] \in CartCalls
        /\ \A n \in UpdateQuantities :
             [op |-> "update", user |-> u, item |-> i, n |-> n] \in CartCalls
    BY <1>0
  <2> QED
    BY <2>1, <2>2, ArriveFrame
<1>5. CASE DeleteFindItem(r)
  <2>1. PICK u \in Users, i \in items :
          /\ Arrive(r, [op |-> "delete", user |-> u, item |-> i], "remove")
          /\ UNCHANGED <<items, row>>
    BY <1>5 DEF DeleteFindItem
  <2>2. [op |-> "delete", user |-> u, item |-> i] \in CartCalls
    BY <1>0
  <2> QED
    BY <2>1, <2>2, ArriveFrame
<1>6. CASE CheckoutReadCart(r)
  BY <1>6, ArriveFrame DEF CheckoutReadCart
<1> QED
  BY <1>1, <1>2, <1>3, <1>4, <1>5, <1>6

(* A step of a request that has arrived: what is left to show is about rows *)
(* and items.                                                               *)
LEMMA MoveFrame ==
  ASSUME Typed, NEW r \in Reqs, pc[r] \notin {"idle", "done"},
         NEW l \in Steps \ {"idle"}, Goto(r, l) \/ Refuse(r),
         call[r].op = "delete" => call[r].item \notin items',
         RowFrame, ItemFrame
  PROVE  Frame
<1>1. RequestFrame
  BY DEF Typed, RequestTypes, Goto, Refuse, RequestFrame, Over
<1>2. DeleteFrame
  BY DEF Typed, RequestTypes, Goto, Refuse, DeleteFrame, Over
<1> QED
  BY <1>1, <1>2 DEF Frame

LEMMA StepsFrame ==
  ASSUME Typed, NEW r \in Reqs,
         \/ CreateMissingCart(r) \/ AddFindCart(r) \/ AddCheckTotal(r) \/ AddFindItem(r)
         \/ CreateCartItem(r) \/ UpdateProductStock(r)
         \/ SaveReads(r) \/ SaveUpdates(r) \/ SaveInserts(r) \/ UpdateCheckTotal(r)
         \/ DeleteCartItem(r) \/ CheckoutRefused(r) \/ ClearUserCart(r)
  PROVE  Frame
<1> USE DEF tables, local, cartVars
<1> DEFINE Early == {"cart", "create", "total", "item", "insert"}
<1>1. items \subseteq Reqs /\ row \in [Reqs -> Reqs \cup {NoRow}]
  BY DEF Typed, CartTypes
<1>2. pc[r] \in Early => row[r] = NoRow
  BY DEF Typed, Shape, NoRowYet
<1>3. pc[r] \in {"load", "write", "reinsert"} => Saves(r) /\ row[r] \in Reqs
  BY DEF Typed, Shape, NeedsRow, Fits, Saves
<1>4. pc[r] # "remove" /\ pc[r] \notin {"idle", "done"} => call[r].op # "delete"
  BY DEF Typed, Shape, Fits
<1>5. PICK l \in Steps \ {"idle"} : Goto(r, l) \/ Refuse(r)
  BY DEF CreateMissingCart, AddFindCart, AddCheckTotal, AddFindItem, CreateCartItem,
         UpdateProductStock, SaveReads, SaveUpdates, SaveInserts, UpdateCheckTotal,
         DeleteCartItem, CheckoutRefused, ClearUserCart, AfterSave, Steps
<1>6. pc[r] \notin {"idle", "done"}
  BY DEF CreateMissingCart, AddFindCart, AddCheckTotal, AddFindItem, CreateCartItem,
         UpdateProductStock, SaveReads, SaveUpdates, SaveInserts, UpdateCheckTotal,
         DeleteCartItem, CheckoutRefused, ClearUserCart
<1>7. call[r].op = "delete" => call[r].item \notin items'
  <2>1. CASE pc[r] = "remove"
    BY <2>1 DEF CreateMissingCart, AddFindCart, AddCheckTotal, AddFindItem, CreateCartItem,
         UpdateProductStock, SaveReads, SaveUpdates, SaveInserts, UpdateCheckTotal,
         DeleteCartItem, CheckoutRefused, ClearUserCart
  <2> QED
    BY <1>4, <1>6, <2>1
<1>8. RowFrame
  <2>1. CASE row' = row
    BY <2>1 DEF RowFrame
  <2>2. CASE AddFindItem(r)
    <3>1. \A i \in FindCartItem(cart[r], call[r].product) : i \in items
      BY DEF FindCartItem, FindCartItemsByCartId
    <3> QED
      BY <1>1, <1>2, <2>2, <3>1 DEF RowFrame, AddFindItem
  <2>3. CASE CreateCartItem(r)
    BY <1>1, <1>2, <2>3 DEF RowFrame, CreateCartItem
  <2> QED
    BY <2>1, <2>2, <2>3
       DEF CreateMissingCart, AddFindCart, AddCheckTotal, UpdateProductStock, SaveReads,
           SaveUpdates, SaveInserts, UpdateCheckTotal, DeleteCartItem, CheckoutRefused,
           ClearUserCart
<1>9. ItemFrame
  <2>1. CASE items' \subseteq items
    BY <2>1 DEF ItemFrame
  <2>2. CASE CreateCartItem(r)
    BY <1>1, <1>2, <2>2 DEF ItemFrame, CreateCartItem
  <2>3. CASE SaveInserts(r)
    <3>1. items' \subseteq items \cup {row[r]} /\ pc[r] = "reinsert"
      BY <2>3 DEF SaveInserts
    <3> QED
      BY <1>3, <3>1 DEF ItemFrame, Over
  <2> QED
    BY <2>1, <2>2, <2>3
       DEF CreateMissingCart, AddFindCart, AddCheckTotal, AddFindItem, UpdateProductStock,
           SaveReads, SaveUpdates, UpdateCheckTotal, DeleteCartItem, CheckoutRefused,
           ClearUserCart
<1> QED
  BY <1>5, <1>6, <1>7, <1>8, <1>9, MoveFrame

LEMMA MishapFrame ==
  ASSUME Typed, Mishap
  PROVE  Frame
<1>1. RowFrame /\ ItemFrame /\ UNCHANGED <<items, call, before>>
  BY DEF Mishap, Die, Throw, RowFrame, ItemFrame, cartVars, tables, local
<1>2. RequestFrame /\ DeleteFrame
  <2>1. CASE Die
    BY <1>1, <2>1 DEF Die, Typed, RequestTypes, Underway, Over, RequestFrame, DeleteFrame
  <2>2. ASSUME NEW r \in Reqs, Throw(r) PROVE RequestFrame /\ DeleteFrame
    BY <1>1, <2>2 DEF Throw, Typed, RequestTypes, Over, RequestFrame, DeleteFrame
  <2> QED
    BY <2>1, <2>2 DEF Mishap
<1> QED
  BY <1>1, <1>2 DEF Frame

LEMMA NextFrame == Typed /\ [Next]_vars => Frame
<1> SUFFICES ASSUME Typed, [Next]_vars PROVE Frame
  OBVIOUS
<1>1. CASE UNCHANGED vars
  BY <1>1 DEF vars, requestVars, cartVars, tables, local, Frame, RequestFrame, RowFrame,
              ItemFrame, DeleteFrame, Over
<1>2. ASSUME NEW r \in Reqs,
             \/ CreateCart(r) \/ GetCartByUserId(r) \/ CreateMissingCart(r)
             \/ AddFindProduct(r) \/ AddFindCart(r) \/ AddCheckTotal(r) \/ AddFindItem(r)
             \/ CreateCartItem(r) \/ UpdateProductStock(r)
             \/ SaveReads(r) \/ SaveUpdates(r) \/ SaveInserts(r)
             \/ UpdateFindItem(r) \/ UpdateCheckTotal(r)
             \/ DeleteFindItem(r) \/ DeleteCartItem(r)
             \/ CheckoutReadCart(r) \/ CheckoutRefused(r) \/ ClearUserCart(r)
      PROVE  Frame
  BY <1>2, ArrivalsFrame, StepsFrame
<1> QED
  BY <1>1, <1>2, MishapFrame DEF Next, Stop

(* Who works on an item has it as its row, for good, and so has the item.   *)
RowsOwn ==
  /\ \A i \in items : row[i] = i
  /\ \A r \in Reqs : row[r] # NoRow => row[row[r]] = row[r]
  /\ \A d \in Reqs : call[d].op = "delete" => row[call[d].item] = call[d].item

BeforeOver == \A r \in Reqs : \A s \in before[r] : Over(s)

Gone(d) == call[d].op = "delete" /\ Over(d) /\ d \notin broken

Excused(e, d) == \E r \in Reqs : Saves(r) /\ row[r] = e /\ Overlap(r, d)

(* What becomes of an item that request d has found missing or has removed:  *)
(* it is there again only if excused, and a request that came after d can    *)
(* only have it as its row if somebody had put it back.                      *)
MissingSince(e, d) ==
  /\ e \in items => Excused(e, d)
  /\ \A r \in Reqs : Saves(r) /\ row[r] = e /\ d \in before[r] => Excused(e, d)

ReturnsExcused == \A d \in Reqs : Gone(d) => MissingSince(call[d].item, d)

GoneInv == Typed /\ RowsOwn /\ BeforeOver /\ ReturnsExcused

LEMMA DeleteItem ==
  ASSUME Typed, NEW d \in Reqs, call[d].op = "delete"
  PROVE  call[d].item \in Reqs
<1>1. call[d] \in [op : {"delete"}, user : Users, item : Reqs]
  BY DEF Typed, RequestTypes, CartCalls, NoCall
<1> QED
  BY <1>1

LEMMA RowsOwnStep ==
  ASSUME Typed, Typed', RowsOwn, Frame
  PROVE  RowsOwn'
<1> USE NoRowAssumption
<1>1. /\ items \subseteq Reqs /\ items' \subseteq Reqs
      /\ row \in [Reqs -> Reqs \cup {NoRow}] /\ row' \in [Reqs -> Reqs \cup {NoRow}]
  BY DEF Typed, CartTypes
<1>2. \A q \in Reqs : row[q] # NoRow => row'[q] = row[q]
  BY DEF Frame, RowFrame
<1>3. \A i \in items : row'[i] = i
  BY <1>1, <1>2 DEF RowsOwn
<1>4. \A i \in items' : row'[i] = i
  <2> SUFFICES ASSUME NEW i \in items' \ items PROVE row'[i] = i
    BY <1>3
  <2>1. CASE row[i] = NoRow /\ row'[i] = i
    BY <2>1
  <2>2. ASSUME NEW r \in Reqs, row[r] = i PROVE row'[i] = i
    BY <1>1, <1>2, <2>2 DEF RowsOwn
  <2> QED
    BY <2>1, <2>2 DEF Frame, ItemFrame
<1>5. ASSUME NEW r \in Reqs, row'[r] # NoRow PROVE row'[row'[r]] = row'[r]
  <2>1. CASE row[r] = NoRow
    BY <1>3, <1>5, <2>1 DEF Frame, RowFrame
  <2>2. CASE row[r] # NoRow
    BY <1>1, <1>2, <2>2 DEF RowsOwn
  <2> QED
    BY <2>1, <2>2
<1>6. ASSUME NEW d \in Reqs, call'[d].op = "delete" PROVE row'[call'[d].item] = call'[d].item
  <2>1. CASE call'[d] = call[d]
    <3>1. call[d].op = "delete"
      BY <1>6, <2>1
    <3>2. call[d].item \in Reqs /\ row[call[d].item] = call[d].item
      BY <3>1, DeleteItem DEF RowsOwn
    <3> QED
      BY <1>1, <1>2, <2>1, <3>2
  <2>2. CASE call'[d] # call[d]
    BY <1>3, <1>6, <2>2 DEF Frame, RequestFrame, DeleteFrame
  <2> QED
    BY <2>1, <2>2
<1> QED
  BY <1>4, <1>5, <1>6 DEF RowsOwn

LEMMA BeforeOverStep ==
  ASSUME Typed, BeforeOver, Frame
  PROVE  BeforeOver'
<1> SUFFICES ASSUME NEW r \in Reqs, NEW s \in before'[r] PROVE pc'[s] = "done"
  BY DEF BeforeOver, Over
<1>1. s \in Reqs /\ Over(s)
  BY DEF Typed, RequestTypes, BeforeOver, Frame, RequestFrame
<1> QED
  BY <1>1 DEF Frame, RequestFrame

LEMMA ExcusedStays ==
  ASSUME Typed, Typed', Frame, NEW e \in Reqs, NEW d \in Reqs, Excused(e, d)
  PROVE  Excused(e, d)'
<1> USE NoRowAssumption
<1>1. PICK r \in Reqs : Saves(r) /\ row[r] = e /\ Overlap(r, d)
  BY DEF Excused
<1>2. pc[r] # "idle" /\ pc[d] # "idle"
  BY <1>1 DEF Overlap
<1>3. row'[r] = row[r]
  BY <1>1 DEF Frame, RowFrame
<1>4. /\ call'[r] = call[r]
      /\ before'[r] = before[r] /\ before'[d] = before[d]
      /\ pc'[r] # "idle" /\ pc'[d] # "idle"
  BY <1>2 DEF Frame, RequestFrame
<1> QED
  BY <1>1, <1>3, <1>4 DEF Excused, Saves, Overlap

LEMMA MissingStays ==
  ASSUME Typed, Typed', RowsOwn, BeforeOver, Frame,
         NEW e \in Reqs, row[e] = e, NEW d \in Reqs, pc[d] # "idle",
         Over(d) \/ row[d] # e, MissingSince(e, d)
  PROVE  MissingSince(e, d)'
<1> USE NoRowAssumption
<1>1. /\ e \in items => Excused(e, d)
      /\ \A r \in Reqs : Saves(r) /\ row[r] = e /\ d \in before[r] => Excused(e, d)
  BY DEF MissingSince
<1>2. Excused(e, d) => Excused(e, d)'
  BY ExcusedStays
<1>3. e \in items' => Excused(e, d)
  <2> SUFFICES ASSUME e \in items' \ items PROVE Excused(e, d)
    BY <1>1
  <2>1. PICK r \in Reqs : Saves(r) /\ row[r] = e /\ ~Over(r) /\ pc[r] # "idle"
    BY DEF Frame, ItemFrame
  <2>2. CASE d \in before[r]
    BY <1>1, <2>1, <2>2
  <2>3. CASE d \notin before[r]
    <3>1. r \notin before[d] /\ r # d
      BY <2>1 DEF BeforeOver
    <3>2. Overlap(r, d)
      BY <2>1, <2>3, <3>1 DEF Overlap
    <3> QED
      BY <2>1, <3>2 DEF Excused
  <2> QED
    BY <2>2, <2>3
<1>4. ASSUME NEW r \in Reqs, Saves(r)', row'[r] = e, d \in before'[r]
      PROVE  Excused(e, d)
  <2>1. CASE row[r] = row'[r]
    <3>1. pc[r] # "idle"
      BY <1>4, <2>1 DEF Typed, Shape, NoRowYet
    <3>2. call'[r] = call[r] /\ before'[r] = before[r]
      BY <3>1 DEF Frame, RequestFrame
    <3> QED
      BY <1>1, <1>4, <2>1, <3>2 DEF Saves
  <2>2. CASE row[r] # row'[r]
    <3>1. row[r] = NoRow /\ e \in items \cup {r}
      BY <1>4, <2>2 DEF Frame, RowFrame
    <3>2. e # r
      BY <3>1
    <3> QED
      BY <1>1, <3>1, <3>2
  <2> QED
    BY <2>1, <2>2
<1>5. \A r \in Reqs : (Saves(r) /\ row[r] = e /\ d \in before[r])' => Excused(e, d)'
  BY <1>2, <1>4
<1> QED
  BY <1>2, <1>3, <1>5 DEF MissingSince

(* Nothing that came after d is there yet when d is not over.                *)
LEMMA NothingAfter ==
  ASSUME Typed, Typed', BeforeOver, Frame, NEW d \in Reqs, ~Over(d), NEW r \in Reqs, Saves(r)'
  PROVE  d \notin before'[r]
<1>1. pc'[r] # "idle"
  BY DEF Typed, Shape, Fits, Saves
<1>2. SUFFICES ASSUME d \in before'[r] PROVE FALSE
  OBVIOUS
<1>3. d \in before[r] \/ Over(d)
  BY <1>2 DEF Frame, RequestFrame
<1> QED
  BY <1>3 DEF BeforeOver

LEMMA ReturnsStep ==
  ASSUME GoneInv, Typed', Frame
  PROVE  ReturnsExcused'
<1> Typed /\ RowsOwn /\ BeforeOver /\ ReturnsExcused
  BY DEF GoneInv
<1> SUFFICES ASSUME NEW d \in Reqs, Gone(d)'
             PROVE  MissingSince(call[d].item, d)' 
  BY DEF ReturnsExcused
<1>1. call'[d].op = "delete" /\ pc'[d] = "done" /\ d \notin broken'
  BY DEF Gone, Over
<1>2. pc[d] # "idle" /\ call'[d] = call[d]
  BY <1>1 DEF Frame, RequestFrame, DeleteFrame
<1>3. call[d].op = "delete" /\ call[d].item \in Reqs /\ row[call[d].item] = call[d].item
  BY <1>1, <1>2, DeleteItem DEF RowsOwn
<1>4. CASE ~Over(d)
  <2>1. call'[d].item \notin items'
    BY <1>1, <1>4 DEF Frame, DeleteFrame
  <2>2. \A r \in Reqs : Saves(r)' => d \notin before'[r]
    BY <1>4, NothingAfter
  <2> QED
    BY <2>1, <2>2 DEF MissingSince
<1>5. CASE Over(d)
  <2>1. Gone(d)
    BY <1>1, <1>3, <1>5 DEF Gone, Frame, RequestFrame
  <2>2. MissingSince(call[d].item, d)
    BY <2>1 DEF ReturnsExcused
  <2>3. \A e \in Reqs : row[e] = e /\ MissingSince(e, d) => MissingSince(e, d)'
    BY <1>2, <1>5, MissingStays
  <2> QED
    BY <1>2, <1>3, <2>2, <2>3 DEF MissingSince, Excused
<1> QED
  BY <1>4, <1>5

LEMMA GoneInit == Init => GoneInv
<1> SUFFICES ASSUME Init PROVE GoneInv
  OBVIOUS
<1>1. Typed
  BY TypedInit
<1>2. /\ items = {} /\ \A r \in Reqs : row[r] = NoRow
      /\ \A r \in Reqs : call[r] = NoCall /\ before[r] = {}
  BY DEF Init, RequestsInit
<1> QED
  BY <1>1, <1>2 DEF GoneInv, RowsOwn, BeforeOver, ReturnsExcused, Gone, NoCall

LEMMA GoneStep == GoneInv /\ [Next]_vars => GoneInv'
<1> SUFFICES ASSUME GoneInv, [Next]_vars PROVE GoneInv'
  OBVIOUS
<1>1. Typed'
  BY TypedStep DEF GoneInv
<1>2. Frame
  BY NextFrame DEF GoneInv
<1>3. RowsOwn' /\ BeforeOver'
  BY <1>1, <1>2, RowsOwnStep, BeforeOverStep DEF GoneInv
<1>4. ReturnsExcused'
  BY <1>1, <1>2, <1>3, ReturnsStep
<1> QED
  BY <1>1, <1>3, <1>4 DEF GoneInv

LEMMA GoneInvStays == GoneInv => GoneStaysGone
  BY DEF GoneInv, ReturnsExcused, MissingSince, Gone, Excused, GoneStaysGone

(* A deleted item comes back only through a request that saves it and        *)
(* overlapped the deletion, for any number of requests, carts and mishaps.   *)
THEOREM DeletionsHold == Spec => []GoneStaysGone
  BY GoneInvStays, GoneInit, GoneStep, PTL DEF Spec

-----------------------------------------------------------------------------
(* One of each.  What a step may do to carts, and what a request has found  *)
(* when it is about to create a cart or an item.                            *)

CartFrame ==
  /\ \A c \in carts' \ carts :
       pc[c] = "create" \/ (pc[c] = "idle" /\ pc'[c] # "idle" /\ call'[c].op = "open")
  /\ \A q \in Reqs :
       pc'[q] = "create" /\ pc[q] # "create" => carts' = carts /\ CartsOf(call'[q].user) = {}

ProductFrame ==
  /\ \A q \in Reqs : pc[q] \notin {"idle", "create", "cart"} => cart'[q] = cart[q]
  /\ \A q \in Reqs :
       pc'[q] = "insert" /\ pc[q] # "insert" =>
         /\ pc[q] = "item" /\ UNCHANGED <<cart, items, row, call>>
         /\ FindCartItem(cart[q], call[q].product) = {}
  /\ \A q \in Reqs : row'[q] # row[q] => pc[q] = "insert" \/ row'[q] \in items
  /\ \A q \in Reqs : row'[q] # row[q] => ~Over(q)

LEMMA ArriveCarts ==
  ASSUME Typed, NEW r \in Reqs, NEW c, NEW l \in Steps, Arrive(r, c, l), l # "insert",
         l = "create" => CartsOf(c.user) = {} /\ carts' = carts,
         carts' = carts \/ (carts' = carts \cup {r} /\ l # "idle" /\ c.op = "open"),
         \A q \in Reqs : q # r => cart'[q] = cart[q],
         row' = row \/ \E i \in items : row' = [row EXCEPT ![r] = i]
  PROVE  CartFrame /\ ProductFrame
<1>1. /\ pc[r] = "idle" /\ pc'[r] = l /\ call'[r] = c
      /\ \A q \in Reqs : q # r => pc'[q] = pc[q]
  BY DEF Arrive, Typed, RequestTypes
<1>2. CartFrame
  BY <1>1 DEF CartFrame, Typed, CartTypes
<1>3. \A q \in Reqs : row'[q] # row[q] => q = r /\ row'[q] \in items
  BY DEF Typed, CartTypes
<1>4. ProductFrame
  BY <1>1, <1>3 DEF ProductFrame, Over
<1> QED
  BY <1>2, <1>4

LEMMA ArrivalsCarts ==
  ASSUME Typed, NEW r \in Reqs,
         \/ CreateCart(r) \/ GetCartByUserId(r) \/ AddFindProduct(r)
         \/ UpdateFindItem(r) \/ DeleteFindItem(r) \/ CheckoutReadCart(r)
  PROVE  CartFrame /\ ProductFrame
<1> USE DEF tables, local, cartVars, Steps
<1> cart \in [Reqs -> Reqs \cup {NoRow}]
  BY DEF Typed, CartTypes
<1>1. CASE CreateCart(r)
  BY <1>1, ArriveCarts DEF CreateCart
<1>2. CASE GetCartByUserId(r)
  BY <1>2, ArriveCarts DEF GetCartByUserId
<1>3. CASE AddFindProduct(r)
  BY <1>3, ArriveCarts DEF AddFindProduct
<1>4. CASE UpdateFindItem(r)
  BY <1>4, ArriveCarts DEF UpdateFindItem
<1>5. CASE DeleteFindItem(r)
  BY <1>5, ArriveCarts DEF DeleteFindItem
<1>6. CASE CheckoutReadCart(r)
  BY <1>6, ArriveCarts DEF CheckoutReadCart
<1> QED
  BY <1>1, <1>2, <1>3, <1>4, <1>5, <1>6

LEMMA StepsCarts ==
  ASSUME Typed, NEW r \in Reqs,
         \/ CreateMissingCart(r) \/ AddFindCart(r) \/ AddCheckTotal(r) \/ AddFindItem(r)
         \/ CreateCartItem(r) \/ UpdateProductStock(r)
         \/ SaveReads(r) \/ SaveUpdates(r) \/ SaveInserts(r) \/ UpdateCheckTotal(r)
         \/ DeleteCartItem(r) \/ CheckoutRefused(r) \/ ClearUserCart(r)
  PROVE  CartFrame /\ ProductFrame
<1> USE DEF tables, local, cartVars
<1>1. PICK l \in Steps : Goto(r, l) \/ Refuse(r)
  BY DEF CreateMissingCart, AddFindCart, AddCheckTotal, AddFindItem, CreateCartItem,
         UpdateProductStock, SaveReads, SaveUpdates, SaveInserts, UpdateCheckTotal,
         DeleteCartItem, CheckoutRefused, ClearUserCart, AfterSave, Steps
<1>2. \A q \in Reqs : q # r => pc'[q] = pc[q]
  BY <1>1 DEF Goto, Refuse, Typed, RequestTypes
<1>3. pc \in [Reqs -> Steps] /\ carts \subseteq Reqs /\ cart \in [Reqs -> Reqs \cup {NoRow}]
      /\ row \in [Reqs -> Reqs \cup {NoRow}]
  BY DEF Typed, RequestTypes, CartTypes
<1>4. CASE CreateMissingCart(r)
  BY <1>2, <1>3, <1>4 DEF CreateMissingCart, CartFrame, ProductFrame, Goto
<1>5. CASE AddFindCart(r)
  BY <1>2, <1>3, <1>5 DEF AddFindCart, CartFrame, ProductFrame, Goto
<1>6. CASE AddFindItem(r)
  <2>1. \A i \in FindCartItem(cart[r], call[r].product) : i \in items
    BY DEF FindCartItem, FindCartItemsByCartId
  <2>2. CartFrame
    BY <1>2, <1>3, <1>6 DEF AddFindItem, CartFrame, Goto
  <2>3. UNCHANGED <<cart, items, call>> /\ pc[r] = "item"
    BY <1>6 DEF AddFindItem, Goto
  <2>4. CASE /\ FindCartItem(cart[r], call[r].product) = {}
             /\ Goto(r, "insert") /\ UNCHANGED <<row, want>>
    <3>1. \A q \in Reqs : pc'[q] = "insert" /\ pc[q] # "insert" => q = r
      BY <1>2
    <3>2. row' = row /\ cart' = cart /\ items' = items /\ call' = call
      BY <2>3, <2>4
    <3> QED
      BY <2>2, <2>3, <2>4, <3>1, <3>2 DEF ProductFrame
  <2>5. ASSUME NEW i \in FindCartItem(cart[r], call[r].product),
               row' = [row EXCEPT ![r] = i], Goto(r, "load")
        PROVE  ProductFrame
    BY <1>2, <1>3, <2>1, <2>3, <2>5 DEF ProductFrame, Goto, Over
  <2> QED
    BY <1>6, <2>2, <2>4, <2>5 DEF AddFindItem
<1>7. CASE CreateCartItem(r)
  BY <1>2, <1>3, <1>7 DEF CreateCartItem, CartFrame, ProductFrame, Goto, Refuse, Over
<1>8. CASE AddCheckTotal(r)
  BY <1>2, <1>3, <1>8 DEF AddCheckTotal, CartFrame, ProductFrame, Goto
<1>9. CASE SaveReads(r) \/ SaveUpdates(r) \/ SaveInserts(r)
  <2>1. pc'[r] \notin {"create", "insert"} /\ UNCHANGED <<carts, cart, row>>
    BY <1>3, <1>9 DEF SaveReads, SaveUpdates, SaveInserts, AfterSave, Goto, Refuse
  <2> QED
    BY <1>2, <1>3, <2>1 DEF CartFrame, ProductFrame
<1>10. CASE UpdateProductStock(r) \/ UpdateCheckTotal(r) \/ DeleteCartItem(r)
            \/ CheckoutRefused(r) \/ ClearUserCart(r)
  <2>1. /\ pc'[r] \notin {"create", "insert"} /\ carts' \subseteq carts
        /\ UNCHANGED <<cart, row>>
    BY <1>3, <1>10 DEF UpdateProductStock, UpdateCheckTotal, DeleteCartItem, CheckoutRefused,
                       ClearUserCart, Goto
  <2> QED
    BY <1>2, <1>3, <2>1 DEF CartFrame, ProductFrame
<1> QED
  BY <1>4, <1>5, <1>6, <1>7, <1>8, <1>9, <1>10

LEMMA NextCarts == Typed /\ [Next]_vars => CartFrame /\ ProductFrame
<1> SUFFICES ASSUME Typed, [Next]_vars PROVE CartFrame /\ ProductFrame
  OBVIOUS
<1>1. CASE UNCHANGED vars
  BY <1>1 DEF vars, requestVars, cartVars, tables, local, CartFrame, ProductFrame
<1>2. CASE Mishap
  <2>1. UNCHANGED cartVars /\ \A q \in Reqs : pc'[q] \in {pc[q], "done"}
    BY <1>2 DEF Mishap, Die, Throw, Typed, RequestTypes
  <2> QED
    BY <2>1 DEF cartVars, tables, local, CartFrame, ProductFrame
<1>3. ASSUME NEW r \in Reqs,
             \/ CreateCart(r) \/ GetCartByUserId(r) \/ CreateMissingCart(r)
             \/ AddFindProduct(r) \/ AddFindCart(r) \/ AddCheckTotal(r) \/ AddFindItem(r)
             \/ CreateCartItem(r) \/ UpdateProductStock(r)
             \/ SaveReads(r) \/ SaveUpdates(r) \/ SaveInserts(r)
             \/ UpdateFindItem(r) \/ UpdateCheckTotal(r)
             \/ DeleteFindItem(r) \/ DeleteCartItem(r)
             \/ CheckoutReadCart(r) \/ CheckoutRefused(r) \/ ClearUserCart(r)
      PROVE  CartFrame /\ ProductFrame
  BY <1>3, ArrivalsCarts, StepsCarts
<1> QED
  BY <1>1, <1>2, <1>3 DEF Next, Stop

CartsLive == \A c \in carts : pc[c] # "idle"

NeverBeforeItself == \A r \in Reqs : r \notin before[r]

(* A request that creates a cart because it found none: no earlier request   *)
(* of the user has one, and none that is over can get one any more.          *)
NoEarlierCart ==
  \A c, d \in Reqs :
    /\ pc[c] = "create" \/ (c \in carts /\ call[c].op # "open")
    /\ d \in before[c] /\ call[d].user = call[c].user
    => d \notin carts

ItemsAdded == \A i \in Reqs : row[i] = i => call[i].op = "add"

(* A request that inserts an item because it found none: an earlier item of  *)
(* the cart and the product is missing since.                                *)
NoEarlierItem ==
  \A i, j \in Reqs :
    /\ row[i] = i /\ i \in before[j] /\ call[j].op = "add"
    /\ cart[i] = cart[j] /\ call[i].product = call[j].product
    /\ pc[j] = "insert" \/ row[j] = j
    => MissingSince(i, j)

OneInv == GoneInv /\ CartsLive /\ NeverBeforeItself /\ NoEarlierCart /\ ItemsAdded /\ NoEarlierItem

LEMMA CartsLiveStep ==
  ASSUME CartsLive, Typed, Typed', NeverBeforeItself, Frame, CartFrame
  PROVE  CartsLive' /\ NeverBeforeItself'
<1>1. CartsLive'
  BY DEF CartsLive, Typed, CartTypes, Frame, RequestFrame, CartFrame
<1>2. NeverBeforeItself'
  BY DEF NeverBeforeItself, Frame, RequestFrame, Over
<1> QED
  BY <1>1, <1>2

LEMMA NoEarlierCartStep ==
  ASSUME Typed, BeforeOver, CartsLive, NoEarlierCart, Frame, CartFrame
  PROVE  NoEarlierCart'
<1> SUFFICES ASSUME NEW c \in Reqs, NEW d \in Reqs,
                    pc'[c] = "create" \/ (c \in carts' /\ call'[c].op # "open"),
                    d \in before'[c], call'[d].user = call'[c].user
             PROVE  d \notin carts'
  BY DEF NoEarlierCart
<1>1. pc[d] = "done" /\ call'[d] = call[d]
  BY DEF BeforeOver, Over, Frame, RequestFrame
<1>2. d \in carts' => d \in carts
  BY <1>1 DEF CartFrame
<1>3. CASE pc'[c] = "create" /\ pc[c] # "create"
  <2>1. CartsOf(call'[c].user) = {}
    BY <1>3 DEF CartFrame
  <2> QED
    BY <1>1, <1>2, <2>1 DEF CartsOf
<1>4. CASE ~(pc'[c] = "create" /\ pc[c] # "create")
  <2>1. pc[c] # "idle" /\ (pc[c] = "create" \/ (c \in carts /\ call'[c].op # "open"))
    BY <1>4 DEF CartFrame, CartsLive
  <2>2. call'[c] = call[c] /\ before'[c] = before[c]
    BY <2>1 DEF Frame, RequestFrame
  <2> QED
    BY <1>1, <1>2, <2>1, <2>2 DEF NoEarlierCart
<1> QED
  BY <1>3, <1>4

(* The row that a request has as its own is the one it has inserted.         *)
LEMMA OwnRow ==
  ASSUME Typed, RowsOwn, Frame, ProductFrame, NEW j \in Reqs, row'[j] = j
  PROVE  pc[j] \notin {"idle", "create", "cart"} /\ (row[j] = j \/ pc[j] = "insert")
<1> USE NoRowAssumption
<1>1. row[j] = j \/ pc[j] = "insert"
  BY DEF ProductFrame, RowsOwn
<1> QED
  BY <1>1 DEF Typed, Shape, NoRowYet

LEMMA ItemsAddedStep ==
  ASSUME Typed, RowsOwn, ItemsAdded, Frame, ProductFrame
  PROVE  ItemsAdded'
<1> SUFFICES ASSUME NEW i \in Reqs, row'[i] = i PROVE call'[i].op = "add"
  BY DEF ItemsAdded
<1>1. pc[i] # "idle" /\ (row[i] = i \/ pc[i] = "insert")
  BY OwnRow
<1>2. pc[i] = "insert" => call[i].op = "add"
  BY DEF Typed, Shape, Fits
<1> QED
  BY <1>1, <1>2 DEF ItemsAdded, Frame, RequestFrame

LEMMA NoEarlierItemStep ==
  ASSUME GoneInv, Typed', NeverBeforeItself, NoEarlierItem, Frame, ProductFrame
  PROVE  NoEarlierItem'
<1> USE NoRowAssumption
<1> Typed /\ RowsOwn /\ BeforeOver
  BY DEF GoneInv
<1> SUFFICES ASSUME NEW i \in Reqs, NEW j \in Reqs,
                    row'[i] = i, i \in before'[j], call'[j].op = "add",
                    cart'[i] = cart'[j], call'[i].product = call'[j].product,
                    pc'[j] = "insert" \/ row'[j] = j
             PROVE  MissingSince(i, j)'
  BY DEF NoEarlierItem
<1>1. pc[j] \notin {"idle", "create", "cart"}
  BY OwnRow DEF ProductFrame
<1>2. call'[j] = call[j] /\ before'[j] = before[j] /\ cart'[j] = cart[j]
  BY <1>1 DEF Frame, RequestFrame, ProductFrame
<1>3. Over(i) /\ i # j
  BY <1>2 DEF BeforeOver, NeverBeforeItself
<1>4. call'[i] = call[i] /\ row[i] = i /\ cart'[i] = cart[i]
  BY <1>3 DEF Over, Frame, RequestFrame, ProductFrame
<1>5. CASE pc[j] = "insert" \/ row[j] = j
  <2>1. MissingSince(i, j)
    BY <1>2, <1>4, <1>5 DEF NoEarlierItem
  <2>2. row[j] # i
    BY <1>3, <1>5 DEF Typed, Shape, NoRowYet
  <2> QED
    BY <1>1, <1>4, <2>1, <2>2, MissingStays
<1>6. CASE ~(pc[j] = "insert" \/ row[j] = j)
  <2>1. pc'[j] = "insert"
    BY <1>6, OwnRow
  <2>2. /\ pc[j] = "item" /\ items' = items
        /\ FindCartItem(cart[j], call[j].product) = {}
    BY <1>6, <2>1 DEF ProductFrame
  <2>3. i \notin items'
    BY <1>2, <1>4, <2>2 DEF FindCartItem, FindCartItemsByCartId
  <2>4. \A r \in Reqs : Saves(r)' => j \notin before'[r]
    BY <2>2, NothingAfter DEF Over
  <2> QED
    BY <2>3, <2>4 DEF MissingSince
<1> QED
  BY <1>5, <1>6

LEMMA OneInit == Init => OneInv
<1> USE NoRowAssumption
<1> SUFFICES ASSUME Init PROVE OneInv
  OBVIOUS
<1>1. /\ carts = {} /\ \A r \in Reqs : row[r] = NoRow /\ before[r] = {} /\ pc[r] = "idle"
  BY DEF Init, RequestsInit
<1> QED
  BY <1>1, GoneInit
     DEF OneInv, CartsLive, NeverBeforeItself, NoEarlierCart, ItemsAdded, NoEarlierItem

LEMMA OneStep == OneInv /\ [Next]_vars => OneInv'
<1> SUFFICES ASSUME OneInv, [Next]_vars PROVE OneInv'
  OBVIOUS
<1>1. GoneInv /\ Typed /\ RowsOwn /\ BeforeOver
  BY DEF OneInv, GoneInv
<1>2. GoneInv' /\ Typed'
  BY <1>1, GoneStep, TypedStep
<1>3. Frame /\ CartFrame /\ ProductFrame
  BY <1>1, NextFrame, NextCarts
<1>4. CartsLive' /\ NeverBeforeItself'
  BY <1>1, <1>2, <1>3, CartsLiveStep DEF OneInv
<1>5. NoEarlierCart'
  BY <1>1, <1>3, NoEarlierCartStep DEF OneInv
<1>6. ItemsAdded'
  BY <1>1, <1>3, ItemsAddedStep DEF OneInv
<1>7. NoEarlierItem'
  BY <1>1, <1>2, <1>3, NoEarlierItemStep DEF OneInv
<1> QED
  BY <1>2, <1>4, <1>5, <1>6, <1>7 DEF OneInv

LEMMA OneInvOneOfEach == OneInv => OneOfEach
<1> SUFFICES ASSUME OneInv PROVE OneOfEach
  OBVIOUS
<1> Typed /\ RowsOwn
  BY DEF OneInv, GoneInv
<1>1. carts \subseteq Reqs /\ items \subseteq Reqs
  BY DEF Typed, CartTypes
<1>2. ASSUME NEW c \in carts, NEW d \in carts, c # d, call[c].user = call[d].user,
             call[c].op # "open", call[d].op # "open"
      PROVE  Overlap(c, d)
  <2>1. pc[c] # "idle" /\ pc[d] # "idle"
    BY DEF OneInv, CartsLive
  <2>2. c \notin before[d] /\ d \notin before[c]
    BY <1>1, <1>2 DEF OneInv, NoEarlierCart
  <2> QED
    BY <1>2, <2>1, <2>2 DEF Overlap
<1>3. ASSUME NEW i \in items, NEW j \in items, i # j, cart[i] = cart[j],
             call[i].product = call[j].product
      PROVE  \E r, s \in Reqs : Saves(r) /\ row[r] = i /\ Saves(s) /\ row[s] = j /\ Overlap(r, s)
  <2>1. /\ i \in Reqs /\ j \in Reqs /\ row[i] = i /\ row[j] = j
        /\ call[i].op = "add" /\ call[j].op = "add"
    BY <1>1 DEF RowsOwn, OneInv, ItemsAdded
  <2>2. Saves(i) /\ Saves(j) /\ pc[i] # "idle" /\ pc[j] # "idle"
    BY <2>1 DEF Saves, Typed, Shape, Fits
  <2>3. CASE Overlap(i, j)
    BY <2>1, <2>2, <2>3
  <2>4. CASE i \in before[j]
    <3>1. Excused(i, j)
      BY <1>3, <2>1, <2>4 DEF OneInv, NoEarlierItem, MissingSince
    <3> QED
      BY <2>1, <2>2, <3>1 DEF Excused
  <2>5. CASE j \in before[i]
    <3>1. Excused(j, i)
      BY <1>3, <2>1, <2>5 DEF OneInv, NoEarlierItem, MissingSince
    <3> QED
      BY <2>1, <2>2, <3>1 DEF Excused, Overlap
  <2> QED
    BY <1>3, <2>2, <2>3, <2>4, <2>5 DEF Overlap
<1> QED
  BY <1>2, <1>3 DEF OneOfEach

(* A second cart of a user, or a second item of a product in a cart, that    *)
(* no client asked for takes two requests that overlapped, for any number of *)
(* requests, carts and mishaps.                                              *)
THEOREM OneOfEachHolds == Spec => []OneOfEach
BY OneInit, OneStep, OneInvOneOfEach, PTL DEF Spec

-----------------------------------------------------------------------------
(* The clearing of a cart at the end of a checkout.                         *)

(* An item changes by a request that has it as its row and is under way, and *)
(* a checkout sees the items of its cart as they are when it starts.         *)
QtyFrame ==
  \A i \in items' :
    i \notin items \/ qty'[i] # qty[i] =>
      \E r \in Reqs : Saves(r)' /\ row'[r] = i /\ pc[r] # "idle" /\ ~Over(r)

SeenFrame ==
  \A k \in Reqs :
    pc'[k] = "clear" =>
      \/ pc[k] = "clear" /\ seen'[k] = seen[k]
      \/ /\ pc[k] = "idle" /\ items' = items /\ qty' = qty
         /\ \A i \in items : i # k => cart'[i] = cart[i]
         /\ \A i \in items : cart[i] = cart'[k] => seen'[k][i] = qty[i]

LEMMA StepsQty ==
  ASSUME Typed, NEW r \in Reqs,
         \/ CreateMissingCart(r) \/ AddFindCart(r) \/ AddCheckTotal(r) \/ AddFindItem(r)
         \/ CreateCartItem(r) \/ UpdateProductStock(r)
         \/ SaveReads(r) \/ SaveUpdates(r) \/ SaveInserts(r) \/ UpdateCheckTotal(r)
         \/ DeleteCartItem(r) \/ CheckoutRefused(r) \/ ClearUserCart(r)
  PROVE  QtyFrame /\ SeenFrame
<1> USE DEF tables, local, cartVars
<1>1. /\ pc \in [Reqs -> Steps] /\ items \subseteq Reqs /\ qty \in [Reqs -> Int]
      /\ row \in [Reqs -> Reqs \cup {NoRow}]
  BY DEF Typed, RequestTypes, CartTypes
<1>2. pc[r] \in {"insert", "load", "write", "reinsert"} => Saves(r)
  BY DEF Typed, Shape, Fits, Saves
<1>3. seen' = seen
  BY DEF CreateMissingCart, AddFindCart, AddCheckTotal, AddFindItem, CreateCartItem,
         UpdateProductStock, SaveReads, SaveUpdates, SaveInserts, UpdateCheckTotal,
         DeleteCartItem, CheckoutRefused, ClearUserCart
<1>4. \A q \in Reqs : pc'[q] = "clear" => pc[q] = "clear"
  BY <1>1 DEF CreateMissingCart, AddFindCart, AddCheckTotal, AddFindItem, CreateCartItem,
         UpdateProductStock, SaveReads, SaveUpdates, SaveInserts, UpdateCheckTotal,
         DeleteCartItem, CheckoutRefused, ClearUserCart, AfterSave, Goto, Refuse
<1>5. SeenFrame
  BY <1>3, <1>4 DEF SeenFrame
<1>6. CASE items' \subseteq items /\ qty' = qty
  BY <1>5, <1>6 DEF QtyFrame
<1>7. CASE CreateCartItem(r)
  <2>1. CASE UNCHANGED <<items, qty>>
    BY <1>5, <2>1 DEF QtyFrame
  <2>2. CASE ~UNCHANGED <<items, qty>>
    <3>1. /\ items' = items \cup {r} /\ qty' = [qty EXCEPT ![r] = call[r].n]
          /\ row' = [row EXCEPT ![r] = r] /\ call' = call /\ pc[r] = "insert"
      BY <1>7, <2>2 DEF CreateCartItem, Goto
    <3>2. Saves(r)' /\ row'[r] = r
      BY <1>1, <1>2, <3>1 DEF Saves
    <3> QED
      BY <1>1, <1>5, <3>1, <3>2 DEF QtyFrame, Over
  <2> QED
    BY <2>1, <2>2
<1>8. CASE SaveUpdates(r) \/ SaveInserts(r)
  <2>1. pc[r] \in {"write", "reinsert"} /\ row' = row /\ call' = call
    BY <1>8 DEF SaveUpdates, SaveInserts, Goto, Refuse
  <2>2. items' \subseteq items \cup {row[r]}
    BY <1>8 DEF SaveUpdates, SaveInserts
  <2>3. \A i \in Reqs : i # row[r] => qty'[i] = qty[i]
    BY <1>1, <1>8 DEF SaveUpdates, SaveInserts
  <2>4. row[r] \in Reqs /\ Saves(r)'
    BY <1>2, <2>1 DEF Typed, Shape, NeedsRow, Saves
  <2> QED
    BY <1>1, <1>5, <2>1, <2>2, <2>3, <2>4 DEF QtyFrame, Over
<1> QED
  BY <1>6, <1>7, <1>8
     DEF CreateMissingCart, AddFindCart, AddCheckTotal, AddFindItem, UpdateProductStock,
         SaveReads, UpdateCheckTotal, DeleteCartItem, CheckoutRefused, ClearUserCart

LEMMA ArrivalsQty ==
  ASSUME Typed, NEW r \in Reqs,
         \/ CreateCart(r) \/ GetCartByUserId(r) \/ AddFindProduct(r)
         \/ UpdateFindItem(r) \/ DeleteFindItem(r) \/ CheckoutReadCart(r)
  PROVE  QtyFrame /\ SeenFrame
<1> USE DEF tables, local, cartVars
<1>1. /\ pc \in [Reqs -> Steps] /\ items \subseteq Reqs /\ seen \in [Reqs -> [Reqs -> Int]]
      /\ cart \in [Reqs -> Reqs \cup {NoRow}]
  BY DEF Typed, RequestTypes, CartTypes
<1>2. UNCHANGED <<items, qty>>
  BY DEF CreateCart, GetCartByUserId, AddFindProduct, UpdateFindItem, DeleteFindItem,
         CheckoutReadCart
<1>3. QtyFrame
  BY <1>2 DEF QtyFrame
<1>4. CASE CheckoutReadCart(r)
  <2>1. PICK u \in Users : \E c \in CartsOf(u) :
          /\ Arrive(r, [op |-> "checkout", user |-> u], "clear")
          /\ cart' = [cart EXCEPT ![r] = c]
          /\ seen' = [seen EXCEPT ![r] =
                        [i \in Reqs |-> IF i \in FindCartItemsByCartId(c) THEN qty[i] ELSE 0]]
    BY <1>4 DEF CheckoutReadCart
  <2>2. PICK c \in CartsOf(u) :
          /\ pc[r] = "idle" /\ pc' = [pc EXCEPT ![r] = "clear"]
          /\ cart' = [cart EXCEPT ![r] = c]
          /\ seen' = [seen EXCEPT ![r] =
                        [i \in Reqs |-> IF i \in FindCartItemsByCartId(c) THEN qty[i] ELSE 0]]
    BY <2>1 DEF Arrive
  <2>3. cart'[r] = c /\ \A i \in Reqs : i # r => cart'[i] = cart[i]
    BY <1>1, <2>2
  <2>4. \A i \in items : cart[i] = c => seen'[r][i] = qty[i]
    BY <1>1, <2>2 DEF FindCartItemsByCartId
  <2>5. \A k \in Reqs : k # r => pc'[k] = pc[k] /\ seen'[k] = seen[k]
    BY <1>1, <2>2
  <2> QED
    BY <1>1, <1>2, <1>3, <2>2, <2>3, <2>4, <2>5 DEF SeenFrame
<1>5. CASE ~CheckoutReadCart(r)
  <2>1. seen' = seen
    BY <1>5 DEF CreateCart, GetCartByUserId, AddFindProduct, UpdateFindItem, DeleteFindItem
  <2>2. PICK l \in Steps \ {"clear"} : pc' = [pc EXCEPT ![r] = l]
    BY <1>5 DEF CreateCart, GetCartByUserId, AddFindProduct, UpdateFindItem, DeleteFindItem,
                Arrive, Steps
  <2>3. \A k \in Reqs : pc'[k] = "clear" => pc[k] = "clear"
    BY <1>1, <2>2
  <2> QED
    BY <1>3, <2>1, <2>3 DEF SeenFrame
<1> QED
  BY <1>4, <1>5

LEMMA NextQty == Typed /\ [Next]_vars => QtyFrame /\ SeenFrame
<1> SUFFICES ASSUME Typed, [Next]_vars PROVE QtyFrame /\ SeenFrame
  OBVIOUS
<1>1. CASE UNCHANGED vars
  BY <1>1 DEF vars, requestVars, cartVars, tables, local, QtyFrame, SeenFrame
<1>2. CASE Mishap
  <2>1. UNCHANGED cartVars /\ \A q \in Reqs : pc'[q] \in {pc[q], "done"}
    BY <1>2 DEF Mishap, Die, Throw, Typed, RequestTypes
  <2> QED
    BY <2>1 DEF cartVars, tables, local, QtyFrame, SeenFrame
<1>3. ASSUME NEW r \in Reqs,
             \/ CreateCart(r) \/ GetCartByUserId(r) \/ CreateMissingCart(r)
             \/ AddFindProduct(r) \/ AddFindCart(r) \/ AddCheckTotal(r) \/ AddFindItem(r)
             \/ CreateCartItem(r) \/ UpdateProductStock(r)
             \/ SaveReads(r) \/ SaveUpdates(r) \/ SaveInserts(r)
             \/ UpdateFindItem(r) \/ UpdateCheckTotal(r)
             \/ DeleteFindItem(r) \/ DeleteCartItem(r)
             \/ CheckoutReadCart(r) \/ CheckoutRefused(r) \/ ClearUserCart(r)
      PROVE  QtyFrame /\ SeenFrame
  BY <1>3, ArrivalsQty, StepsQty
<1> QED
  BY <1>1, <1>2, <1>3 DEF Next, Stop

(* What a checkout that is about to clear its cart knows of the items in it. *)
SeenAsIs ==
  \A k \in Reqs : pc[k] = "clear" =>
    \A i \in items : cart[i] = cart[k] => seen[k][i] = qty[i] \/ Excused(i, k)

ClearInv == GoneInv /\ SeenAsIs

LEMMA SeenAsIsStep ==
  ASSUME ClearInv, Typed', RowsOwn', BeforeOver', Frame, ProductFrame, QtyFrame, SeenFrame
  PROVE  SeenAsIs'
<1> USE NoRowAssumption
<1> Typed /\ RowsOwn /\ BeforeOver /\ SeenAsIs
  BY DEF ClearInv, GoneInv
<1> SUFFICES ASSUME NEW k \in Reqs, pc'[k] = "clear", NEW i \in items', cart'[i] = cart'[k]
             PROVE  seen'[k][i] = qty'[i] \/ Excused(i, k)'
  BY DEF SeenAsIs
<1>1. i \in Reqs
  BY DEF Typed, CartTypes
<1>2. CASE pc[k] = "idle"
  <2>1. /\ items' = items /\ qty' = qty
        /\ \A j \in items : j # k => cart'[j] = cart[j]
        /\ \A j \in items : cart[j] = cart'[k] => seen'[k][j] = qty[j]
    BY <1>2 DEF SeenFrame
  <2>2. i # k
    BY <1>2, <2>1 DEF RowsOwn, Typed, Shape, NoRowYet
  <2> QED
    BY <2>1, <2>2
<1>3. CASE pc[k] = "clear"
  <2>1. seen'[k] = seen[k] /\ cart'[k] = cart[k]
    BY <1>3 DEF SeenFrame, ProductFrame
  <2>2. CASE i \notin items \/ qty'[i] # qty[i]
    <3>1. PICK r \in Reqs : Saves(r)' /\ row'[r] = i /\ pc[r] # "idle" /\ ~Over(r)
      BY <2>2 DEF QtyFrame
    <3>2. r # k
      BY <1>3, <3>1 DEF Typed, Shape, Fits, Saves, Frame, RequestFrame
    <3>3. r \notin before[k] /\ k \notin before[r]
      BY <1>3, <3>1 DEF BeforeOver, Over
    <3>4. Overlap(r, k)'
      BY <1>3, <3>1, <3>2, <3>3 DEF Overlap, Frame, RequestFrame
    <3> QED
      BY <3>1, <3>4 DEF Excused
  <2>3. CASE i \in items /\ qty'[i] = qty[i]
    <3>1. cart'[i] = cart[i]
      BY <1>1, <2>3 DEF RowsOwn, Typed, Shape, NoRowYet, ProductFrame
    <3>2. seen[k][i] = qty[i] \/ Excused(i, k)
      BY <1>3, <2>1, <2>3, <3>1 DEF SeenAsIs
    <3> QED
      BY <1>1, <2>1, <2>3, <3>2, ExcusedStays
  <2> QED
    BY <2>2, <2>3
<1> QED
  BY <1>2, <1>3 DEF SeenFrame

LEMMA ClearInit == Init => ClearInv
  BY GoneInit DEF ClearInv, SeenAsIs, Init, RequestsInit

LEMMA ClearStep == ClearInv /\ [Next]_vars => ClearInv'
<1> SUFFICES ASSUME ClearInv, [Next]_vars PROVE ClearInv'
  OBVIOUS
<1>1. GoneInv /\ GoneInv' /\ Typed
  BY GoneStep DEF ClearInv, GoneInv
<1>2. Frame /\ ProductFrame /\ QtyFrame /\ SeenFrame
  BY <1>1, NextFrame, NextCarts, NextQty
<1> QED
  BY <1>1, <1>2, SeenAsIsStep DEF ClearInv, GoneInv

Cleared ==
  \A k, i \in Reqs :
    (pc[k] = "clear" /\ i \in items \ items' /\ pc'[k] = "done") =>
      \/ seen[k][i] = qty[i]
      \/ cart[i] \in CartsOf(call[k].user) \ {cart[k]}
      \/ \E r \in Reqs : Saves(r) /\ row[r] = i /\ Overlap(r, k)

LEMMA ClearsWhatItSaw == ClearInv /\ [Next]_vars => Cleared
<1> SUFFICES ASSUME ClearInv, [Next]_vars, NEW k \in Reqs, NEW i \in items \ items',
                    pc[k] = "clear", pc'[k] = "done"
             PROVE  \/ seen[k][i] = qty[i]
                    \/ cart[i] \in CartsOf(call[k].user) \ {cart[k]}
                    \/ \E r \in Reqs : Saves(r) /\ row[r] = i /\ Overlap(r, k)
  BY DEF Cleared
<1> Typed /\ SeenAsIs
  BY DEF ClearInv, GoneInv
<1>1. cart[i] = cart[k] => seen[k][i] = qty[i] \/ Excused(i, k)
  BY DEF SeenAsIs
<1>2. cart[i] \in CartsOf(call[k].user)
  <2>1. PICK r \in Reqs : DeleteCartItem(r) \/ ClearUserCart(r)
    <3>1. CASE UNCHANGED vars \/ Mishap
      BY <3>1 DEF vars, cartVars, tables, Mishap
    <3>2. ASSUME NEW r \in Reqs,
                 \/ CreateCart(r) \/ GetCartByUserId(r) \/ CreateMissingCart(r)
                 \/ AddFindProduct(r) \/ AddFindCart(r) \/ AddCheckTotal(r)
                 \/ AddFindItem(r) \/ CreateCartItem(r) \/ UpdateProductStock(r)
                 \/ SaveReads(r) \/ SaveUpdates(r) \/ SaveInserts(r)
                 \/ UpdateFindItem(r) \/ UpdateCheckTotal(r) \/ DeleteFindItem(r)
                 \/ CheckoutReadCart(r) \/ CheckoutRefused(r)
          PROVE  items \subseteq items'
      BY <3>2
      DEF CreateCart, GetCartByUserId, CreateMissingCart, AddFindProduct, AddFindCart,
          AddCheckTotal, AddFindItem, CreateCartItem, UpdateProductStock, SaveReads,
          SaveUpdates, SaveInserts, UpdateFindItem, UpdateCheckTotal, DeleteFindItem,
          CheckoutReadCart, CheckoutRefused, cartVars, tables
    <3> QED
      BY <3>1, <3>2 DEF Next, Stop
  <2>2. r = k
    BY <2>1 DEF DeleteCartItem, ClearUserCart, Goto, Typed, RequestTypes
  <2>3. ClearUserCart(k)
    BY <2>1, <2>2 DEF DeleteCartItem
  <2> QED
    BY <2>3 DEF ClearUserCart
<1> QED
  BY <1>1, <1>2 DEF Excused

(* A checkout removes an item it has not read as it is only where a request   *)
(* that saves the item overlapped it, or from another cart of the user, for   *)
(* any number of requests, carts and mishaps.                                 *)
THEOREM ClearingHolds == Spec => ClearedAsOrdered
<1>1. ClearInv /\ [Next]_vars => [Cleared]_vars
  BY ClearsWhatItSaw
<1>2. Spec => [][Cleared]_vars
  BY <1>1, ClearInit, ClearStep, PTL DEF Spec
<1> QED
  BY <1>2 DEF ClearedAsOrdered, Cleared

-----------------------------------------------------------------------------
(* Sums over finite sets.  The recursion by which SumFunctionOnSet adds up  *)
(* has one solution, and counting is one: a sum of integers is the number   *)
(* of units of the positive ones less that of the negative ones, which are  *)
(* the positive ones of the negation.  Where induction is needed it goes    *)
(* over the subsets of the set: if a claim is wrong of some, it is wrong of *)
(* a smallest one.                                                          *)

LEMMA LeastSubset ==
  ASSUME NEW S, IsFiniteSet(S), NEW T \in SUBSET (SUBSET S), T # {}
  PROVE  \E s \in T : \A x \in s : s \ {x} \notin T
<1>1. T \subseteq FiniteSubsetsOf(S)
  BY FS_Subset DEF FiniteSubsetsOf
<1>2. \E s \in T : \A u \in T : <<u, s>> \notin StrictSubsetOrdering(S)
  BY <1>1, FS_StrictSubsetOrderingWellFounded, WFMin
<1> QED
  BY <1>2 DEF StrictSubsetOrdering

(* A negative number has no units.                                          *)
Units(f, S) == UNION {{x} \X (1..f[x]) : x \in S}

Positive(n) == IF n > 0 THEN n ELSE 0

LEMMA UnitsOfOne ==
  ASSUME NEW x, NEW n \in Int
  PROVE  IsFiniteSet({x} \X (1..n)) /\ Cardinality({x} \X (1..n)) = Positive(n)
<1>1. IsFiniteSet(1..n) /\ Cardinality(1..n) = Positive(n)
  BY FS_Interval DEF Positive
<1>2. IsFiniteSet({x}) /\ Cardinality({x}) = 1
  BY FS_Singleton
<1>3. Positive(n) \in Nat
  BY DEF Positive
<1>4. Cardinality({x} \X (1..n)) = 1 * Positive(n) /\ IsFiniteSet({x} \X (1..n))
  BY <1>1, <1>2, FS_Product
<1> QED
  BY <1>3, <1>4

LEMMA UnitsSplit ==
  ASSUME NEW f, NEW S, NEW x \in S
  PROVE  /\ Units(f, S) = Units(f, S \ {x}) \cup ({x} \X (1..f[x]))
         /\ Units(f, S \ {x}) \cap ({x} \X (1..f[x])) = {}
<1> DEFINE P(y) == {y} \X (1..f[y])
<1>1. \A y, u : u \in P(y) => u[1] = y
  OBVIOUS
<1> HIDE DEF P
<1>2. UNION {P(y) : y \in S} = (UNION {P(y) : y \in S \ {x}}) \cup P(x)
  OBVIOUS
<1>3. (UNION {P(y) : y \in S \ {x}}) \cap P(x) = {}
  BY <1>1
<1> QED
  BY <1>2, <1>3 DEF P, Units

LEMMA UnitsFinite ==
  ASSUME NEW S, IsFiniteSet(S), NEW f, \A x \in S : f[x] \in Int
  PROVE  \A s \in SUBSET S : IsFiniteSet(Units(f, s))
<1> DEFINE Bad == {s \in SUBSET S : ~ IsFiniteSet(Units(f, s))}
<1> SUFFICES ASSUME Bad # {} PROVE FALSE
  OBVIOUS
<1>1. PICK s \in Bad : \A x \in s : s \ {x} \notin Bad
  BY LeastSubset
<1>2. CASE s = {}
  BY <1>2, FS_EmptySet DEF Units
<1>3. CASE s # {}
  <2>1. PICK x \in s : TRUE
    BY <1>3
  <2>2. IsFiniteSet(Units(f, s \ {x}))
    BY <1>1, <2>1
  <2>3. IsFiniteSet({x} \X (1..f[x]))
    BY <2>1, UnitsOfOne
  <2>4. Units(f, s) = Units(f, s \ {x}) \cup ({x} \X (1..f[x]))
    BY <2>1, UnitsSplit
  <2>5. IsFiniteSet(Units(f, s \ {x}) \cup ({x} \X (1..f[x])))
    BY <2>2, <2>3, FS_Union
  <2> QED
    BY <2>4, <2>5
<1> QED
  BY <1>2, <1>3

LEMMA UnitsOfAll ==
  ASSUME NEW S, IsFiniteSet(S), NEW f, \A x \in S : f[x] \in Int, NEW x \in S
  PROVE  /\ Cardinality(Units(f, S)) \in Nat
         /\ Cardinality(Units(f, S)) = Positive(f[x]) + Cardinality(Units(f, S \ {x}))
<1>1. IsFiniteSet(Units(f, S)) /\ IsFiniteSet(Units(f, S \ {x}))
  BY UnitsFinite
<1>2. /\ Cardinality(Units(f, S)) \in Nat
      /\ Cardinality(Units(f, S \ {x})) \in Nat
  BY <1>1, FS_CardinalityType
<1>3. IsFiniteSet({x} \X (1..f[x])) /\ Cardinality({x} \X (1..f[x])) = Positive(f[x])
  BY UnitsOfOne
<1>4. /\ Units(f, S) = Units(f, S \ {x}) \cup ({x} \X (1..f[x]))
      /\ Units(f, S \ {x}) \cap ({x} \X (1..f[x])) = {}
  BY UnitsSplit
<1>5. Cardinality({}) = 0
  BY FS_EmptySet
<1>6. Cardinality(Units(f, S)) = Cardinality(Units(f, S \ {x})) + Cardinality({x} \X (1..f[x])) - 0
  <2>1. PICK A, B : A = Units(f, S \ {x}) /\ B = {x} \X (1..f[x])
    OBVIOUS
  <2>2. Cardinality(A \cup B) = Cardinality(A) + Cardinality(B) - Cardinality(A \cap B)
    BY <1>1, <1>3, <2>1, FS_Union
  <2> QED
    BY <1>4, <1>5, <2>1, <2>2
<1>7. Positive(f[x]) \in Nat
  BY DEF Positive
<1> QED
  BY <1>2, <1>3, <1>6, <1>7

Negates(g, f, S) == \A x \in S : f[x] \in Int /\ g[x] = -f[x]

(* What S adds up to, g being the negation of f.                            *)
Net(f, g, S) == Cardinality(Units(f, S)) - Cardinality(Units(g, S))

LEMMA NetOfAll ==
  ASSUME NEW S, IsFiniteSet(S), NEW f, NEW g, Negates(g, f, S), NEW x \in S
  PROVE  Net(f, g, S) \in Int /\ Net(f, g, S) = f[x] + Net(f, g, S \ {x})
<1>1. \A y \in S : f[y] \in Int /\ g[y] \in Int
  BY DEF Negates
<1>2. /\ Cardinality(Units(f, S)) \in Nat
      /\ Cardinality(Units(f, S)) = Positive(f[x]) + Cardinality(Units(f, S \ {x}))
      /\ Cardinality(Units(g, S)) \in Nat
      /\ Cardinality(Units(g, S)) = Positive(g[x]) + Cardinality(Units(g, S \ {x}))
  BY <1>1, UnitsOfAll
<1>3. IsFiniteSet(Units(f, S \ {x})) /\ IsFiniteSet(Units(g, S \ {x}))
  BY <1>1, UnitsFinite
<1>4. Cardinality(Units(f, S \ {x})) \in Nat /\ Cardinality(Units(g, S \ {x})) \in Nat
  BY <1>3, FS_CardinalityType
<1>5. f[x] \in Int /\ Positive(f[x]) \in Nat /\ Positive(g[x]) \in Nat
      /\ Positive(f[x]) - Positive(g[x]) = f[x]
  BY DEF Positive, Negates
<1> QED
  BY <1>2, <1>4, <1>5 DEF Net

LEMMA NetOfNone ==
  ASSUME NEW f, NEW g
  PROVE  Net(f, g, {}) = 0
<1>1. Units(f, {}) = {} /\ Units(g, {}) = {} /\ Cardinality({}) = 0
  BY FS_EmptySet DEF Units
<1> QED
  BY <1>1 DEF Net

(* The equation that the fold is a solution of.                             *)
SumsUp(f, S, h) ==
  h = [s \in SUBSET S |-> IF s = {} THEN 0
                          ELSE LET x == CHOOSE y \in s : TRUE IN f[x] + h[s \ {x}]]

LEMMA NetAdds ==
  ASSUME NEW S, IsFiniteSet(S), NEW f, NEW g, Negates(g, f, S)
  PROVE  SumsUp(f, S, [s \in SUBSET S |-> Net(f, g, s)])
<1> DEFINE h == [s \in SUBSET S |-> Net(f, g, s)]
<1>1. ASSUME NEW s \in SUBSET S, s # {}, NEW x, x = CHOOSE y \in s : TRUE
      PROVE  h[s] = f[x] + h[s \ {x}]
  <2>1. x \in s /\ IsFiniteSet(s) /\ Negates(g, f, s)
    BY <1>1, FS_Subset DEF Negates
  <2>2. h[s] = Net(f, g, s) /\ h[s \ {x}] = Net(f, g, s \ {x})
    OBVIOUS
  <2>3. Net(f, g, s) = f[x] + Net(f, g, s \ {x})
    BY <2>1, NetOfAll
  <2> QED
    BY <2>2, <2>3
<1>2. \A s \in SUBSET S : h[s] = IF s = {} THEN 0
                                 ELSE LET x == CHOOSE y \in s : TRUE IN f[x] + h[s \ {x}]
  BY <1>1, NetOfNone
<1> HIDE DEF h
<1>3. h = [s \in SUBSET S |-> h[s]]
  BY DEF h
<1>4. SumsUp(f, S, h)
  BY <1>2, <1>3 DEF SumsUp
<1> QED
  BY <1>4 DEF h

LEMMA AddsOnce ==
  ASSUME NEW S, IsFiniteSet(S), NEW f, NEW g, Negates(g, f, S), NEW h, SumsUp(f, S, h)
  PROVE  h[S] = Net(f, g, S)
<1> DEFINE Bad == {s \in SUBSET S : h[s] # Net(f, g, s)}
<1> SUFFICES ASSUME Bad # {} PROVE FALSE
  OBVIOUS
<1>1. PICK s \in Bad : \A x \in s : s \ {x} \notin Bad
  BY LeastSubset
<1>2. CASE s = {}
  <2>1. h[s] = 0
    BY <1>2 DEF SumsUp
  <2> QED
    BY <1>2, <2>1, NetOfNone
<1>3. CASE s # {}
  <2>1. PICK x : x = CHOOSE y \in s : TRUE
    OBVIOUS
  <2>2. x \in s /\ IsFiniteSet(s) /\ Negates(g, f, s)
    BY <1>3, <2>1, FS_Subset DEF Negates
  <2>3. h[s] = f[x] + h[s \ {x}]
    BY <1>3, <2>1 DEF SumsUp
  <2>4. h[s \ {x}] = Net(f, g, s \ {x})
    BY <1>1, <2>2
  <2> QED
    BY <2>2, <2>3, <2>4, NetOfAll
<1> QED
  BY <1>2, <1>3

LEMMA SumIsNet ==
  ASSUME NEW S, IsFiniteSet(S), NEW f, NEW g, Negates(g, f, S)
  PROVE  SumFunctionOnSet(f, S) = Net(f, g, S)
<1>1. SumFunctionOnSet(f, S) = (CHOOSE h : SumsUp(f, S, h))[S]
  BY DEF SumFunctionOnSet, FoldFunctionOnSet, MapThenFoldSet, SumsUp
<1>2. SumsUp(f, S, CHOOSE h : SumsUp(f, S, h))
  BY NetAdds
<1>3. PICK h : h = CHOOSE i : SumsUp(f, S, i)
  OBVIOUS
<1> QED
  BY <1>1, <1>2, <1>3, AddsOnce

LEMMA HasNegation ==
  ASSUME NEW S, NEW f, \A x \in S : f[x] \in Int
  PROVE  \E g : Negates(g, f, S)
<1>1. Negates([x \in S |-> -f[x]], f, S)
  BY DEF Negates
<1> QED
  BY <1>1

LEMMA SumEmpty ==
  ASSUME NEW f
  PROVE  SumFunctionOnSet(f, {}) = 0
<1>1. IsFiniteSet({}) /\ Negates(f, f, {})
  BY FS_EmptySet DEF Negates
<1> QED
  BY <1>1, SumIsNet, NetOfNone

LEMMA SumTyped ==
  ASSUME NEW S, IsFiniteSet(S), NEW f, \A x \in S : f[x] \in Int
  PROVE  SumFunctionOnSet(f, S) \in Int
<1>1. PICK g : Negates(g, f, S)
  BY HasNegation
<1>2. CASE S = {}
  BY <1>2, SumEmpty
<1>3. CASE S # {}
  <2>1. PICK x \in S : TRUE
    BY <1>3
  <2>2. Net(f, g, S) \in Int
    BY <1>1, <2>1, NetOfAll
  <2> QED
    BY <1>1, <2>2, SumIsNet
<1> QED
  BY <1>2, <1>3

LEMMA SumWithout ==
  ASSUME NEW S, IsFiniteSet(S), NEW f, \A x \in S : f[x] \in Int, NEW x \in S
  PROVE  SumFunctionOnSet(f, S) = f[x] + SumFunctionOnSet(f, S \ {x})
<1>1. PICK g : Negates(g, f, S)
  BY HasNegation
<1>2. IsFiniteSet(S \ {x}) /\ Negates(g, f, S \ {x})
  BY <1>1, FS_RemoveElement DEF Negates
<1> QED
  BY <1>1, <1>2, SumIsNet, NetOfAll

LEMMA SumSame ==
  ASSUME NEW S, IsFiniteSet(S), NEW f, NEW g, \A x \in S : f[x] \in Int /\ f[x] = g[x]
  PROVE  SumFunctionOnSet(f, S) = SumFunctionOnSet(g, S)
<1>1. PICK h : Negates(h, f, S)
  BY HasNegation
<1>2. Negates(h, g, S)
  BY <1>1 DEF Negates
<1>3. Units(f, S) = Units(g, S)
  BY DEF Units
<1> QED
  BY <1>1, <1>2, <1>3, SumIsNet DEF Net

(* A sum of naturals counts them.                                           *)
LEMMA SumCounts ==
  ASSUME NEW S, IsFiniteSet(S), NEW f, \A x \in S : f[x] \in Nat
  PROVE  /\ SumFunctionOnSet(f, S) = Cardinality(Units(f, S))
         /\ SumFunctionOnSet(f, S) \in Nat
<1>1. PICK g : Negates(g, f, S)
  BY HasNegation
<1>2. \A x \in S : 1..g[x] = {}
  BY <1>1 DEF Negates
<1>3. Units(g, S) = {}
  BY <1>2 DEF Units
<1>4. IsFiniteSet(Units(f, S))
  BY UnitsFinite
<1>5. Cardinality(Units(f, S)) \in Nat /\ Cardinality({}) = 0
  BY <1>4, FS_CardinalityType, FS_EmptySet
<1>6. SumFunctionOnSet(f, S) = Cardinality(Units(f, S)) - Cardinality({})
  BY <1>1, <1>3, SumIsNet DEF Net
<1> QED
  BY <1>5, <1>6

LEMMA SumPart ==
  ASSUME NEW S, IsFiniteSet(S), NEW T \in SUBSET S, NEW f, \A x \in S : f[x] \in Nat
  PROVE  SumFunctionOnSet(f, T) <= SumFunctionOnSet(f, S)
<1>1. /\ \A s \in SUBSET S : IsFiniteSet(Units(f, s))
      /\ IsFiniteSet(T)
  BY UnitsFinite, FS_Subset
<1>3. Units(f, T) \subseteq Units(f, S)
  BY DEF Units
<1>2. Cardinality(Units(f, T)) <= Cardinality(Units(f, S))
  BY <1>1, <1>3, FS_Subset
<1> QED
  BY <1>1, <1>2, SumCounts

-----------------------------------------------------------------------------
(* The account of the stock.                                                *)

(* A request takes stock once, on its way out, and what it writes is the    *)
(* copy that it made when it arrived, less its quantity.                    *)
StockFrame ==
  /\ \/ UNCHANGED <<stock, taken>>
     \/ \E r \in Reqs :
          /\ pc[r] = "stock" /\ pc'[r] = "done" /\ taken' = taken \cup {r}
          /\ stock' = [stock EXCEPT ![call[r].product] = copy[r] - call[r].n]
  /\ \A r \in Reqs : pc[r] # "idle" => copy'[r] = copy[r]
  /\ \A r \in Reqs : pc[r] = "idle" /\ call'[r].op = "add" =>
       copy'[r] = stock[call'[r].product] /\ UNCHANGED <<stock, taken>>

LEMMA ArrivalsStock ==
  ASSUME Typed, NEW r \in Reqs,
         \/ CreateCart(r) \/ GetCartByUserId(r) \/ AddFindProduct(r)
         \/ UpdateFindItem(r) \/ DeleteFindItem(r) \/ CheckoutReadCart(r)
  PROVE  StockFrame
<1> USE DEF tables, local, cartVars
<1>1. /\ call \in [Reqs -> CartCalls \cup {NoCall}] /\ copy \in [Reqs -> Int]
      /\ \A q \in Reqs : pc[q] = "idle" => call[q].op = "none"
  BY DEF Typed, RequestTypes, CartTypes, Shape, Fits
<1>2. UNCHANGED <<stock, taken>> /\ pc[r] = "idle" /\ \A q \in Reqs : q # r => call'[q] = call[q]
  BY <1>1 DEF CreateCart, GetCartByUserId, AddFindProduct, UpdateFindItem, DeleteFindItem,
              CheckoutReadCart, Arrive
<1>3. CASE AddFindProduct(r)
  <2>1. PICK u \in Users, p \in Products, n \in AddQuantities :
          /\ call' = [call EXCEPT ![r] = [op |-> "add", user |-> u, product |-> p, n |-> n]]
          /\ copy' = [copy EXCEPT ![r] = stock[p]]
    BY <1>3 DEF AddFindProduct, Arrive
  <2>2. call'[r].product = p /\ copy'[r] = stock[p] /\ \A q \in Reqs : q # r => copy'[q] = copy[q]
    BY <1>1, <2>1
  <2> QED
    BY <1>1, <1>2, <2>2 DEF StockFrame
<1>4. CASE ~AddFindProduct(r)
  <2>1. copy' = copy /\ call'[r].op # "add"
    BY <1>1, <1>4 DEF CreateCart, GetCartByUserId, UpdateFindItem, DeleteFindItem,
                      CheckoutReadCart, Arrive
  <2> QED
    BY <1>1, <1>2, <2>1 DEF StockFrame
<1> QED
  BY <1>3, <1>4

LEMMA StepsStock ==
  ASSUME Typed, NEW r \in Reqs,
         \/ CreateMissingCart(r) \/ AddFindCart(r) \/ AddCheckTotal(r) \/ AddFindItem(r)
         \/ CreateCartItem(r) \/ UpdateProductStock(r)
         \/ SaveReads(r) \/ SaveUpdates(r) \/ SaveInserts(r) \/ UpdateCheckTotal(r)
         \/ DeleteCartItem(r) \/ CheckoutRefused(r) \/ ClearUserCart(r)
  PROVE  StockFrame
<1> USE DEF tables, local, cartVars
<1>1. call' = call /\ copy' = copy
  BY DEF CreateMissingCart, AddFindCart, AddCheckTotal, AddFindItem, CreateCartItem,
         UpdateProductStock, SaveReads, SaveUpdates, SaveInserts, UpdateCheckTotal,
         DeleteCartItem, CheckoutRefused, ClearUserCart, Goto, Refuse
<1>2. \A q \in Reqs : pc[q] = "idle" => call[q].op = "none"
  BY DEF Typed, Shape, Fits
<1>3. CASE UpdateProductStock(r)
  BY <1>1, <1>2, <1>3 DEF UpdateProductStock, Goto, StockFrame, Typed, RequestTypes
<1>4. CASE ~UpdateProductStock(r)
  <2>1. UNCHANGED <<stock, taken>>
    BY <1>4 DEF CreateMissingCart, AddFindCart, AddCheckTotal, AddFindItem, CreateCartItem,
         SaveReads, SaveUpdates, SaveInserts, UpdateCheckTotal,
         DeleteCartItem, CheckoutRefused, ClearUserCart
  <2> QED
    BY <1>1, <1>2, <2>1 DEF StockFrame
<1> QED
  BY <1>3, <1>4

LEMMA NextStock == Typed /\ [Next]_vars => StockFrame
<1> SUFFICES ASSUME Typed, [Next]_vars PROVE StockFrame
  OBVIOUS
<1>1. CASE UNCHANGED vars \/ Mishap
  <2>1. UNCHANGED <<stock, taken, copy, call>>
    BY <1>1 DEF vars, requestVars, cartVars, tables, local, Mishap, Die, Throw
  <2>2. \A q \in Reqs : pc[q] = "idle" => call[q].op = "none"
    BY DEF Typed, Shape, Fits
  <2> QED
    BY <2>1, <2>2 DEF StockFrame
<1>2. ASSUME NEW r \in Reqs,
             \/ CreateCart(r) \/ GetCartByUserId(r) \/ CreateMissingCart(r)
             \/ AddFindProduct(r) \/ AddFindCart(r) \/ AddCheckTotal(r) \/ AddFindItem(r)
             \/ CreateCartItem(r) \/ UpdateProductStock(r)
             \/ SaveReads(r) \/ SaveUpdates(r) \/ SaveInserts(r)
             \/ UpdateFindItem(r) \/ UpdateCheckTotal(r)
             \/ DeleteFindItem(r) \/ DeleteCartItem(r)
             \/ CheckoutReadCart(r) \/ CheckoutRefused(r) \/ ClearUserCart(r)
      PROVE  StockFrame
  BY <1>2, ArrivalsStock, StepsStock
<1> QED
  BY <1>1, <1>2 DEF Next, Stop

Takers(p) == {r \in taken : call[r].product = p}
Taken(p) == SumFunction([r \in Takers(p) |-> call[r].n])
Calm(p) == \A r, s \in Takers(p) : ~Overlap(r, s)

TakersOver == IsFiniteSet(taken) /\ \A r \in taken : Over(r) /\ call[r].op = "add"

(* While no two that took of a product overlapped its stock is the account. *)
Accounted == \A p \in Products : Calm(p) => stock[p] = InitialStock - Taken(p)

(* A request that will take of a product knows its stock as it is, unless   *)
(* one that overlaps it has taken of it in the meantime.                    *)
CopyFresh ==
  \A r \in Reqs : call[r].op = "add" /\ ~Over(r) =>
    \/ copy[r] = stock[call[r].product]
    \/ \E s \in Takers(call[r].product) : Overlap(r, s)

StockInv == Typed /\ BeforeOver /\ TakersOver /\ Accounted /\ CopyFresh

LEMMA TakersFinite ==
  ASSUME Typed, TakersOver, NEW p
  PROVE  IsFiniteSet(Takers(p)) /\ Takers(p) \subseteq Reqs /\ \A r \in Takers(p) : call[r].n \in Int
<1>1. taken \subseteq Reqs /\ IsFiniteSet(taken) /\ Takers(p) \subseteq taken
  BY DEF Typed, CartTypes, TakersOver, Takers
<1>2. IsFiniteSet(Takers(p))
  BY <1>1, FS_Subset
<1>3. \A r \in Takers(p) : call[r].n \in Int
  BY <1>1, AddsProduct DEF Typed, TakersOver
<1> QED
  BY <1>1, <1>2, <1>3

(* Two requests that have overlapped have, whatever happens next.           *)
LEMMA OverlapStays ==
  ASSUME Frame, NEW r \in Reqs, NEW s \in Reqs, Overlap(r, s)
  PROVE  Overlap(r, s)'
  BY DEF Frame, RequestFrame, Overlap

(* The later of two requests under way has arrived when the other was.      *)
LEMMA BothUnderway ==
  ASSUME BeforeOver, NEW r \in Reqs, NEW s \in Reqs, r # s,
         pc[r] # "idle", ~Over(r), pc[s] # "idle", ~Over(s)
  PROVE  Overlap(r, s)
  BY DEF BeforeOver, Overlap

(* Those who have taken keep what they asked for.                           *)
LEMMA TakersKept ==
  ASSUME Typed, TakersOver, Frame
  PROVE  \A r \in taken : r \in Reqs /\ call'[r] = call[r]
  BY DEF Typed, CartTypes, TakersOver, Frame, RequestFrame, Over

LEMMA QuietTakers ==
  ASSUME Typed, TakersOver, Frame, taken' = taken, NEW p
  PROVE  Takers(p)' = Takers(p) /\ Taken(p)' = Taken(p)
<1>1. Takers(p)' = Takers(p)
  BY TakersKept DEF Takers
<1>2. \A r \in Takers(p) : call'[r].n = call[r].n
  BY TakersKept DEF Takers
<1>3. [r \in Takers(p) |-> call'[r].n] = [r \in Takers(p) |-> call[r].n]
  BY <1>2
<1> QED
  BY <1>1, <1>3 DEF Taken

LEMMA OneMoreTaker ==
  ASSUME Typed, TakersOver, Frame, NEW q \in Reqs \ taken, taken' = taken \cup {q},
         call[q].op = "add", call'[q] = call[q], NEW p \in Products
  PROVE  /\ call[q].product = p =>
              Takers(p)' = Takers(p) \cup {q} /\ Taken(p)' = call[q].n + Taken(p)
         /\ call[q].product # p => Takers(p)' = Takers(p) /\ Taken(p)' = Taken(p)
<1>1. call[q].n \in Int
  BY AddsProduct DEF Typed
<1>2. CASE call[q].product # p
  <2>1. Takers(p)' = Takers(p) /\ \A r \in Takers(p) : call'[r].n = call[r].n
    BY <1>2, TakersKept DEF Takers
  <2>2. [r \in Takers(p) |-> call'[r].n] = [r \in Takers(p) |-> call[r].n]
    BY <2>1
  <2> QED
    BY <1>2, <2>1, <2>2 DEF Taken
<1>3. CASE call[q].product = p
  <2> DEFINE S == Takers(p) \cup {q}
             f == [r \in S |-> call[r].n]
             g == [r \in Takers(p) |-> call[r].n]
  <2>1. Takers(p)' = S /\ \A r \in S : call'[r].n = call[r].n
    BY <1>3, TakersKept DEF Takers
  <2>2. [r \in S |-> call'[r].n] = f
    BY <2>1
  <2>3. q \notin Takers(p) /\ IsFiniteSet(Takers(p)) /\ \A r \in Takers(p) : call[r].n \in Int
    BY TakersFinite DEF Takers
  <2>4. IsFiniteSet(S) /\ q \in S /\ S \ {q} = Takers(p) /\ \A r \in S : f[r] \in Int
    BY <1>1, <2>3, FS_AddElement
  <2>5. \A r \in Takers(p) : f[r] \in Int /\ f[r] = g[r]
    BY <2>3
  <2>6. f[q] = call[q].n
    OBVIOUS
  <2> HIDE DEF f, g
  <2>7. SumFunctionOnSet(f, S) = f[q] + SumFunctionOnSet(f, Takers(p))
    BY <2>4, SumWithout
  <2>8. SumFunctionOnSet(f, Takers(p)) = SumFunctionOnSet(g, Takers(p))
    BY <2>3, <2>5, SumSame
  <2>9. Taken(p)' = SumFunctionOnSet(f, S) /\ Taken(p) = SumFunctionOnSet(g, Takers(p))
    BY <2>1, <2>2 DEF Taken, SumFunction, f, g
  <2> QED
    BY <1>3, <2>1, <2>6, <2>7, <2>8, <2>9
<1> QED
  BY <1>2, <1>3

LEMMA TakenTyped ==
  ASSUME Typed, TakersOver, NEW p
  PROVE  Taken(p) \in Int
<1> DEFINE f == [r \in Takers(p) |-> call[r].n]
<1>1. IsFiniteSet(Takers(p)) /\ \A r \in Takers(p) : f[r] \in Int
  BY TakersFinite
<1>2. DOMAIN f = Takers(p)
  OBVIOUS
<1>3. Taken(p) = SumFunctionOnSet(f, Takers(p))
  BY <1>2 DEF Taken, SumFunction
<1> HIDE DEF f
<1> QED
  BY <1>1, <1>3, SumTyped

(* A request takes stock: its copy was right unless it overlapped a taker.  *)
LEMMA TakeStep ==
  ASSUME StockInv, Typed', Frame, NEW q \in Reqs,
         pc[q] = "stock", pc'[q] = "done", taken' = taken \cup {q},
         stock' = [stock EXCEPT ![call[q].product] = copy[q] - call[q].n],
         \A r \in Reqs : pc[r] # "idle" => copy'[r] = copy[r],
         \A r \in Reqs : pc[r] = "idle" => call'[r].op # "add"
  PROVE  Accounted' /\ CopyFresh'
<1> Typed /\ BeforeOver /\ TakersOver /\ Accounted /\ CopyFresh
  BY DEF StockInv
<1>1. call[q].op = "add" /\ call'[q] = call[q] /\ ~Over(q) /\ q \notin taken
  BY DEF Typed, Shape, Fits, Frame, RequestFrame, TakersOver, Over
<1>2. call[q].product \in Products /\ call[q].n \in Int
  BY <1>1, AddsProduct DEF Typed
<1>3. stock \in [Products -> Int] /\ InitialStock \in Int
  BY StockAssumption DEF Typed, CartTypes
<1>4. Accounted'
  <2> SUFFICES ASSUME NEW p \in Products, Calm(p)' PROVE stock'[p] = InitialStock - Taken(p)'
    BY DEF Accounted
  <2>1. Takers(p) \subseteq Takers(p)' /\ Takers(p) \subseteq Reqs
    BY <1>1, OneMoreTaker, TakersFinite
  <2>2. Calm(p)
    BY <2>1, OverlapStays DEF Calm
  <2>3. stock[p] = InitialStock - Taken(p) /\ Taken(p) \in Int
    BY <2>2, TakenTyped DEF Accounted
  <2>4. CASE call[q].product # p
    BY <1>1, <1>3, <2>3, <2>4, OneMoreTaker
  <2>5. CASE call[q].product = p
    <3>1. q \in Takers(p)' /\ Taken(p)' = call[q].n + Taken(p)
      BY <1>1, <2>5, OneMoreTaker
    <3>2. \A s \in Takers(p) : ~Overlap(q, s)
      BY <2>1, <3>1, OverlapStays DEF Calm
    <3>3. copy[q] = stock[p]
      BY <1>1, <2>5, <3>2 DEF CopyFresh
    <3>4. stock'[p] = copy[q] - call[q].n
      BY <1>3, <2>5
    <3> QED
      BY <1>2, <1>3, <2>3, <3>1, <3>3, <3>4
  <2> QED
    BY <2>4, <2>5
<1>5. CopyFresh'
  <2> SUFFICES ASSUME NEW r \in Reqs, call'[r].op = "add", ~Over(r)', NEW p, p = call'[r].product
               PROVE  copy'[r] = stock'[p] \/ \E s \in Takers(p)' : Overlap(r, s)'
    BY DEF CopyFresh
  <2>1. pc[r] # "idle" /\ call'[r] = call[r] /\ copy'[r] = copy[r] /\ ~Over(r) /\ r # q
    BY DEF Frame, RequestFrame, Over
  <2>2. p \in Products
    BY <2>1, AddsProduct DEF Typed
  <2>3. CASE p = call[q].product
    <3>1. Overlap(r, q)'
      BY <1>1, <2>1, BothUnderway, OverlapStays
    <3>2. q \in Takers(p)'
      BY <1>1, <2>2, <2>3, OneMoreTaker
    <3> QED
      BY <3>1, <3>2
  <2>4. CASE p # call[q].product
    <3>1. stock'[p] = stock[p]
      BY <1>3, <2>2, <2>4
    <3>2. Takers(p)' = Takers(p) /\ Takers(p) \subseteq Reqs
      BY <1>1, <2>2, <2>4, OneMoreTaker, TakersFinite
    <3>3. copy[r] = stock[p] \/ \E s \in Takers(p) : Overlap(r, s)
      BY <2>1 DEF CopyFresh
    <3> QED
      BY <2>1, <3>1, <3>2, <3>3, OverlapStays
  <2> QED
    BY <2>3, <2>4
<1> QED
  BY <1>4, <1>5

LEMMA NoTakeStep ==
  ASSUME StockInv, Typed', Frame, StockFrame, UNCHANGED <<stock, taken>>
  PROVE  Accounted' /\ CopyFresh'
<1> Typed /\ BeforeOver /\ TakersOver /\ Accounted /\ CopyFresh
  BY DEF StockInv
<1>1. \A p \in Products : Takers(p) \subseteq Reqs /\ Takers(p)' = Takers(p) /\ Taken(p)' = Taken(p)
  BY QuietTakers, TakersFinite
<1>2. Accounted'
  <2> SUFFICES ASSUME NEW p \in Products, Calm(p)' PROVE stock[p] = InitialStock - Taken(p)
    BY <1>1 DEF Accounted
  <2> QED
    BY <1>1, OverlapStays DEF Calm, Accounted
<1>3. CopyFresh'
  <2> SUFFICES ASSUME NEW r \in Reqs, call'[r].op = "add", ~Over(r)', NEW p, p = call'[r].product
               PROVE  copy'[r] = stock[p] \/ \E s \in Takers(p)' : Overlap(r, s)'
    BY DEF CopyFresh
  <2>1. CASE pc[r] = "idle"
    BY <2>1 DEF StockFrame
  <2>2. CASE pc[r] # "idle"
    <3>1. call'[r] = call[r] /\ copy'[r] = copy[r] /\ ~Over(r)
      BY <2>2 DEF Frame, RequestFrame, StockFrame, Over
    <3>2. p \in Products
      BY <3>1, AddsProduct DEF Typed
    <3>3. copy[r] = stock[p] \/ \E s \in Takers(p) : Overlap(r, s)
      BY <3>1 DEF CopyFresh
    <3> QED
      BY <1>1, <3>1, <3>2, <3>3, OverlapStays
  <2> QED
    BY <2>1, <2>2
<1> QED
  BY <1>2, <1>3

LEMMA StockInit == Init => StockInv
<1> SUFFICES ASSUME Init PROVE StockInv
  OBVIOUS
<1>1. Typed /\ BeforeOver
  BY GoneInit DEF GoneInv
<1>2. taken = {} /\ \A r \in Reqs : call[r] = NoCall
  BY DEF Init, RequestsInit
<1>3. TakersOver /\ CopyFresh
  BY <1>2, FS_EmptySet DEF TakersOver, CopyFresh, NoCall
<1>4. ASSUME NEW p \in Products PROVE stock[p] = InitialStock - Taken(p)
  <2>1. Takers(p) = {}
    BY <1>2 DEF Takers
  <2>2. DOMAIN [r \in Takers(p) |-> call[r].n] = {}
    BY <2>1
  <2>3. Taken(p) = 0
    BY <2>2, SumEmpty DEF Taken, SumFunction
  <2> QED
    BY <2>3, StockAssumption DEF Init
<1> QED
  BY <1>1, <1>3, <1>4 DEF StockInv, Accounted

LEMMA StockStep == StockInv /\ [Next]_vars => StockInv'
<1> SUFFICES ASSUME StockInv, [Next]_vars PROVE StockInv'
  OBVIOUS
<1> Typed /\ BeforeOver /\ TakersOver
  BY DEF StockInv
<1>1. Typed' /\ Frame /\ StockFrame /\ BeforeOver'
  BY TypedStep, NextFrame, NextStock, BeforeOverStep
<1>2. CASE UNCHANGED <<stock, taken>>
  <2>1. TakersOver'
    BY <1>1, <1>2, TakersKept DEF TakersOver, Frame, RequestFrame, Over
  <2> QED
    BY <1>1, <1>2, <2>1, NoTakeStep DEF StockInv
<1>3. CASE ~UNCHANGED <<stock, taken>>
  <2>1. PICK q \in Reqs :
          /\ pc[q] = "stock" /\ pc'[q] = "done" /\ taken' = taken \cup {q}
          /\ stock' = [stock EXCEPT ![call[q].product] = copy[q] - call[q].n]
    BY <1>1, <1>3 DEF StockFrame
  <2>2. Accounted' /\ CopyFresh'
    BY <1>1, <1>3, <2>1, TakeStep DEF StockFrame
  <2>3. call'[q].op = "add"
    BY <1>1, <2>1 DEF Typed, Shape, Fits, Frame, RequestFrame
  <2>4. \A r \in taken : Over(r)' /\ call'[r].op = "add"
    BY <1>1, TakersKept DEF TakersOver, Frame, RequestFrame, Over
  <2>5. IsFiniteSet(taken \cup {q})
    BY FS_AddElement DEF TakersOver
  <2> QED
    BY <1>1, <2>1, <2>2, <2>3, <2>4, <2>5 DEF StockInv, TakersOver, Over
<1> QED
  BY <1>2, <1>3

(* The stock of a product is what it was less what the requests have taken,  *)
(* unless two that took of it overlapped, for any number of requests,        *)
(* products and mishaps.                                                     *)
THEOREM StockHolds == Spec => []StockAccounted
<1>1. StockInv => StockAccounted
  BY DEF StockInv, Accounted, Calm, Taken, Takers, StockAccounted
<1> QED
  BY <1>1, StockInit, StockStep, PTL DEF Spec

-----------------------------------------------------------------------------
(* The limit of a cart.                                                     *)

Early == {"idle", "cart", "create"}
Adding == {"item", "insert"}
Saving == {"load", "write", "reinsert"}

(* A request has no cart before it finds or creates one, and works on a row *)
(* of that cart.                                                            *)
PlaceFrame ==
  /\ \A q \in Reqs : pc'[q] \in Early => pc[q] \in Early /\ cart'[q] = cart[q]
  /\ \A q \in Reqs : row'[q] # row[q] => cart'[row'[q]] = cart'[q]

(* How a request q comes to the steps that lead to a save, or goes on       *)
(* there, if no quantity changes.                                           *)
Moves(q) ==
  /\ pc'[q] \in Adding =>
       \/ pc[q] \in Adding
       \/ /\ pc[q] = "total" /\ UNCHANGED items
          /\ WithinLimit(FindCartItemsByCartId(cart[q]), call[q].n)
  /\ pc'[q] \in Saving =>
       \/ pc[q] \in Saving /\ want'[q] = want[q] /\ row'[q] = row[q]
       \/ /\ pc[q] = "item" /\ UNCHANGED items /\ row'[q] \in FindCartItemsByCartId(cart[q])
          /\ want'[q] = qty[row'[q]] + call[q].n
       \/ /\ pc[q] = "others" /\ UNCHANGED items /\ row'[q] = row[q] /\ want'[q] = call[q].n
          /\ WithinLimit(FindCartItemsByCartId(cart[q]) \ {row[q]}, call[q].n)
       \/ /\ pc[q] = "idle" /\ UNCHANGED items /\ row'[q] \in FindCartItemsByCartId(cart'[q])
          /\ want'[q] = qty[row'[q]]

(* Request r gives its row the quantity it saves.                           *)
Puts(r) ==
  /\ \A q \in Reqs : q # r => pc'[q] = pc[q] /\ want'[q] = want[q] /\ row'[q] = row[q]
  /\ UNCHANGED cart
  /\ row'[r] \in Reqs /\ items' = items \cup {row'[r]} /\ qty' = [qty EXCEPT ![row'[r]] = want'[r]]
  /\ \/ /\ pc[r] = "insert" /\ pc'[r] = "load"
        /\ row'[r] = r /\ want'[r] = call[r].n
     \/ /\ pc[r] \in {"write", "reinsert"} /\ pc'[r] \notin Adding \cup Saving
        /\ row'[r] = row[r] /\ want'[r] = want[r]

Quiet == items' \subseteq items /\ qty' = qty /\ \A q \in Reqs : Moves(q)

LimitFrame == PlaceFrame /\ (Quiet \/ \E r \in Reqs : Puts(r))

LEMMA ArrivalsLimit ==
  ASSUME Typed, RowsOwn, NEW r \in Reqs,
         \/ CreateCart(r) \/ GetCartByUserId(r) \/ AddFindProduct(r)
         \/ UpdateFindItem(r) \/ DeleteFindItem(r) \/ CheckoutReadCart(r)
  PROVE  LimitFrame
<1> USE NoRowAssumption DEF tables, local, cartVars
<1>1. /\ pc \in [Reqs -> Steps] /\ items \subseteq Reqs /\ cart \in [Reqs -> Reqs \cup {NoRow}]
      /\ row \in [Reqs -> Reqs \cup {NoRow}] /\ want \in [Reqs -> Int]
  BY DEF Typed, RequestTypes, CartTypes
<1>2. PICK l \in {"done", "create", "cart", "others", "load", "remove", "clear"} :
        /\ pc[r] = "idle" /\ pc' = [pc EXCEPT ![r] = l]
        /\ UNCHANGED <<items, qty>>
        /\ l \in Early => cart' = cart
        /\ l = "load" => UpdateFindItem(r)
  BY DEF CreateCart, GetCartByUserId, AddFindProduct, UpdateFindItem, DeleteFindItem,
         CheckoutReadCart, Arrive, Early
<1>3. \A q \in Reqs : q # r =>
        pc'[q] = pc[q] /\ cart'[q] = cart[q] /\ row'[q] = row[q] /\ want'[q] = want[q]
  BY <1>1, <1>2 DEF CreateCart, GetCartByUserId, AddFindProduct, UpdateFindItem, DeleteFindItem,
         CheckoutReadCart
<1>4. ASSUME UpdateFindItem(r)
      PROVE  /\ row'[r] \in FindCartItemsByCartId(cart'[r]) /\ want'[r] = qty[row'[r]]
             /\ cart'[row'[r]] = cart'[r]
  <2>1. PICK i \in items : row'[r] = i /\ cart'[r] = cart[i] /\ want'[r] = qty[i]
    BY <1>1, <1>4 DEF UpdateFindItem
  <2>2. i # r
    BY <1>2, <2>1 DEF RowsOwn, Typed, Shape, NoRowYet
  <2> QED
    BY <1>1, <1>3, <2>1, <2>2 DEF FindCartItemsByCartId
<1>5. row'[r] # row[r] => cart'[row'[r]] = cart'[r]
  BY <1>4 DEF CreateCart, GetCartByUserId, AddFindProduct, DeleteFindItem, CheckoutReadCart
<1>6. PlaceFrame
  BY <1>1, <1>2, <1>3, <1>5 DEF PlaceFrame, Early
<1>7. pc'[r] \notin Adding /\ (pc'[r] \in Saving => UpdateFindItem(r))
  BY <1>1, <1>2 DEF Adding, Saving
<1>8. \A q \in Reqs : Moves(q)
  BY <1>2, <1>3, <1>4, <1>7 DEF Moves
<1> QED
  BY <1>2, <1>6, <1>8 DEF LimitFrame, Quiet

LEMMA StepsPlace ==
  ASSUME Typed, NEW r \in Reqs,
         \/ CreateMissingCart(r) \/ AddFindCart(r) \/ AddCheckTotal(r) \/ AddFindItem(r)
         \/ CreateCartItem(r) \/ UpdateProductStock(r)
         \/ SaveReads(r) \/ SaveUpdates(r) \/ SaveInserts(r) \/ UpdateCheckTotal(r)
         \/ DeleteCartItem(r) \/ CheckoutRefused(r) \/ ClearUserCart(r)
  PROVE  /\ PlaceFrame
         /\ \A q \in Reqs : q # r =>
              pc'[q] = pc[q] /\ want'[q] = want[q] /\ row'[q] = row[q]
<1> USE DEF tables, local, cartVars
<1>1. /\ pc \in [Reqs -> Steps] /\ items \subseteq Reqs /\ cart \in [Reqs -> Reqs \cup {NoRow}]
      /\ row \in [Reqs -> Reqs \cup {NoRow}] /\ want \in [Reqs -> Int]
  BY DEF Typed, RequestTypes, CartTypes
<1>2. \A q \in Reqs : q # r => pc'[q] = pc[q] /\ want'[q] = want[q] /\ row'[q] = row[q] /\ cart'[q] = cart[q]
  BY <1>1 DEF CreateMissingCart, AddFindCart, AddCheckTotal, AddFindItem, CreateCartItem,
         UpdateProductStock, SaveReads, SaveUpdates, SaveInserts, UpdateCheckTotal,
         DeleteCartItem, CheckoutRefused, ClearUserCart, Goto, Refuse
<1>3. pc'[r] \in Early => pc[r] \in Early /\ cart'[r] = cart[r]
  BY <1>1 DEF CreateMissingCart, AddFindCart, AddCheckTotal, AddFindItem, CreateCartItem,
         UpdateProductStock, SaveReads, SaveUpdates, SaveInserts, UpdateCheckTotal,
         DeleteCartItem, CheckoutRefused, ClearUserCart, Goto, Refuse, Early, AfterSave
<1>4. row'[r] # row[r] => cart'[row'[r]] = cart'[r]
  <2>1. CASE AddFindItem(r)
    BY <1>1, <2>1 DEF AddFindItem, FindCartItem, FindCartItemsByCartId
  <2>2. CASE CreateCartItem(r)
    BY <1>1, <2>2 DEF CreateCartItem
  <2> QED
    BY <2>1, <2>2 DEF CreateMissingCart, AddFindCart, AddCheckTotal, UpdateProductStock,
       SaveReads, SaveUpdates, SaveInserts, UpdateCheckTotal, DeleteCartItem,
       CheckoutRefused, ClearUserCart
<1> QED
  BY <1>2, <1>3, <1>4 DEF PlaceFrame

LEMMA StepsLimit ==
  ASSUME Typed, NEW r \in Reqs,
         \/ CreateMissingCart(r) \/ AddFindCart(r) \/ AddCheckTotal(r) \/ AddFindItem(r)
         \/ CreateCartItem(r) \/ UpdateProductStock(r)
         \/ SaveReads(r) \/ SaveUpdates(r) \/ SaveInserts(r) \/ UpdateCheckTotal(r)
         \/ DeleteCartItem(r) \/ CheckoutRefused(r) \/ ClearUserCart(r)
  PROVE  LimitFrame
<1> USE DEF tables, local, cartVars
<1>1. /\ pc \in [Reqs -> Steps] /\ items \subseteq Reqs /\ cart \in [Reqs -> Reqs \cup {NoRow}]
      /\ row \in [Reqs -> Reqs \cup {NoRow}] /\ want \in [Reqs -> Int]
  BY DEF Typed, RequestTypes, CartTypes
<1>2. /\ PlaceFrame
      /\ \A q \in Reqs : q # r => pc'[q] = pc[q] /\ want'[q] = want[q] /\ row'[q] = row[q]
  BY StepsPlace
<1>3. ASSUME items' \subseteq items, qty' = qty, Moves(r)
      PROVE  Quiet
  BY <1>2, <1>3 DEF Quiet, Moves
<1>5. CASE CreateMissingCart(r) \/ AddFindCart(r) \/ DeleteCartItem(r) \/ CheckoutRefused(r)
           \/ ClearUserCart(r) \/ UpdateProductStock(r)
  <2>1. /\ items' \subseteq items /\ qty' = qty /\ pc'[r] \notin Adding \cup Saving
    BY <1>1, <1>5 DEF CreateMissingCart, AddFindCart, DeleteCartItem, CheckoutRefused,
          ClearUserCart, UpdateProductStock, Goto, Adding, Saving
  <2> QED
    BY <1>2, <1>3, <2>1 DEF Moves, LimitFrame
<1>6. CASE AddCheckTotal(r)
  <2>1. UNCHANGED <<items, qty>> /\ Moves(r)
    BY <1>1, <1>6 DEF AddCheckTotal, Goto, Moves, Adding, Saving
  <2> QED
    BY <1>2, <1>3, <2>1 DEF LimitFrame
<1>7. CASE AddFindItem(r)
  <2>1. UNCHANGED <<items, qty>>
    BY <1>7 DEF AddFindItem
  <2>2. CASE Goto(r, "insert")
    BY <1>1, <1>2, <1>3, <1>7, <2>1, <2>2 DEF AddFindItem, Goto, Moves, Adding, Saving, LimitFrame
  <2>3. ASSUME NEW i \in FindCartItem(cart[r], call[r].product),
               row' = [row EXCEPT ![r] = i],
               want' = [want EXCEPT ![r] = qty[i] + call[r].n], Goto(r, "load")
        PROVE  Moves(r)
    <3>1. i \in FindCartItemsByCartId(cart[r]) /\ row'[r] = i /\ want'[r] = qty[i] + call[r].n
      BY <1>1, <2>3 DEF FindCartItem
    <3> QED
      BY <1>1, <1>7, <2>1, <2>3, <3>1 DEF AddFindItem, Goto, Moves, Adding, Saving
  <2> QED
    BY <1>2, <1>3, <1>7, <2>1, <2>2, <2>3 DEF AddFindItem, LimitFrame
<1>8. CASE CreateCartItem(r)
  <2>1. CASE Refuse(r) /\ UNCHANGED <<items, qty, row, want>>
    <3>1. pc'[r] \notin Adding \cup Saving
      BY <1>1, <2>1 DEF Refuse, Adding, Saving
    <3> QED
      BY <1>2, <1>3, <2>1, <3>1 DEF Moves, LimitFrame
  <2>2. CASE ~(Refuse(r) /\ UNCHANGED <<items, qty, row, want>>)
    <3>1. /\ items' = items \cup {r} /\ qty' = [qty EXCEPT ![r] = call[r].n]
          /\ row'[r] = r /\ want'[r] = call[r].n /\ pc[r] = "insert" /\ pc'[r] = "load" /\ cart' = cart
      BY <1>1, <1>8, <2>2 DEF CreateCartItem, Goto
    <3>2. Puts(r)
      BY <1>2, <3>1 DEF Puts
    <3> QED
      BY <1>2, <3>2 DEF LimitFrame
  <2> QED
    BY <2>1, <2>2
<1>9. CASE SaveReads(r)
  <2>1. /\ UNCHANGED <<items, qty, want, row>> /\ pc[r] \in Saving /\ pc'[r] \notin Adding
    BY <1>1, <1>9 DEF SaveReads, AfterSave, Goto, Adding, Saving
  <2> QED
    BY <1>2, <1>3, <2>1 DEF Moves, LimitFrame
<1>10. CASE SaveUpdates(r) \/ SaveInserts(r)
  <2>1. /\ UNCHANGED <<want, row, cart>> /\ pc[r] \in {"write", "reinsert"}
        /\ pc'[r] \notin Adding \cup Saving
    BY <1>1, <1>10 DEF SaveUpdates, SaveInserts, AfterSave, Goto, Refuse, Adding, Saving
  <2>2. row[r] \in Reqs
    BY <2>1 DEF Typed, Shape, NeedsRow
  <2>3. \/ UNCHANGED <<items, qty>>
        \/ items' = items \cup {row[r]} /\ qty' = [qty EXCEPT ![row[r]] = want[r]]
    BY <1>10 DEF SaveUpdates, SaveInserts
  <2>4. CASE UNCHANGED <<items, qty>>
    BY <1>2, <1>3, <2>1, <2>4 DEF Moves, LimitFrame
  <2>5. CASE items' = items \cup {row[r]} /\ qty' = [qty EXCEPT ![row[r]] = want[r]]
    <3>1. Puts(r)
      BY <1>2, <2>1, <2>2, <2>5 DEF Puts
    <3> QED
      BY <1>2, <3>1 DEF LimitFrame
  <2> QED
    BY <2>3, <2>4, <2>5
<1>11. CASE UpdateCheckTotal(r)
  <2>1. UNCHANGED <<items, qty>> /\ Moves(r)
    BY <1>1, <1>11 DEF UpdateCheckTotal, Goto, Moves, Adding, Saving
  <2> QED
    BY <1>2, <1>3, <2>1 DEF LimitFrame
<1> QED
  BY <1>5, <1>6, <1>7, <1>8, <1>9, <1>10, <1>11

LEMMA NextLimit == Typed /\ RowsOwn /\ [Next]_vars => LimitFrame
<1> SUFFICES ASSUME Typed, RowsOwn, [Next]_vars PROVE LimitFrame
  OBVIOUS
<1>1. CASE UNCHANGED vars \/ Mishap
  <2>1. UNCHANGED cartVars /\ \A q \in Reqs : pc'[q] \in {pc[q], "done"}
    BY <1>1 DEF vars, requestVars, Mishap, Die, Throw, Typed, RequestTypes
  <2>2. PlaceFrame
    BY <2>1 DEF PlaceFrame, Early, cartVars, tables, local
  <2>3. Quiet
    BY <2>1 DEF Quiet, Moves, Adding, Saving, cartVars, tables, local
  <2> QED
    BY <2>2, <2>3 DEF LimitFrame
<1>2. ASSUME NEW r \in Reqs,
             \/ CreateCart(r) \/ GetCartByUserId(r) \/ CreateMissingCart(r)
             \/ AddFindProduct(r) \/ AddFindCart(r) \/ AddCheckTotal(r) \/ AddFindItem(r)
             \/ CreateCartItem(r) \/ UpdateProductStock(r)
             \/ SaveReads(r) \/ SaveUpdates(r) \/ SaveInserts(r)
             \/ UpdateFindItem(r) \/ UpdateCheckTotal(r)
             \/ DeleteFindItem(r) \/ DeleteCartItem(r)
             \/ CheckoutReadCart(r) \/ CheckoutRefused(r) \/ ClearUserCart(r)
      PROVE  LimitFrame
  BY <1>2, ArrivalsLimit, StepsLimit
<1> QED
  BY <1>1, <1>2 DEF Next, Stop

SavesIn(r, c) == Saves(r) /\ cart[r] = c

(* Nobody asked for a negative quantity, and no two that save overlapped.   *)
CalmCart(c) ==
  /\ \A r \in Reqs : SavesIn(r, c) => ~TakesOut(r)
  /\ \A r, s \in Reqs : SavesIn(r, c) /\ SavesIn(s, c) => ~Overlap(r, s)

(* What request r is about to save has room in the cart.                    *)
Room(r) ==
  /\ pc[r] \in Adding => WithinLimit(FindCartItemsByCartId(cart[r]), call[r].n)
  /\ pc[r] \in Saving =>
       want[r] \in Nat /\ WithinLimit(FindCartItemsByCartId(cart[r]) \ {row[r]}, want[r])

Placed ==
  /\ \A r \in Reqs : pc[r] \in Early => cart[r] = NoRow
  /\ \A r \in Reqs : row[r] # NoRow => cart[row[r]] = cart[r]

(* While a cart is calm no item has a negative quantity, all are within the *)
(* limit, and will be when the request that is under way has saved.         *)
WithinLimits ==
  \A c \in Reqs : CalmCart(c) =>
    /\ \A i \in FindCartItemsByCartId(c) : qty[i] \in Nat
    /\ WithinLimit(FindCartItemsByCartId(c), 0)
    /\ \A r \in Reqs : SavesIn(r, c) => Room(r)

LimitInv == GoneInv /\ Placed /\ IsFiniteSet(items) /\ WithinLimits

LEMMA PlacedStep ==
  ASSUME GoneInv, Typed', Placed, Frame, ProductFrame, PlaceFrame
  PROVE  Placed'
<1> USE NoRowAssumption
<1> Typed /\ RowsOwn
  BY DEF GoneInv
<1>1. \A r \in Reqs : pc'[r] \in Early => cart'[r] = NoRow
  BY DEF Placed, PlaceFrame
<1>2. ASSUME NEW r \in Reqs, row'[r] # NoRow PROVE cart'[row'[r]] = cart'[r]
  <2>1. CASE row'[r] # row[r]
    BY <2>1 DEF PlaceFrame
  <2>2. CASE row'[r] = row[r]
    <3>1. row[r] \in Reqs /\ row[row[r]] = row[r] /\ cart[row[r]] = cart[r]
      BY <1>2, <2>2 DEF Typed, CartTypes, RowsOwn, Placed
    <3>2. cart'[r] = cart[r] /\ cart'[row[r]] = cart[row[r]]
      BY <1>2, <2>2, <3>1 DEF Typed, Shape, NoRowYet, ProductFrame
    <3> QED
      BY <2>2, <3>1, <3>2
  <2> QED
    BY <2>1, <2>2
<1> QED
  BY <1>1, <1>2 DEF Placed

(* Which items a cart has does not change but by items that come or go.     *)
LEMMA ItemsKeepCart ==
  ASSUME Typed, RowsOwn, ProductFrame
  PROVE  \A i \in items : i \in Reqs /\ cart'[i] = cart[i]
  BY NoRowAssumption DEF Typed, CartTypes, RowsOwn, Shape, NoRowYet, ProductFrame

LEMMA CalmBefore ==
  ASSUME Typed, Placed, Frame, ProductFrame, NEW c \in Reqs, CalmCart(c)'
  PROVE  CalmCart(c)
<1> USE NoRowAssumption
<1>1. \A q \in Reqs : SavesIn(q, c) => SavesIn(q, c)' /\ call'[q] = call[q]
  BY DEF SavesIn, Saves, Placed, Early, ProductFrame, Typed, Shape, Fits, Frame, RequestFrame
<1>2. \A q \in Reqs : SavesIn(q, c) => ~TakesOut(q)
  BY <1>1 DEF CalmCart, TakesOut
<1>3. ASSUME NEW r \in Reqs, NEW s \in Reqs, SavesIn(r, c), SavesIn(s, c), Overlap(r, s)
      PROVE  FALSE
  <2>1. Overlap(r, s)'
    BY <1>3, OverlapStays
  <2> QED
    BY <1>1, <1>3, <2>1 DEF CalmCart
<1> QED
  BY <1>2, <1>3 DEF CalmCart

(* What is asked of a calm cart is a natural number.                        *)
LEMMA CalmQuantity ==
  ASSUME Typed, NEW c, CalmCart(c), NEW r \in Reqs, SavesIn(r, c), call[r].op \in {"add", "update"}
  PROVE  call[r].n \in Nat
  BY AddsProduct, UpdateQuantity DEF Typed, CalmCart, TakesOut

LEMMA SavesInBefore ==
  ASSUME Typed, Frame, ProductFrame, NEW q \in Reqs, NEW c, SavesIn(q, c)', pc[q] \notin Early
  PROVE  SavesIn(q, c) /\ call'[q] = call[q] /\ cart'[q] = cart[q]
  BY DEF SavesIn, Saves, Early, ProductFrame, Frame, RequestFrame

LEMMA CartSums ==
  ASSUME Typed, IsFiniteSet(items), NEW c
  PROVE  /\ IsFiniteSet(FindCartItemsByCartId(c)) /\ FindCartItemsByCartId(c) \subseteq Reqs
         /\ \A i \in FindCartItemsByCartId(c) : qty[i] \in Int
<1>1. FindCartItemsByCartId(c) \subseteq items /\ items \subseteq Reqs /\ qty \in [Reqs -> Int]
  BY DEF FindCartItemsByCartId, Typed, CartTypes
<1> QED
  BY <1>1, FS_Subset

(* Less has room where more has.                                            *)
LEMMA LessHasRoom ==
  ASSUME NEW f, NEW S, IsFiniteSet(S), \A i \in S : f[i] \in Nat, NEW T \in SUBSET S,
         NEW n \in Nat, SumFunctionOnSet(f, S) + n <= MAX_CART_ITEM_QUANTITY
  PROVE  SumFunctionOnSet(f, T) + n <= MAX_CART_ITEM_QUANTITY
<1>1. IsFiniteSet(T) /\ \A i \in T : f[i] \in Nat
  BY FS_Subset
<1> QED
  BY <1>1, SumPart, SumCounts DEF MAX_CART_ITEM_QUANTITY

LEMMA QuietStep ==
  ASSUME LimitInv, Typed', Frame, ProductFrame, Quiet
  PROVE  WithinLimits'
<1> Typed /\ RowsOwn /\ BeforeOver /\ Placed /\ IsFiniteSet(items) /\ WithinLimits
  BY DEF LimitInv, GoneInv
<1>1. items' \subseteq items /\ qty' = qty /\ \A q \in Reqs : Moves(q)
  BY DEF Quiet
<1> SUFFICES ASSUME NEW c \in Reqs, CalmCart(c)'
             PROVE  /\ \A i \in FindCartItemsByCartId(c)' : qty'[i] \in Nat
                    /\ WithinLimit(FindCartItemsByCartId(c), 0)'
                    /\ \A r \in Reqs : SavesIn(r, c)' => Room(r)'
  BY DEF WithinLimits
<1> DEFINE S == FindCartItemsByCartId(c)
           FitsIn(T, n) == SumFunctionOnSet(qty, T) + n <= MAX_CART_ITEM_QUANTITY
<1>2. CalmCart(c)
  BY CalmBefore
<1>3. S' \subseteq S
  BY <1>1, ItemsKeepCart DEF FindCartItemsByCartId
<1>4. IsFiniteSet(S) /\ \A i \in S : qty[i] \in Nat
  BY <1>2, CartSums DEF WithinLimits
<1>5. \A T \in SUBSET S : IsFiniteSet(T) /\ \A i \in T : qty[i] \in Nat
  BY <1>4, FS_Subset
<1>6. ASSUME NEW T \in SUBSET S, NEW U \in SUBSET T, NEW n \in Nat, FitsIn(T, n)
      PROVE  FitsIn(U, n)
  BY <1>5, <1>6, LessHasRoom
<1>7. FitsIn(S', 0)
  BY <1>2, <1>3, <1>6 DEF WithinLimits, WithinLimit, TotalQuantity
<1>8. WithinLimit(FindCartItemsByCartId(c), 0)'
  BY <1>1, <1>7 DEF WithinLimit, TotalQuantity
<1>9. ASSUME NEW r \in Reqs, SavesIn(r, c)' PROVE Room(r)'
  <2>1. cart'[r] = c /\ Moves(r)
    BY <1>1, <1>9 DEF SavesIn
  <2>2. CASE pc'[r] \in Adding
    <3>1. pc[r] \notin Early /\ pc[r] # "idle"
      BY <2>1, <2>2 DEF Moves, Adding, Early
    <3>2. SavesIn(r, c) /\ call'[r] = call[r] /\ cart[r] = c
      BY <1>9, <3>1, SavesInBefore DEF SavesIn
    <3>3. call[r].op = "add"
      BY <2>1, <2>2 DEF Moves, Adding, Typed, Shape, Fits
    <3>4. call[r].n \in Nat
      BY <1>2, <3>2, <3>3, CalmQuantity
    <3>5. FitsIn(S, call[r].n)
      BY <1>2, <2>1, <2>2, <3>2 DEF Moves, WithinLimits, Room, WithinLimit, TotalQuantity
    <3>6. FitsIn(S', call[r].n)
      BY <1>3, <1>6, <3>4, <3>5
    <3>7. pc'[r] \notin Saving
      BY <2>2 DEF Adding, Saving
    <3> QED
      BY <1>1, <2>1, <3>2, <3>6, <3>7 DEF Room, WithinLimit, TotalQuantity
  <2>3. CASE pc'[r] \in Saving
    <3>1. pc[r] # "idle" => SavesIn(r, c) /\ call'[r] = call[r] /\ cart[r] = c
      <4>1. pc[r] # "idle" => pc[r] \notin Early
        BY <2>1, <2>3 DEF Moves, Saving, Early
      <4> QED
        BY <1>9, <4>1, SavesInBefore DEF SavesIn
    <3>2. FitsIn(S, 0)
      BY <1>2 DEF WithinLimits, WithinLimit, TotalQuantity
    <3>3. want'[r] \in Nat /\ FitsIn(S \ {row'[r]}, want'[r])
      <4>1. CASE pc[r] \in Saving /\ want'[r] = want[r] /\ row'[r] = row[r]
        BY <1>2, <3>1, <4>1 DEF Saving, WithinLimits, Room, WithinLimit, TotalQuantity
      <4>2. CASE /\ pc[r] = "item" /\ row'[r] \in FindCartItemsByCartId(cart[r])
                 /\ want'[r] = qty[row'[r]] + call[r].n
        <5>1. FitsIn(S, call[r].n)
          BY <1>2, <3>1, <4>2 DEF WithinLimits, Room, Adding, WithinLimit, TotalQuantity
        <5>2. row'[r] \in S /\ call[r].op = "add"
          BY <3>1, <4>2 DEF Typed, Shape, Fits
        <5>3. call[r].n \in Nat
          BY <1>2, <3>1, <4>2, <5>2, CalmQuantity
        <5>4. SumFunctionOnSet(qty, S) = qty[row'[r]] + SumFunctionOnSet(qty, S \ {row'[r]})
          BY <1>4, <5>2, SumWithout
        <5>5. SumFunctionOnSet(qty, S \ {row'[r]}) \in Nat /\ qty[row'[r]] \in Nat
          BY <1>4, <1>5, <5>2, SumCounts
        <5> QED
          BY <4>2, <5>1, <5>3, <5>4, <5>5 DEF MAX_CART_ITEM_QUANTITY
      <4>3. CASE /\ pc[r] = "others" /\ row'[r] = row[r] /\ want'[r] = call[r].n
                 /\ WithinLimit(FindCartItemsByCartId(cart[r]) \ {row[r]}, call[r].n)
        <5>1. call[r].op = "update"
          BY <4>3 DEF Typed, Shape, Fits
        <5>2. call[r].n \in Nat
          BY <5>1, UpdateQuantity DEF Typed
        <5> QED
          BY <3>1, <4>3, <5>2 DEF WithinLimit, TotalQuantity
      <4>4. CASE row'[r] \in FindCartItemsByCartId(cart'[r]) /\ want'[r] = qty[row'[r]]
        <5>1. row'[r] \in S
          BY <2>1, <4>4
        <5>2. SumFunctionOnSet(qty, S) = qty[row'[r]] + SumFunctionOnSet(qty, S \ {row'[r]})
          BY <1>4, <5>1, SumWithout
        <5>3. SumFunctionOnSet(qty, S \ {row'[r]}) \in Nat /\ qty[row'[r]] \in Nat
          BY <1>4, <1>5, <5>1, SumCounts
        <5> QED
          BY <3>2, <4>4, <5>2, <5>3 DEF MAX_CART_ITEM_QUANTITY
      <4> QED
        BY <2>1, <2>3, <4>1, <4>2, <4>3, <4>4 DEF Moves
    <3>4. S \ {row'[r]} \in SUBSET S /\ S' \ {row'[r]} \in SUBSET (S \ {row'[r]})
      BY <1>3
    <3>5. FitsIn(S' \ {row'[r]}, want'[r])
      BY <1>6, <3>3, <3>4
    <3>6. pc'[r] \notin Adding
      BY <2>3 DEF Adding, Saving
    <3> QED
      BY <1>1, <2>1, <3>3, <3>5, <3>6 DEF Room, WithinLimit, TotalQuantity
  <2> QED
    BY <2>2, <2>3 DEF Room
<1>10. \A i \in S' : qty'[i] \in Nat
  BY <1>1, <1>3, <1>4
<1> QED
  BY <1>8, <1>9, <1>10

LEMMA PutStep ==
  ASSUME LimitInv, Typed', Placed', Frame, ProductFrame, NEW r \in Reqs, Puts(r)
  PROVE  WithinLimits'
<1> USE NoRowAssumption
<1> Typed /\ RowsOwn /\ BeforeOver /\ Placed /\ IsFiniteSet(items) /\ WithinLimits
  BY DEF LimitInv, GoneInv
<1> SUFFICES ASSUME NEW c \in Reqs, CalmCart(c)'
             PROVE  /\ \A j \in FindCartItemsByCartId(c)' : qty'[j] \in Nat
                    /\ WithinLimit(FindCartItemsByCartId(c), 0)'
                    /\ \A q \in Reqs : SavesIn(q, c)' => Room(q)'
  BY DEF WithinLimits
<1> DEFINE S == FindCartItemsByCartId(c)
           i == row'[r]
           R == S \ {i}
<1>1. /\ i \in Reqs /\ items' = items \cup {i} /\ qty' = [qty EXCEPT ![i] = want'[r]]
      /\ cart' = cart
      /\ \A q \in Reqs : q # r => pc'[q] = pc[q] /\ want'[q] = want[q] /\ row'[q] = row[q]
  BY DEF Puts
<1>2. CalmCart(c)
  BY CalmBefore
<1>3. cart[i] = cart[r]
  BY <1>1 DEF Placed
<1>4. /\ IsFiniteSet(S) /\ S \subseteq Reqs /\ \A j \in S : qty[j] \in Nat
      /\ qty \in [Reqs -> Int]
  BY <1>2, CartSums DEF WithinLimits, Typed, CartTypes
<1>5. Saves(r) /\ pc[r] \notin {"idle", "done"} /\ call'[r] = call[r] /\ SavesIn(r, cart[r])
  BY DEF Puts, Typed, Shape, Fits, Saves, Frame, RequestFrame, SavesIn
<1>6. CASE cart[r] # c
  <2>1. S' = S /\ i \notin S
    BY <1>1, <1>3, <1>6 DEF FindCartItemsByCartId
  <2>2. \A T \in SUBSET S : SumFunctionOnSet(qty', T) = SumFunctionOnSet(qty, T)
    <3> SUFFICES ASSUME NEW T \in SUBSET S PROVE SumFunctionOnSet(qty', T) = SumFunctionOnSet(qty, T)
      OBVIOUS
    <3>1. IsFiniteSet(T) /\ \A j \in T : qty[j] \in Nat /\ qty[j] = qty'[j]
      BY <1>1, <1>4, <2>1, FS_Subset
    <3> QED
      BY <3>1, SumSame
  <2>3. WithinLimit(FindCartItemsByCartId(c), 0)'
    BY <1>2, <2>1, <2>2 DEF WithinLimits, WithinLimit, TotalQuantity
  <2>4. ASSUME NEW q \in Reqs, SavesIn(q, c)', pc'[q] \in Adding \cup Saving PROVE Room(q)'
    <3>1. q # r /\ cart[q] = c
      BY <1>1, <1>6, <2>4 DEF SavesIn
    <3>2. pc'[q] = pc[q] /\ want'[q] = want[q] /\ row'[q] = row[q]
      BY <1>1, <3>1
    <3>3. SavesIn(q, c) /\ call'[q] = call[q]
      BY <2>4, <3>2, SavesInBefore DEF Adding, Saving, Early
    <3>4. Room(q)
      BY <1>2, <3>3 DEF WithinLimits
    <3>5. S \in SUBSET S /\ S \ {row[q]} \in SUBSET S
      OBVIOUS
    <3> QED
      BY <1>1, <2>1, <2>2, <3>1, <3>2, <3>3, <3>4, <3>5 DEF Room, WithinLimit, TotalQuantity
  <2>5. \A j \in S' : qty'[j] \in Nat
    BY <1>1, <1>4, <2>1
  <2> QED
    BY <2>3, <2>4, <2>5 DEF Room
<1>7. CASE cart[r] = c
  <2>0. want'[r] \in Nat
    <3>1. CASE pc[r] = "insert" /\ want'[r] = call[r].n
      <4>1. call[r].op = "add"
        BY <3>1 DEF Typed, Shape, Fits
      <4> QED
        BY <1>2, <1>5, <1>7, <3>1, <4>1, CalmQuantity
    <3>2. CASE pc[r] \in {"write", "reinsert"} /\ want'[r] = want[r]
      BY <1>2, <1>5, <1>7, <3>2 DEF WithinLimits, Room, Saving
    <3> QED
      BY <3>1, <3>2 DEF Puts
  <2>1. S' = S \cup {i} /\ i \in S' /\ S' \ {i} = R
    BY <1>1, <1>3, <1>7 DEF FindCartItemsByCartId
  <2>2. IsFiniteSet(S') /\ IsFiniteSet(R) /\ \A j \in S' : qty'[j] \in Nat
    BY <1>1, <1>4, <2>0, <2>1, FS_AddElement, FS_Subset
  <2>3. SumFunctionOnSet(qty', R) = SumFunctionOnSet(qty, R) /\ SumFunctionOnSet(qty, R) \in Nat
    <3>1. \A j \in R : qty[j] \in Nat /\ qty[j] = qty'[j]
      BY <1>1, <1>4
    <3> QED
      BY <2>2, <3>1, SumSame, SumCounts
  <2>4. SumFunctionOnSet(qty', S') = want'[r] + SumFunctionOnSet(qty, R)
    <3>1. PICK T, f : T = S' /\ f = qty'
      OBVIOUS
    <3>2. IsFiniteSet(T) /\ i \in T /\ T \ {i} = R /\ \A j \in T : f[j] \in Nat
      BY <2>1, <2>2, <3>1
    <3>3. SumFunctionOnSet(f, T) = f[i] + SumFunctionOnSet(f, R)
      BY <3>2, SumWithout
    <3>4. qty'[i] = want'[r]
      BY <1>1, <1>4
    <3> QED
      BY <2>3, <3>1, <3>3, <3>4
  <2>5. SumFunctionOnSet(qty, R) + want'[r] <= MAX_CART_ITEM_QUANTITY
    <3>1. Room(r)
      BY <1>2, <1>5, <1>7 DEF WithinLimits
    <3>2. CASE pc[r] = "insert" /\ i = r /\ want'[r] = call[r].n
      <4>1. r \notin S
        BY <3>2 DEF Typed, Shape, NoRowYet, RowsOwn, FindCartItemsByCartId
      <4>2. R = S
        BY <3>2, <4>1
      <4> QED
        BY <1>7, <3>1, <3>2, <4>2 DEF Room, Adding, WithinLimit, TotalQuantity
    <3>3. CASE pc[r] \in {"write", "reinsert"} /\ i = row[r] /\ want'[r] = want[r]
      BY <1>7, <3>1, <3>3 DEF Room, Saving, WithinLimit, TotalQuantity
    <3> QED
      BY <3>2, <3>3 DEF Puts
  <2>6. WithinLimit(FindCartItemsByCartId(c), 0)'
    BY <2>0, <2>3, <2>4, <2>5 DEF WithinLimit, TotalQuantity, MAX_CART_ITEM_QUANTITY
  <2>7. ASSUME NEW q \in Reqs, SavesIn(q, c)', pc'[q] \in Adding \cup Saving PROVE Room(q)'
    <3>1. q = r
      <4> SUFFICES ASSUME q # r PROVE FALSE
        OBVIOUS
      <4>1. pc[q] \in Adding \cup Saving
        BY <1>1, <2>7
      <4>2. SavesIn(q, c)
        BY <2>7, <4>1, SavesInBefore DEF Adding, Saving, Early
      <4>3. Overlap(q, r)
        BY <1>5, <4>1, BothUnderway DEF Adding, Saving, Over
      <4> QED
        BY <1>2, <1>5, <1>7, <4>2, <4>3 DEF CalmCart
    <3>2. pc'[r] = "load"
      BY <2>7, <3>1 DEF Puts
    <3>3. SumFunctionOnSet(qty', S' \ {i}) + want'[r] <= MAX_CART_ITEM_QUANTITY
      BY <2>1, <2>3, <2>5
    <3> QED
      BY <1>1, <1>7, <2>0, <3>1, <3>2, <3>3 DEF Room, Adding, WithinLimit, TotalQuantity
  <2> QED
    BY <2>2, <2>6, <2>7 DEF Room
<1> QED
  BY <1>6, <1>7

LEMMA ItemsFiniteStep ==
  ASSUME IsFiniteSet(items), LimitFrame
  PROVE  IsFiniteSet(items')
<1>1. CASE items' \subseteq items
  BY <1>1, FS_Subset
<1>2. ASSUME NEW i, items' = items \cup {i} PROVE IsFiniteSet(items')
  BY <1>2, FS_AddElement
<1> QED
  BY <1>1, <1>2 DEF LimitFrame, Quiet, Puts

LEMMA LimitInit == Init => LimitInv
<1> SUFFICES ASSUME Init PROVE LimitInv
  OBVIOUS
<1>1. items = {} /\ \A r \in Reqs : pc[r] = "idle" /\ cart[r] = NoRow /\ row[r] = NoRow
  BY DEF Init, RequestsInit
<1>2. GoneInv /\ Placed /\ IsFiniteSet(items)
  BY <1>1, GoneInit, FS_EmptySet DEF Placed
<1>3. \A c \in Reqs : FindCartItemsByCartId(c) = {} /\ WithinLimit(FindCartItemsByCartId(c), 0)
  <2>1. \A c \in Reqs : FindCartItemsByCartId(c) = {}
    BY <1>1 DEF FindCartItemsByCartId
  <2>2. TotalQuantity({}) = 0
    BY SumEmpty DEF TotalQuantity
  <2>3. WithinLimit({}, 0)
    BY <2>2 DEF WithinLimit, MAX_CART_ITEM_QUANTITY
  <2> QED
    BY <2>1, <2>3
<1>4. \A r \in Reqs : Room(r)
  BY <1>1 DEF Room, Adding, Saving
<1> QED
  BY <1>2, <1>3, <1>4 DEF LimitInv, WithinLimits

LEMMA LimitStep == LimitInv /\ [Next]_vars => LimitInv'
<1> SUFFICES ASSUME LimitInv, [Next]_vars PROVE LimitInv'
  OBVIOUS
<1> Typed /\ RowsOwn /\ GoneInv
  BY DEF LimitInv, GoneInv
<1>1. GoneInv' /\ Frame /\ ProductFrame /\ LimitFrame
  BY GoneStep, NextFrame, NextCarts, NextLimit
<1>2. Placed' /\ IsFiniteSet(items)'
  BY <1>1, PlacedStep, ItemsFiniteStep DEF LimitInv, GoneInv, LimitFrame
<1>3. WithinLimits'
  BY <1>1, <1>2, QuietStep, PutStep DEF GoneInv, LimitFrame
<1> QED
  BY <1>1, <1>2, <1>3 DEF LimitInv

LEMMA LimitInvKept == LimitInv => LimitKept
<1> SUFFICES ASSUME LimitInv, NEW c \in carts,
                    TotalQuantity(FindCartItemsByCartId(c)) > MAX_CART_ITEM_QUANTITY
             PROVE  \/ \E r \in Reqs : TakesOut(r) /\ cart[r] = c
                    \/ \E r, s \in Reqs :
                         Saves(r) /\ Saves(s) /\ cart[r] = c /\ cart[s] = c /\ Overlap(r, s)
  BY DEF LimitKept
<1>1. Typed /\ IsFiniteSet(items) /\ WithinLimits /\ c \in Reqs
  BY DEF LimitInv, GoneInv, Typed, CartTypes
<1>2. TotalQuantity(FindCartItemsByCartId(c)) \in Int
  BY <1>1, CartSums, SumTyped DEF TotalQuantity
<1>3. ~ WithinLimit(FindCartItemsByCartId(c), 0)
  BY <1>2 DEF WithinLimit, MAX_CART_ITEM_QUANTITY
<1> QED
  BY <1>1, <1>3 DEF WithinLimits, CalmCart, SavesIn

(* A cart holds more than the limit only if two requests that add to it or   *)
(* change it overlapped, or one asked for a negative quantity, for any       *)
(* number of requests, carts and mishaps and any quantities, negative ones   *)
(* included, that the clients may ask for.                                   *)
THEOREM LimitHolds == Spec => []LimitKept
  BY LimitInvKept, LimitInit, LimitStep, PTL DEF Spec

-----------------------------------------------------------------------------
(* A user who waits for an answer before the next request.                  *)

(* A request takes a cart of its user, and one that arrives comes after all  *)
(* that are over; only the making of a cart is over at once.  The row of a   *)
(* request is an item, or its own in a cart that is there.                   *)
UserFrame ==
  /\ \A q \in Reqs : cart'[q] # cart[q] =>
       pc'[q] # "idle" /\ (cart'[q] = q \/ cart'[q] \in CartsOf(call'[q].user))
  /\ \A q \in Reqs : pc[q] = "idle" /\ pc'[q] # "idle" =>
       /\ \A s \in Reqs : s # q => pc'[s] = pc[s]
       /\ before'[q] = {s \in Reqs : Over(s)}
       /\ call'[q].op # "open" => pc'[q] # "done"
       /\ call'[q].op = "delete" => cart[call'[q].item] \in CartsOf(call'[q].user)
  /\ \A q \in Reqs : row'[q] # row[q] =>
       row'[q] \in items \/ (row'[q] = q /\ cart'[q] = cart[q] /\ cart[q] \in carts)

LEMMA ArriveUser ==
  ASSUME Typed, NEW r \in Reqs, NEW c, NEW l \in Steps \ {"idle"}, Arrive(r, c, l),
         l = "done" => c.op = "open",
         c.op = "delete" => cart[c.item] \in CartsOf(c.user),
         cart' = cart \/ \E x \in CartsOf(c.user) \cup {r} : cart' = [cart EXCEPT ![r] = x],
         row' = row \/ \E i \in items : row' = [row EXCEPT ![r] = i]
  PROVE  UserFrame
<1>1. /\ pc[r] = "idle" /\ pc'[r] = l /\ call'[r] = c /\ before'[r] = {s \in Reqs : Over(s)}
      /\ \A q \in Reqs : q # r => pc'[q] = pc[q]
  BY DEF Arrive, Typed, RequestTypes
<1>2. \A q \in Reqs : cart'[q] # cart[q] => q = r /\ (cart'[q] = r \/ cart'[q] \in CartsOf(c.user))
  BY DEF Typed, CartTypes
<1>3. \A q \in Reqs : row'[q] # row[q] => row'[q] \in items
  BY DEF Typed, CartTypes
<1> QED
  BY <1>1, <1>2, <1>3 DEF UserFrame

LEMMA ArrivalsUser ==
  ASSUME Typed, NEW r \in Reqs,
         \/ CreateCart(r) \/ GetCartByUserId(r) \/ AddFindProduct(r)
         \/ UpdateFindItem(r) \/ DeleteFindItem(r) \/ CheckoutReadCart(r)
  PROVE  UserFrame
<1> USE DEF tables, local, cartVars, Steps
<1>1. CASE CreateCart(r)
  BY <1>1, ArriveUser DEF CreateCart
<1>2. CASE GetCartByUserId(r)
  BY <1>2, ArriveUser DEF GetCartByUserId
<1>3. CASE AddFindProduct(r)
  BY <1>3, ArriveUser DEF AddFindProduct
<1>4. CASE UpdateFindItem(r)
  BY <1>4, ArriveUser DEF UpdateFindItem, ItemOf
<1>5. CASE DeleteFindItem(r)
  BY <1>5, ArriveUser DEF DeleteFindItem, ItemOf
<1>6. CASE CheckoutReadCart(r)
  BY <1>6, ArriveUser DEF CheckoutReadCart
<1> QED
  BY <1>1, <1>2, <1>3, <1>4, <1>5, <1>6

LEMMA StepsUser ==
  ASSUME Typed, NEW r \in Reqs,
         \/ CreateMissingCart(r) \/ AddFindCart(r) \/ AddCheckTotal(r) \/ AddFindItem(r)
         \/ CreateCartItem(r) \/ UpdateProductStock(r)
         \/ SaveReads(r) \/ SaveUpdates(r) \/ SaveInserts(r) \/ UpdateCheckTotal(r)
         \/ DeleteCartItem(r) \/ CheckoutRefused(r) \/ ClearUserCart(r)
  PROVE  UserFrame
<1> USE DEF tables, local, cartVars
<1>1. pc[r] # "idle" /\ pc \in [Reqs -> Steps] /\ cart \in [Reqs -> Reqs \cup {NoRow}]
  BY DEF CreateMissingCart, AddFindCart, AddCheckTotal, AddFindItem, CreateCartItem,
         UpdateProductStock, SaveReads, SaveUpdates, SaveInserts, UpdateCheckTotal,
         DeleteCartItem, CheckoutRefused, ClearUserCart, Typed, RequestTypes, CartTypes
<1>2. PICK l \in Steps \ {"idle"} : Goto(r, l) \/ Refuse(r)
  BY DEF CreateMissingCart, AddFindCart, AddCheckTotal, AddFindItem, CreateCartItem,
         UpdateProductStock, SaveReads, SaveUpdates, SaveInserts, UpdateCheckTotal,
         DeleteCartItem, CheckoutRefused, ClearUserCart, AfterSave, Steps
<1>3. call' = call /\ pc'[r] # "idle" /\ \A q \in Reqs : q # r => pc'[q] = pc[q]
  BY <1>1, <1>2 DEF Goto, Refuse
<1>4. \/ cart' = cart
      \/ \E x \in CartsOf(call[r].user) \cup {r} : cart' = [cart EXCEPT ![r] = x]
  BY DEF CreateMissingCart, AddFindCart, AddCheckTotal, AddFindItem, CreateCartItem,
         UpdateProductStock, SaveReads, SaveUpdates, SaveInserts, UpdateCheckTotal,
         DeleteCartItem, CheckoutRefused, ClearUserCart
<1>5. \A q \in Reqs : cart'[q] # cart[q] =>
        q = r /\ (cart'[q] = r \/ cart'[q] \in CartsOf(call[r].user))
  BY <1>1, <1>4
<1>6. \A q \in Reqs : row'[q] # row[q] =>
        row'[q] \in items \/ (row'[q] = q /\ cart'[q] = cart[q] /\ cart[q] \in carts)
  <2> row \in [Reqs -> Reqs \cup {NoRow}]
    BY DEF Typed, CartTypes
  <2>1. CASE AddFindItem(r)
    BY <2>1 DEF AddFindItem, FindCartItem, FindCartItemsByCartId
  <2>2. CASE CreateCartItem(r)
    BY <2>2 DEF CreateCartItem
  <2> QED
    BY <2>1, <2>2 DEF CreateMissingCart, AddFindCart, AddCheckTotal, UpdateProductStock,
       SaveReads, SaveUpdates, SaveInserts, UpdateCheckTotal, DeleteCartItem,
       CheckoutRefused, ClearUserCart
<1> QED
  BY <1>1, <1>3, <1>5, <1>6 DEF UserFrame

LEMMA NextUser == Typed /\ [Next]_vars => UserFrame
<1> SUFFICES ASSUME Typed, [Next]_vars PROVE UserFrame
  OBVIOUS
<1>1. CASE UNCHANGED vars \/ Mishap
  <2>1. UNCHANGED cartVars /\ \A q \in Reqs : pc'[q] = pc[q] \/ (pc[q] # "idle" /\ pc'[q] = "done")
    BY <1>1 DEF vars, requestVars, Mishap, Die, Throw, Underway, Typed, RequestTypes
  <2> QED
    BY <2>1 DEF cartVars, tables, local, UserFrame
<1>2. ASSUME NEW r \in Reqs,
             \/ CreateCart(r) \/ GetCartByUserId(r) \/ CreateMissingCart(r)
             \/ AddFindProduct(r) \/ AddFindCart(r) \/ AddCheckTotal(r) \/ AddFindItem(r)
             \/ CreateCartItem(r) \/ UpdateProductStock(r)
             \/ SaveReads(r) \/ SaveUpdates(r) \/ SaveInserts(r)
             \/ UpdateFindItem(r) \/ UpdateCheckTotal(r)
             \/ DeleteFindItem(r) \/ DeleteCartItem(r)
             \/ CheckoutReadCart(r) \/ CheckoutRefused(r) \/ ClearUserCart(r)
      PROVE  UserFrame
  BY <1>2, ArrivalsUser, StepsUser
<1> QED
  BY <1>1, <1>2 DEF Next, Stop

Asks(u, r) == pc[r] # "idle" /\ call[r].user = u

(* User u has no two requests under way at once.                            *)
OwnApart(u) ==
  \A r, s \in Reqs : Asks(u, r) /\ Asks(u, s) /\ Underway(r) /\ Underway(s) => r = s

(* Of two requests of u the later one came after the earlier was over.       *)
OwnOrdered(u) ==
  \A r, s \in Reqs :
    /\ r # s /\ Asks(u, r) /\ Asks(u, s) /\ call[r].op # "open" /\ call[s].op # "open"
    => r \in before[s] \/ s \in before[r]

(* A request works on a cart of its user, a row is in a cart, and who        *)
(* deletes an item does so in a cart of its user.                            *)
UsersOwn ==
  /\ \A r \in Reqs : cart[r] # NoRow =>
       pc[r] # "idle" /\ pc[cart[r]] # "idle" /\ call[cart[r]].user = call[r].user
  /\ \A r \in Reqs : row[r] # NoRow => cart[r] # NoRow
  /\ \A d \in Reqs : call[d].op = "delete" =>
       call[cart[call[d].item]].user = call[d].user

OwnInv(u) == OneInv /\ LimitInv /\ OwnOrdered(u) /\ UsersOwn

LEMMA OwnOrderedStep ==
  ASSUME NEW u, Typed, OwnOrdered(u), OwnApart(u)', Frame, UserFrame
  PROVE  OwnOrdered(u)'
<1> SUFFICES ASSUME NEW r \in Reqs, NEW s \in Reqs, r # s, Asks(u, r)', Asks(u, s)',
                    call'[r].op # "open", call'[s].op # "open"
             PROVE  r \in before'[s] \/ s \in before'[r]
  BY DEF OwnOrdered
<1>1. CASE pc[r] # "idle" /\ pc[s] # "idle"
  BY <1>1 DEF OwnOrdered, Asks, Frame, RequestFrame
<1>2. ASSUME NEW q \in Reqs, NEW p \in Reqs, p # q, pc[q] = "idle", Asks(u, q)',
             call'[q].op # "open", Asks(u, p)'
      PROVE  p \in before'[q]
  <2>1. pc'[q] # "done" /\ pc'[p] = pc[p] /\ before'[q] = {x \in Reqs : Over(x)}
    BY <1>2 DEF UserFrame, Asks
  <2>2. pc'[p] = "done"
    BY <1>2, <2>1 DEF OwnApart, Asks, Underway
  <2> QED
    BY <2>1, <2>2 DEF Over
<1> QED
  BY <1>1, <1>2 DEF Asks

LEMMA UsersOwnStep ==
  ASSUME OneInv, Typed', UsersOwn, Frame, ProductFrame, PlaceFrame, UserFrame
  PROVE  UsersOwn'
<1> USE NoRowAssumption
<1> Typed /\ RowsOwn
  BY DEF OneInv, GoneInv
<1>0. \A c \in carts : c \in Reqs /\ pc[c] # "idle"
  BY DEF OneInv, CartsLive, Typed, CartTypes
<1>1. \A q \in Reqs : pc[q] # "idle" => pc'[q] # "idle" /\ call'[q] = call[q]
  BY DEF Frame, RequestFrame
<1>2. ASSUME NEW q \in Reqs, cart'[q] # NoRow
      PROVE  pc'[q] # "idle" /\ pc'[cart'[q]] # "idle" /\ call'[cart'[q]].user = call'[q].user
  <2>1. CASE cart'[q] = cart[q]
    <3>1. cart[q] \in Reqs
      BY <1>2, <2>1 DEF Typed, CartTypes
    <3> QED
      BY <1>1, <1>2, <2>1, <3>1 DEF UsersOwn
  <2>2. CASE cart'[q] # cart[q]
    BY <1>0, <1>1, <2>2 DEF UserFrame, CartsOf
  <2> QED
    BY <2>1, <2>2
(* An item that is there is in a cart, and stays in it. *)
<1>3. ASSUME NEW i \in Reqs, row[i] = i
      PROVE  cart'[i] = cart[i] /\ cart[i] \in Reqs /\ pc[cart[i]] # "idle"
  <2>1. cart[i] \in Reqs
    BY <1>3 DEF UsersOwn, Typed, CartTypes
  <2>2. pc[i] \notin NoRowYet
    BY <1>3 DEF Typed, Shape
  <2> QED
    BY <2>1, <2>2 DEF ProductFrame, NoRowYet, UsersOwn
<1>4. ASSUME NEW q \in Reqs, row'[q] # NoRow
      PROVE  cart'[q] # NoRow
  <2>1. CASE row'[q] = row[q]
    <3>1. pc[q] \notin NoRowYet
      BY <1>4, <2>1 DEF Typed, Shape
    <3> QED
      BY <1>4, <2>1, <3>1 DEF ProductFrame, NoRowYet, UsersOwn
  <2>2. CASE row'[q] # row[q]
    <3>1. cart'[row'[q]] = cart'[q]
      BY <2>2 DEF PlaceFrame
    <3>2. row'[q] \in items => row'[q] \in Reqs /\ row[row'[q]] = row'[q]
      BY DEF RowsOwn, Typed, CartTypes
    <3> QED
      BY <1>0, <1>3, <2>2, <3>1, <3>2 DEF UserFrame
  <2> QED
    BY <2>1, <2>2
<1>5. ASSUME NEW d \in Reqs, call'[d].op = "delete"
      PROVE  call'[cart'[call'[d].item]].user = call'[d].user
  <2> DEFINE i == call'[d].item
  <2>1. pc'[d] # "idle"
    BY <1>5 DEF Typed, Shape, Fits
  <2>2. i \in Reqs /\ row[i] = i /\ call[cart[i]].user = call'[d].user
    <3>1. CASE pc[d] = "idle"
      <4>1. i \in items /\ cart[i] \in CartsOf(call'[d].user)
        BY <1>5, <2>1, <3>1 DEF Frame, DeleteFrame, UserFrame
      <4> QED
        BY <4>1 DEF CartsOf, RowsOwn, Typed, CartTypes
    <3>2. CASE pc[d] # "idle"
      <4>1. call'[d] = call[d]
        BY <1>1, <3>2
      <4> QED
        BY <1>5, <4>1, DeleteItem DEF RowsOwn, UsersOwn
    <3> QED
      BY <3>1, <3>2
  <2> QED
    BY <1>1, <1>3, <2>2
<1> QED
  BY <1>2, <1>4, <1>5 DEF UsersOwn

LEMMA OwnInit ==
  ASSUME NEW u
  PROVE  Init => OwnInv(u)
<1> SUFFICES ASSUME Init PROVE OwnInv(u)
  OBVIOUS
<1>1. items = {} /\ \A r \in Reqs : pc[r] = "idle" /\ cart[r] = NoRow /\ row[r] = NoRow
  BY DEF Init, RequestsInit
<1>2. \A r \in Reqs : call[r].op # "delete"
  BY <1>1, TypedInit DEF Typed, Shape, Fits
<1> QED
  BY <1>1, <1>2, OneInit, LimitInit DEF OwnInv, OwnOrdered, Asks, UsersOwn

LEMMA OwnStep ==
  ASSUME NEW u
  PROVE  OwnInv(u) /\ OwnApart(u)' /\ [Next]_vars => OwnInv(u)'
<1> SUFFICES ASSUME OwnInv(u), OwnApart(u)', [Next]_vars PROVE OwnInv(u)'
  OBVIOUS
<1>1. OneInv /\ LimitInv /\ Typed
  BY DEF OwnInv, OneInv, GoneInv
<1>2. OneInv' /\ LimitInv' /\ Typed'
  BY <1>1, OneStep, LimitStep, TypedStep
<1>3. Frame /\ ProductFrame /\ PlaceFrame /\ UserFrame
  BY <1>1, NextFrame, NextCarts, NextLimit, NextUser DEF OneInv, GoneInv, LimitFrame
<1> QED
  BY <1>1, <1>2, <1>3, OwnOrderedStep, UsersOwnStep DEF OwnInv

(* What user u may rely on: the limit while u asks for no negative quantity. *)
CartsAsAsked(u) ==
  /\ (\A r \in Reqs : Asks(u, r) => ~TakesOut(r)) =>
       \A c \in CartsOf(u) :
         TotalQuantity(FindCartItemsByCartId(c)) <= MAX_CART_ITEM_QUANTITY
  /\ \A c, d \in CartsOf(u) : c # d => "open" \in {call[c].op, call[d].op}
  /\ \A i, j \in items :
       cart[i] \in CartsOf(u) /\ cart[i] = cart[j] /\ call[i].product = call[j].product => i = j
  /\ \A d \in Reqs :
       (Asks(u, d) /\ call[d].op = "delete" /\ Over(d) /\ d \notin broken) =>
         call[d].item \notin items

(* A user who waits for each answer before the next request has one cart,    *)
(* one item of a product in it, and deleted items stay away, and has carts   *)
(* within the limit while never asking for a negative quantity, whatever the  *)
(* others do meanwhile, patient or not, asking for what they like, for any    *)
(* number of users and requests and any mishaps.                             *)
THEOREM PatientUserServed ==
  ASSUME NEW u
  PROVE  Spec /\ []OwnApart(u) => []CartsAsAsked(u)
<1>1. OwnInv(u) => CartsAsAsked(u)
  <2> SUFFICES ASSUME OwnInv(u) PROVE CartsAsAsked(u)
    OBVIOUS
  <2> USE NoRowAssumption
  <2>1. OneInv /\ LimitInv /\ UsersOwn /\ GoneInv /\ Typed /\ Placed
    BY DEF OwnInv, OneInv, GoneInv, LimitInv
  <2>2. OneOfEach /\ GoneStaysGone /\ LimitKept
    BY <2>1, OneInvOneOfEach, GoneInvStays, LimitInvKept
  <2>3. carts \subseteq Reqs /\ items \subseteq Reqs
    BY <2>1 DEF Typed, CartTypes
  <2>4. \A r, s \in Reqs : call[r].op # "open" /\ call[s].op # "open"
          /\ call[r].user = u /\ call[s].user = u => ~Overlap(r, s)
    BY DEF OwnInv, OwnOrdered, Asks, Overlap
  <2>5. ASSUME NEW c \in CartsOf(u), \A r \in Reqs : Asks(u, r) => ~TakesOut(r)
        PROVE  TotalQuantity(FindCartItemsByCartId(c)) <= MAX_CART_ITEM_QUANTITY
    <3>1. c \in carts /\ call[c].user = u
      BY DEF CartsOf
    <3>2. TotalQuantity(FindCartItemsByCartId(c)) \in Int
      BY <2>1, CartSums, SumTyped DEF TotalQuantity, LimitInv
    <3>3. ASSUME TotalQuantity(FindCartItemsByCartId(c)) > MAX_CART_ITEM_QUANTITY
          PROVE  FALSE
      <4>0. \A r \in Reqs : cart[r] = c => Asks(u, r)
        BY <2>1, <2>3, <3>1 DEF UsersOwn, Asks
      <4>1. PICK r \in Reqs, s \in Reqs :
              Saves(r) /\ Saves(s) /\ cart[r] = c /\ cart[s] = c /\ Overlap(r, s)
        BY <2>2, <2>5, <3>1, <3>3, <4>0 DEF LimitKept
      <4>2. call[r].user = u /\ call[s].user = u
        BY <2>1, <2>3, <3>1, <4>1 DEF UsersOwn
      <4> QED
        BY <2>4, <4>1, <4>2 DEF Saves
    <3> QED
      BY <3>2, <3>3 DEF MAX_CART_ITEM_QUANTITY
  <2>6. ASSUME NEW c \in CartsOf(u), NEW d \in CartsOf(u), c # d
        PROVE  "open" \in {call[c].op, call[d].op}
    BY <2>2, <2>3, <2>4, <2>6 DEF OneOfEach, CartsOf
  <2>7. ASSUME NEW r \in Reqs, row[r] \in Reqs
        PROVE  cart[row[r]] = cart[r] /\ call[cart[row[r]]].user = call[r].user
    BY <2>1, <2>7 DEF Placed, UsersOwn
  <2>8. ASSUME NEW i \in items, NEW j \in items, cart[i] \in CartsOf(u), cart[i] = cart[j],
               call[i].product = call[j].product, i # j
        PROVE  FALSE
    <3>1. PICK r \in Reqs, s \in Reqs :
            Saves(r) /\ row[r] = i /\ Saves(s) /\ row[s] = j /\ Overlap(r, s)
      BY <2>2, <2>8 DEF OneOfEach
    <3>2. call[r].user = u /\ call[s].user = u
      BY <2>3, <2>7, <2>8, <3>1 DEF CartsOf
    <3> QED
      BY <2>4, <3>1, <3>2 DEF Saves
  <2>9. ASSUME NEW d \in Reqs, Asks(u, d), call[d].op = "delete", Over(d), d \notin broken,
               call[d].item \in items
        PROVE  FALSE
    <3>1. PICK r \in Reqs : Saves(r) /\ row[r] = call[d].item /\ Overlap(r, d)
      BY <2>2, <2>9 DEF GoneStaysGone
    <3>2. call[r].user = u /\ call[d].user = u
      BY <2>1, <2>3, <2>7, <2>9, <3>1 DEF UsersOwn, Asks
    <3> QED
      BY <2>4, <2>9, <3>1, <3>2 DEF Saves
  <2> QED
    BY <2>5, <2>6, <2>8, <2>9 DEF CartsAsAsked
<1> QED
  BY <1>1, OwnInit, OwnStep, PTL DEF Spec
=============================================================================
