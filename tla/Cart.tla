-------------------------------- MODULE Cart --------------------------------
(***************************************************************************)
(* Carts, their items and the stock of the token exchange: the requests    *)
(* under /token-exchange/cart, TokenExchangeService with TokenExchnageDao. *)
(* Checkout models the other half of a checkout; here it reads a cart and, *)
(* if all goes well, deletes the carts of the user.                        *)
(*                                                                         *)
(* Every statement is a step of its own and nothing is a transaction.      *)
(* TypeORM's save(entity) reads the row and then updates it, if it         *)
(* differs, or inserts it, if it is gone.  A row has the name of the       *)
(* request that inserts it.  A request that its first query refuses (a     *)
(* product or an item nobody has) changes nothing and is left out, and so  *)
(* is the status of an item, which nothing reads.  The body of an add is   *)
(* not validated: quantities are any numbers, zero and less among them.    *)
(***************************************************************************)
EXTENDS Requests, Integers, FiniteSetsExt

CONSTANTS
  Users,
  Products,
  Quantities,   \* quantities the clients ask for
  InitialStock

MAX_CART_ITEM_QUANTITY == 5

\* addProductToCart refuses more than the limit before anything else, and only that.
AddQuantities == {n \in Quantities : n <= MAX_CART_ITEM_QUANTITY}

\* UpdateCartItemDto: @Min(1).
UpdateQuantities == {n \in Quantities : n >= 1}

ASSUME QuantitiesAssumption == Quantities \subseteq Int
ASSUME StockAssumption == InitialStock \in Int

VARIABLES
  carts,   \* rows of cart
  items,   \* rows of cart_item
  qty,     \* their quantities
  stock,   \* availableQuantity of the products
  cart,    \* [Reqs -> the cart it works on]: for an item row, the cart it is in
  row,     \* [Reqs -> the item it works on]
  want,    \* [Reqs -> the quantity of the item as it holds it, and will save it]
  copy,    \* [Reqs -> availableQuantity of the product as it read it]
  seen,    \* [Reqs -> quantities of the items a checkout read]
  taken    \* history: requests that have written the stock

tables == <<carts, items, qty, stock>>
local == <<cart, row, want, copy, seen>>
cartVars == <<tables, local, taken>>
vars == <<requestVars, cartVars>>

NoRow == "none"

ASSUME NoRowAssumption == NoRow \notin Reqs

CartCalls ==
  [op : {"open", "get", "checkout"}, user : Users]
    \cup [op : {"add"}, user : Users, product : Products, n : AddQuantities]
    \cup [op : {"update"}, user : Users, item : Reqs, n : UpdateQuantities]
    \cup [op : {"touch", "delete"}, user : Users, item : Reqs]

Steps ==
  {"idle", "cart", "create", "total", "item", "insert", "load", "write", "reinsert",
   "stock", "others", "remove", "clear", "done"}

TypeOK ==
  /\ pc \in [Reqs -> Steps]
  /\ call \in [Reqs -> CartCalls \cup {NoCall}]
  /\ chores = [r \in Reqs |-> {}]
  /\ before \in [Reqs -> SUBSET Reqs]
  /\ broken \subseteq Reqs
  /\ mishaps \in 0..MaxMishaps
  /\ carts \subseteq Reqs
  /\ items \subseteq Reqs
  /\ qty \in [Reqs -> Int]
  /\ stock \in [Products -> Int]
  /\ cart \in [Reqs -> Reqs \cup {NoRow}]
  /\ row \in [Reqs -> Reqs \cup {NoRow}]
  /\ want \in [Reqs -> Int]
  /\ copy \in [Reqs -> Int]
  /\ seen \in [Reqs -> [Reqs -> Int]]
  /\ taken \subseteq Reqs

Init ==
  /\ RequestsInit(<<>>)
  /\ carts = {}
  /\ items = {}
  /\ qty = [r \in Reqs |-> 0]
  /\ stock = [p \in Products |-> InitialStock]
  /\ cart = [r \in Reqs |-> NoRow]
  /\ row = [r \in Reqs |-> NoRow]
  /\ want = [r \in Reqs |-> 0]
  /\ copy = [r \in Reqs |-> 0]
  /\ seen = [r \in Reqs |-> [i \in Reqs |-> 0]]
  /\ taken = {}

-----------------------------------------------------------------------------
(* Queries *)

\* Mutant: only a cart that holds something counts.
CartsInUse(u) == {c \in carts : call[c].user = u /\ \E i \in items : cart[i] = c}

\* findCartByUserId returns any one of them, or nothing.
CartsOf(u) == {c \in carts : call[c].user = u}

FindCartItemsByCartId(c) == {i \in items : cart[i] = c}

\* findCartItem returns any one of them, or nothing.
FindCartItem(c, p) == {i \in FindCartItemsByCartId(c) : call[i].product = p}

TotalQuantity(S) == SumFunctionOnSet(qty, S)

-----------------------------------------------------------------------------
(* POST /cart, GET /cart and what getCartByUserId creates on the way *)

\* createCart: POST /cart makes a new one whatever there is.
CreateCart(r) ==
  \E u \in Users :
    /\ Arrive(r, [op |-> "open", user |-> u], "done")
    /\ carts' = carts \cup {r}
    /\ cart' = [cart EXCEPT ![r] = r]
    /\ UNCHANGED <<items, qty, stock, row, want, copy, seen, taken>>

\* getCartByUserId finds none.  A checkout would meet an empty cart next and be
\* refused: to the carts it is this request.
GetCartByUserId(r) ==
  \E u \in Users :
    /\ CartsOf(u) = {}
    /\ Arrive(r, [op |-> "get", user |-> u], "create")
    /\ UNCHANGED cartVars

\* createCart for getCartByUserId and for addProductToCart.
CreateMissingCart(r) ==
  /\ pc[r] = "create"
  /\ carts' = carts \cup {r}
  /\ cart' = [cart EXCEPT ![r] = r]
  /\ Goto(r, IF call[r].op = "add" THEN "total" ELSE "done")
  /\ UNCHANGED <<items, qty, stock, row, want, copy, seen, taken>>

-----------------------------------------------------------------------------
(* POST /cart/add: addProductToCart *)

AddFindProduct(r) ==
  \E u \in Users, p \in Products, n \in AddQuantities :
    /\ Arrive(r, [op |-> "add", user |-> u, product |-> p, n |-> n], "cart")
    /\ copy' = [copy EXCEPT ![r] = stock[p]]
    /\ UNCHANGED <<tables, cart, row, want, seen, taken>>

AddFindCart(r) ==
  /\ pc[r] = "cart"
  /\ \/ /\ CartsOf(call[r].user) = {}
        /\ Goto(r, "create")
        /\ UNCHANGED cart
     \/ \E c \in CartsOf(call[r].user) :
          /\ cart' = [cart EXCEPT ![r] = c]
          /\ Goto(r, "total")
  /\ UNCHANGED <<tables, row, want, copy, seen, taken>>

\* Mutant: only the quantity asked for is compared with the limit.
WithinLimitAlone(S, n) == n <= MAX_CART_ITEM_QUANTITY

\* The limit on the whole cart.
WithinLimit(S, n) == TotalQuantity(S) + n <= MAX_CART_ITEM_QUANTITY

AddCheckTotal(r) ==
  /\ pc[r] = "total"
  /\ Goto(r, IF WithinLimit(FindCartItemsByCartId(cart[r]), call[r].n) THEN "item" ELSE "done")
  /\ UNCHANGED cartVars

AddFindItem(r) ==
  /\ pc[r] = "item"
  /\ LET found == FindCartItem(cart[r], call[r].product)
     IN \/ /\ found = {}
           /\ Goto(r, "insert")
           /\ UNCHANGED <<row, want>>
        \/ \E i \in found :
             /\ row' = [row EXCEPT ![r] = i]
             /\ want' = [want EXCEPT ![r] = qty[i] + call[r].n]
             /\ Goto(r, "load")
  /\ UNCHANGED <<tables, cart, copy, seen, taken>>

\* createCartItem; the foreign key refuses an item of a cart that is gone.
CreateCartItem(r) ==
  /\ pc[r] = "insert"
  /\ IF cart[r] \in carts
     THEN /\ items' = items \cup {r}
          /\ qty' = [qty EXCEPT ![r] = call[r].n]
          /\ row' = [row EXCEPT ![r] = r]
          /\ want' = [want EXCEPT ![r] = call[r].n]
          /\ Goto(r, "load")
     ELSE Refuse(r) /\ UNCHANGED <<items, qty, row, want>>
  /\ UNCHANGED <<carts, stock, cart, copy, seen, taken>>

\* Mutant: the stock is reduced by what the item holds after the request.
TakeWholeItem(r) ==
  /\ pc[r] = "stock"
  /\ stock' = [stock EXCEPT ![call[r].product] = copy[r] - want[r]]
  /\ taken' = taken \cup {r}
  /\ Goto(r, "done")
  /\ UNCHANGED <<carts, items, qty, local>>

\* updateProductStock: the copy of the product, less n, is saved.
UpdateProductStock(r) ==
  /\ pc[r] = "stock"
  /\ stock' = [stock EXCEPT ![call[r].product] = copy[r] - call[r].n]
  /\ taken' = taken \cup {r}
  /\ Goto(r, "done")
  /\ UNCHANGED <<carts, items, qty, local>>

-----------------------------------------------------------------------------
(* saveCartItem, for addProductToCart and updateCartItem *)

AfterSave(r) == IF call[r].op = "add" THEN "stock" ELSE "done"

SaveReads(r) ==
  /\ pc[r] = "load"
  /\ Goto(r, CASE row[r] \notin items    -> "reinsert"
               [] qty[row[r]] = want[r]  -> AfterSave(r)
               [] OTHER                  -> "write")
  /\ UNCHANGED cartVars

SaveUpdates(r) ==
  /\ pc[r] = "write"
  /\ qty' = IF row[r] \in items THEN [qty EXCEPT ![row[r]] = want[r]] ELSE qty
  /\ Goto(r, AfterSave(r))
  /\ UNCHANGED <<carts, items, stock, local, taken>>

\* The row was gone: it is inserted with what the entity holds.  findCartItem
\* loads no cart, so a row it found comes back outside of every cart, if at all.
SaveInserts(r) ==
  /\ pc[r] = "reinsert"
  /\ IF call[r].op = "add" /\ row[r] # r
     THEN (Goto(r, "stock") \/ Refuse(r)) /\ UNCHANGED <<items, qty>>
     ELSE IF row[r] \in items \/ cart[row[r]] \notin carts
     THEN Refuse(r) /\ UNCHANGED <<items, qty>>
     ELSE /\ items' = items \cup {row[r]}
          /\ qty' = [qty EXCEPT ![row[r]] = want[r]]
          /\ Goto(r, AfterSave(r))
  /\ UNCHANGED <<carts, stock, local, taken>>

-----------------------------------------------------------------------------
(* PATCH and DELETE /cart/items/:cartItemId *)

\* findCartItemByIdAndUserId
ItemOf(u, i) == i \in items /\ cart[i] \in CartsOf(u)

\* A PATCH of the status alone ("touch") checks nothing and saves the item as read.
UpdateFindItem(r) ==
  \E u \in Users, i \in items :
    /\ ItemOf(u, i)
    /\ \/ \E n \in UpdateQuantities :
            Arrive(r, [op |-> "update", user |-> u, item |-> i, n |-> n], "others")
       \/ Arrive(r, [op |-> "touch", user |-> u, item |-> i], "load")
    /\ cart' = [cart EXCEPT ![r] = cart[i]]
    /\ row' = [row EXCEPT ![r] = i]
    /\ want' = [want EXCEPT ![r] = qty[i]]
    /\ UNCHANGED <<tables, copy, seen, taken>>

UpdateCheckTotal(r) ==
  /\ pc[r] = "others"
  /\ IF WithinLimit(FindCartItemsByCartId(cart[r]) \ {row[r]}, call[r].n)
     THEN want' = [want EXCEPT ![r] = call[r].n] /\ Goto(r, "load")
     ELSE Goto(r, "done") /\ UNCHANGED want
  /\ UNCHANGED <<tables, cart, row, copy, seen, taken>>

DeleteFindItem(r) ==
  \E u \in Users, i \in items :
    /\ ItemOf(u, i)
    /\ Arrive(r, [op |-> "delete", user |-> u, item |-> i], "remove")
    /\ UNCHANGED cartVars

\* Mutant: the row of the request's name is removed, not the item's.
DeleteWrongRow(r) ==
  /\ pc[r] = "remove"
  /\ items' = items \ {r}
  /\ Goto(r, "done")
  /\ UNCHANGED <<carts, qty, stock, local, taken>>

DeleteCartItem(r) ==
  /\ pc[r] = "remove"
  /\ items' = items \ {call[r].item}
  /\ Goto(r, "done")
  /\ UNCHANGED <<carts, qty, stock, local, taken>>

-----------------------------------------------------------------------------
(* POST /checkout, as far as it concerns the cart *)

CheckoutReadCart(r) ==
  \E u \in Users : \E c \in CartsOf(u) :
    /\ FindCartItemsByCartId(c) # {}
    /\ Arrive(r, [op |-> "checkout", user |-> u], "clear")
    /\ cart' = [cart EXCEPT ![r] = c]
    /\ seen' = [seen EXCEPT ![r] =
                  [i \in Reqs |-> IF i \in FindCartItemsByCartId(c) THEN qty[i] ELSE 0]]
    /\ UNCHANGED <<tables, row, want, copy, taken>>

\* A coupon or the mail fails.
CheckoutRefused(r) ==
  /\ pc[r] = "clear"
  /\ Goto(r, "done")
  /\ UNCHANGED cartVars

\* Mutant: the carts of everybody go.
ClearCarts(r) ==
  /\ pc[r] = "clear"
  /\ carts' = {}
  /\ items' = {}
  /\ Goto(r, "done")
  /\ UNCHANGED <<qty, stock, local, taken>>

\* clearUserCart: the carts of the user go, and their items with them.
ClearUserCart(r) ==
  /\ pc[r] = "clear"
  /\ carts' = carts \ CartsOf(call[r].user)
  /\ items' = {i \in items : cart[i] \notin CartsOf(call[r].user)}
  /\ Goto(r, "done")
  /\ UNCHANGED <<qty, stock, local, taken>>

-----------------------------------------------------------------------------
Mishap == (Die \/ \E r \in Reqs : Throw(r)) /\ UNCHANGED cartVars

Stop == (\A r \in Reqs : Over(r)) /\ UNCHANGED vars

Next ==
  \/ \E r \in Reqs :
       \/ CreateCart(r) \/ GetCartByUserId(r) \/ CreateMissingCart(r)
       \/ AddFindProduct(r) \/ AddFindCart(r) \/ AddCheckTotal(r) \/ AddFindItem(r)
       \/ CreateCartItem(r) \/ UpdateProductStock(r)
       \/ SaveReads(r) \/ SaveUpdates(r) \/ SaveInserts(r)
       \/ UpdateFindItem(r) \/ UpdateCheckTotal(r)
       \/ DeleteFindItem(r) \/ DeleteCartItem(r)
       \/ CheckoutReadCart(r) \/ CheckoutRefused(r) \/ ClearUserCart(r)
  \/ Mishap
  \/ Stop

Spec == Init /\ [][Next]_vars

-----------------------------------------------------------------------------
(* Properties *)

Saves(r) == call[r].op \in {"add", "update", "touch"}

\* It asks for less than nothing of a product.
TakesOut(r) == call[r].op = "add" /\ call[r].n < 0

\* A cart holds more than MAX_CART_ITEM_QUANTITY products only if two requests that
\* add to it or change it overlapped (the total is read well before the save), or
\* if one of them asked for a negative quantity: when that item is deleted, or its
\* quantity replaced, the others stay.
LimitKept ==
  \A c \in carts :
    TotalQuantity(FindCartItemsByCartId(c)) > MAX_CART_ITEM_QUANTITY =>
      \/ \E r \in Reqs : TakesOut(r) /\ cart[r] = c
      \/ \E r, s \in Reqs :
           Saves(r) /\ Saves(s) /\ cart[r] = c /\ cart[s] = c /\ Overlap(r, s)

\* The stock of a product is what it was less what the requests have taken, unless
\* two that take of it overlapped: the later one writes what the other had not seen.
StockAccounted ==
  \A p \in Products :
    LET takers == {r \in taken : call[r].product = p}
    IN \/ stock[p] = InitialStock - SumFunction([r \in takers |-> call[r].n])
       \/ \E r, s \in takers : Overlap(r, s)

\* A user has one cart, and a cart one item of a product, unless the client asked
\* for another cart or two requests overlapped, each of which found none.
OneOfEach ==
  /\ \A c, d \in carts :
       c # d /\ call[c].user = call[d].user =>
         "open" \in {call[c].op, call[d].op} \/ Overlap(c, d)
  /\ \A i, j \in items :
       i # j /\ cart[i] = cart[j] /\ call[i].product = call[j].product =>
         \E r, s \in Reqs :
           Saves(r) /\ row[r] = i /\ Saves(s) /\ row[s] = j /\ Overlap(r, s)

\* An item that was deleted is there again only if a request that saves it had read
\* it before: TypeORM's save inserts what it does not find.
GoneStaysGone ==
  \A d \in Reqs :
    (call[d].op = "delete" /\ Over(d) /\ d \notin broken /\ call[d].item \in items) =>
      \E r \in Reqs : Saves(r) /\ row[r] = call[d].item /\ Overlap(r, d)

\* A checkout that clears the cart removes an item it has not read as it is only if
\* a request that saves the item overlapped, or if it lies in another cart of
\* the user.
ClearedAsOrdered ==
  [][\A k, i \in Reqs :
       (pc[k] = "clear" /\ i \in items \ items' /\ pc'[k] = "done") =>
         \/ seen[k][i] = qty[i]
         \/ cart[i] \in CartsOf(call[k].user) \ {cart[k]}
         \/ \E r \in Reqs : Saves(r) /\ row[r] = i /\ Overlap(r, k)]_vars
=============================================================================
