----------------------------- MODULE CheckoutMC -----------------------------
(* Instances of Checkout for TLC. *)
EXTENDS Checkout, TLC

\* Requests, members, signed transfers and coupon units are alike; orders are not,
\* one is the newer.
Symmetric ==
  Permutations(Checkouts) \cup Permutations(Members) \cup Permutations(Transfer)
    \cup Permutations(CouponUnit)

\* Orders no request names are noise: the named ones come first, the others are
\* never created and their owner does not matter.
Named == {orderOf[c] : c \in Checkouts}
NamedFirst ==
  \A o \in Order \ Named : (\A p \in Named : p < o) /\ owner[o] = owner[1]

\* Nor do changes matter to a cart that will not be read again; and as no checkout
\* reads which coupons are used, they are used when the checkouts are over.
StepsThatMatter ==
  /\ used' = used \/ \A c \in Checkouts : pc[c] = "done"
  /\ \A o \in Order \ Named : orderStatus'[o] = "NONE"
  /\ \A m \in Members :
       \/ cart'[m] \in {cart[m], {}}
       \/ \E c \in Checkouts : member[c] = m /\ pc[c] = "idle"
       \/ \E o \in Named : owner[o] = m /\ orderStatus[o] = "NONE"
=============================================================================
