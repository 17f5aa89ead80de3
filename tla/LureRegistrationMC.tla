-------------------------- MODULE LureRegistrationMC --------------------------
(* Instances of LureRegistration for TLC. *)
EXTENDS LureRegistration, FiniteSets, TLC

CONSTANTS r1, r2, r3, ann, bob, mosaic, red, coupon

Ask(kind, member, num, quantity) ==
  [kind |-> kind, member |-> member, type |-> mosaic, color |-> red,
   number |-> num, token |-> coupon, quantity |-> quantity]

\* Two members that buy, a member that registers the last padded number or a
\* lure that needs none, modifications, and a token for two digital lures.
Everything ==
  {Ask("purchase", ann, 0, 0), Ask("purchase", bob, 0, 0),
   Ask("register", bob, LastPadded, 0), Ask("register", ann, 0, 0),
   Ask("modify", ann, 1, 0), Ask("modify", ann, 0, 0),
   Ask("redeem", ann, 0, 2)}

\* Two members hold a lure with the same code.
SameCode == {Ask("register", ann, 1, 0), Ask("register", bob, 1, 0)}

\* One reviewer's update is under way at a time, and of the lures of one request,
\* which no request can tell apart, it is about the last inserted.
OneReviewer ==
  Cardinality(decisions') <= 1 /\ \A d \in decisions' : d[1][2] = 1

\* Two that redeem tokens meet no request of another kind.
Redeemers == {r \in Requests : ask'[r] # NoAsk /\ ask'[r].kind = "redeem"}

RedeemApart ==
  Cardinality(Redeemers) > 1 => \A r \in Requests \ Redeemers : ask'[r] = NoAsk

Alternation == Permutations(Requests)
=============================================================================
