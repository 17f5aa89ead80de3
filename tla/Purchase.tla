------------------------------ MODULE Purchase ------------------------------
(***************************************************************************)
(* What one token exchange promises the member: a purchase is charged at   *)
(* most once, the coupons are mailed only after the charge has been handed *)
(* to the network, and the final report agrees with what has happened: the *)
(* message "the coupons could not be made, try again later" means that     *)
(* nothing was charged, "completed" that the coupons are mailed; "the mail *)
(* failed, please contact us" is sure of the charge alone, the mail may    *)
(* have gone out.                                                          *)
(***************************************************************************)
CONSTANT Checkouts

VARIABLES
  charged,   \* purchases whose payment was handed to the network
  mailed,    \* purchases whose coupons were mailed
  report     \* [Checkouts -> what exchange_transaction finally says]

vars == <<charged, mailed, report>>

Init ==
  /\ charged = {}
  /\ mailed = {}
  /\ report = [c \in Checkouts |-> "none"]

Charge(c) ==
  /\ report[c] = "none"
  /\ c \notin charged
  /\ charged' = charged \cup {c}
  /\ UNCHANGED <<mailed, report>>

Mail(c) ==
  /\ report[c] = "none"
  /\ c \in charged
  /\ mailed' = mailed \cup {c}
  /\ UNCHANGED <<charged, report>>

Report(c, r) ==
  /\ report[c] = "none"
  /\ \/ r = "couponsFailed" /\ c \notin charged
     \/ r = "mailFailed" /\ c \in charged
     \/ r = "completed" /\ c \in mailed
  /\ report' = [report EXCEPT ![c] = r]
  /\ UNCHANGED <<charged, mailed>>

Next ==
  \E c \in Checkouts :
    \/ Charge(c)
    \/ Mail(c)
    \/ \E r \in {"couponsFailed", "mailFailed", "completed"} : Report(c, r)

Spec == Init /\ [][Next]_vars
=============================================================================
