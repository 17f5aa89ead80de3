---------------------------- MODULE GrantPromise ----------------------------
(***************************************************************************)
(* What the grant component promises, whatever runs, retries and crashes   *)
(* lie below: tokens are sent only for grants that were asked for, and a   *)
(* grant is reported as granted only when a transfer for it is on chain.   *)
(* It does NOT promise one transfer per grant: TokenGrant shows why.       *)
(***************************************************************************)
CONSTANT Tx

VARIABLES
  asked,   \* grants some code asked for
  sent,    \* grants for which the chain has included a transfer
  report   \* what token_transaction says: nothing final, FIX or ERROR

vars == <<asked, sent, report>>

Init ==
  /\ asked = {}
  /\ sent = {}
  /\ report = [t \in Tx |-> "open"]

Ask(S) ==
  /\ S \subseteq Tx \ asked
  /\ asked' = asked \cup S
  /\ UNCHANGED <<sent, report>>

Send(t) ==
  /\ t \in asked
  /\ sent' = sent \cup {t}
  /\ UNCHANGED <<asked, report>>

ReportGranted(t) ==
  /\ t \in sent
  /\ report' = [report EXCEPT ![t] = "granted"]
  /\ UNCHANGED <<asked, sent>>

ReportFailed(t) ==
  /\ t \in asked
  /\ report' = [report EXCEPT ![t] = "failed"]
  /\ UNCHANGED <<asked, sent>>

\* A run takes up rows again that an overlapping run has already settled.
Reopen(S) ==
  /\ S \subseteq asked
  /\ report' = [t \in Tx |-> IF t \in S THEN "open" ELSE report[t]]
  /\ UNCHANGED <<asked, sent>>

Next ==
  \/ \E S \in SUBSET Tx : Ask(S) \/ Reopen(S)
  \/ \E t \in Tx : Send(t) \/ ReportGranted(t) \/ ReportFailed(t)

Spec == Init /\ [][Next]_vars
=============================================================================
