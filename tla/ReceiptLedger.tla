--------------------------- MODULE ReceiptLedger ---------------------------
(***************************************************************************)
(* What a resumable load promises, whatever its batching, failures and     *)
(* restarts: rows are delivered to a destination that never withdraws      *)
(* them, and a receipt (a durable LOADED or VALIDATED manifest entry) is   *)
(* only written for rows the destination has already committed.  A later   *)
(* run trusts receipts and skips the rows they cover, so a receipt written *)
(* too early is data lost for good.                                        *)
(***************************************************************************)
CONSTANTS Deliverable, \* everything that could be delivered
          Cover(_)     \* the rows a receipt claims

VARIABLES delivered,  \* rows the destination has committed
          receipts    \* receipts that are durably recorded

vars == <<delivered, receipts>>

Init == /\ delivered = {}
        /\ receipts = {}

\* The destination commits more rows.
Deliver == /\ delivered \subseteq delivered'
           /\ delivered' \subseteq Deliverable
           /\ UNCHANGED receipts

\* A receipt is recorded for rows that are all committed already.
Issue == /\ \E r \in receipts' : /\ Cover(r) \subseteq delivered
                                /\ receipts' = receipts \cup {r}
         /\ UNCHANGED delivered

Next == Deliver \/ Issue

Spec == Init /\ [][Next]_vars

-----------------------------------------------------------------------------
\* Every receipt is backed by committed rows.
Backed == \A r \in receipts : Cover(r) \subseteq delivered
=============================================================================
