----------------------------- MODULE MCPayments -----------------------------
(***************************************************************************)
(* Small instances of Payments: contracts of one milestone each, perhaps a *)
(* transaction of the earlier version on the first, one or two handlers    *)
(* and a sweep.                                                            *)
(***************************************************************************)
EXTENDS Payments, TLC

CONSTANTS c1, c2, m1, m2, k1, k2, r1, f1, e1, e2, e3, h1, h2, w1

MCContractOf == [m \in Milestones |-> IF m = m1 THEN c1 ELSE c2]
MCAmount == [m \in Milestones |-> IF m = m1 THEN 2 ELSE 1]
MCPaidAmounts == [c \in Contracts |-> IF c = c1 THEN {2} ELSE {1}]
MCRefContract == [r \in Refs |-> c1]

Said(on, type, amount) == [on |-> on, type |-> type, amount |-> amount]

\* Events that name the contract, the transaction, and neither; the second
\* leaves the amount out.
MCEventOf ==
  [e \in Events |->
     CASE e = e1 -> Said(c1, "payment.succeeded", 2)
       [] e = e2 -> Said(r1, "payment.succeeded", 0)
       [] e = e3 -> Said(f1, "payment.succeeded", 2)]

\* Either handler takes any job; used where only safety is checked.
Interchangeable == Permutations(Handlers)

\* Events that report that a payment failed.
FailedEvents == [e \in Events |-> Said(c2, "payment.failed", 1)]

=============================================================================
