------------------------------- MODULE Escrow -------------------------------
(***************************************************************************)
(* The money path of PayWork, one service call at a time.                  *)
(*                                                                         *)
(* A contract holds milestones; the client funds it, the freelancer        *)
(* submits milestones, the client approves them, either party may open a   *)
(* dispute which an arbiter resolves by a percentage split, and the        *)
(* freelancer asks for payouts which finance marks as sent.  Money moves   *)
(* between four ledger accounts of the contract.                           *)
(*                                                                         *)
(* Each action is one call of a service function that commits, run alone:  *)
(* contracts/services.py, escrow/services.py, payments/services.py,        *)
(* disputes/services.py and payouts/services.py under src/app/src.  A call *)
(* that raises rolls its transaction back and changes nothing, so refusals *)
(* are the negated guards.  The caller is taken to be the party the call   *)
(* requires.  EscrowTx breaks the calls into the steps of their database   *)
(* transactions and shows when they implement this module.                 *)
(***************************************************************************)
EXTENDS Sums

CONSTANTS
  Contracts,      \* contract ids
  Milestones,     \* milestone ids
  ContractOf,     \* milestone.contract_id, fixed at creation
  Amount,         \* milestone.amount_minor, fixed at creation
  Percents,       \* the freelancer_percent values an arbiter rules
  PaidAmounts,    \* the amounts a payment event may report for a contract
  MaxInt          \* largest value of payment_transactions.amount_minor

ASSUME ContractsAssumption == Contracts \cap Milestones = {}

(***************************************************************************)
(* ContractCreateIn requires at least one milestone, MilestoneCreateIn a   *)
(* positive amount.                                                        *)
(***************************************************************************)
ASSUME MilestonesAssumption ==
  /\ IsFiniteSet(Milestones)
  /\ ContractOf \in [Milestones -> Contracts]
  /\ \A c \in Contracts : \E m \in Milestones : ContractOf[m] = c
  /\ Amount \in [Milestones -> Nat \ {0}]

(***************************************************************************)
(* DisputeResolveIn bounds the percentage; an event that reports no        *)
(* positive amount is read as the contract's total.                        *)
(***************************************************************************)
ASSUME InputsAssumption ==
  /\ Percents \subseteq 0 .. 100
  /\ PaidAmounts \in [Contracts -> SUBSET (Nat \ {0})]
  /\ MaxInt \in Nat

VARIABLES
  contract,       \* Contract.status, "absent" before the row exists
  milestone,      \* Milestone.status
  ledger,         \* the sum of the ledger entries of each account
  dispute,        \* status of the latest dispute on a contract or milestone
  ruling,         \* freelancer_amount the latest ruling gave a milestone
  payout          \* the payout row of a milestone

vars == <<contract, milestone, ledger, dispute, ruling, payout>>

-----------------------------------------------------------------------------

ContractStatus ==
  {"absent", "draft", "active", "disputed", "completed", "cancelled"}
MilestoneStatus ==
  {"absent", "pending", "submitted", "approved", "rejected", "disputed",
   "resolved"}
Accounts == {"client", "escrow", "freelancer", "payout"}
DisputeStatus == {"none", "open", "resolved"}
PayoutStatus == {"none", "pending", "sent"}

Targets == Contracts \cup Milestones

TypeOK ==
  /\ contract \in [Contracts -> ContractStatus]
  /\ milestone \in [Milestones -> MilestoneStatus]
  /\ ledger \in [Contracts -> [Accounts -> Int]]
  /\ dispute \in [Targets -> DisputeStatus]
  /\ ruling \in [Milestones -> Nat]
  /\ payout \in [Milestones -> [status : PayoutStatus, amount : Nat]]

\* Faulty: rules on approved milestones as well.
UnsettledWithApproved == {"pending", "submitted", "rejected", "approved"}
Unsettled == {"pending", "submitted", "rejected"}
Settled == {"approved", "resolved"}

MilestonesOf(c) == {m \in Milestones : ContractOf[m] = c}
Total(c) == Sum(Amount, MilestonesOf(c))
AllSettled(c) == \A m \in MilestonesOf(c) : milestone[m] \in Settled

(***************************************************************************)
(* At most one dispute is open on a contract, whatever its scope.          *)
(***************************************************************************)
DisputeOpen(c) ==
  \/ dispute[c] = "open"
  \/ \E m \in MilestonesOf(c) : dispute[m] = "open"

(***************************************************************************)
(* The shares of a ruling: the freelancer's is rounded down, the client    *)
(* gets the rest.                                                          *)
(***************************************************************************)
FreelancerShare(m, p) == (Amount[m] * p) \div 100
\* Faulty: rounds the client's share down as well.
ClientShareRounded(m, p) == (Amount[m] * (100 - p)) \div 100
ClientShare(m, p) == Amount[m] - FreelancerShare(m, p)

(***************************************************************************)
(* What the freelancer is owed for a milestone, and what has been asked    *)
(* for on a contract and not been sent yet.                                *)
(***************************************************************************)
Payable(m) ==
  CASE milestone[m] = "approved" -> Amount[m]
    [] milestone[m] = "resolved" -> ruling[m]
    [] OTHER -> 0

PayoutsWith(c, status) == {m \in MilestonesOf(c) : payout[m].status = status}
PayoutSum(c, status) ==
  Sum([m \in Milestones |-> payout[m].amount], PayoutsWith(c, status))

(***************************************************************************)
(* A balanced pair of ledger entries.                                      *)
(***************************************************************************)
Transfer(c, from, to, amount) ==
  ledger' = [ledger EXCEPT ![c][from] = @ - amount, ![c][to] = @ + amount]

-----------------------------------------------------------------------------

Init ==
  /\ contract = [c \in Contracts |-> "absent"]
  /\ milestone = [m \in Milestones |-> "absent"]
  /\ ledger = [c \in Contracts |-> [a \in Accounts |-> 0]]
  /\ dispute = [t \in Targets |-> "none"]
  /\ ruling = [m \in Milestones |-> 0]
  /\ payout = [m \in Milestones |-> [status |-> "none", amount |-> 0]]

CreateContract(c) ==
  /\ contract[c] = "absent"
  /\ contract' = [contract EXCEPT ![c] = "draft"]
  /\ milestone' = [m \in Milestones |->
                     IF m \in MilestonesOf(c) THEN "pending" ELSE milestone[m]]
  /\ UNCHANGED <<ledger, dispute, ruling, payout>>

(***************************************************************************)
(* POST /contracts/{id}/fund.  The payment row it writes has an integer    *)
(* amount: a total above MaxInt fails the flush and with it the call.      *)
(***************************************************************************)
FundContract(c) ==
  /\ contract[c] = "draft"
  /\ Total(c) \in 1 .. MaxInt
  /\ Transfer(c, "client", "escrow", Total(c))
  /\ contract' = [contract EXCEPT ![c] = "active"]
  /\ UNCHANGED <<milestone, dispute, ruling, payout>>

(***************************************************************************)
(* A payment event or the reconciliation sweep reports that amount was     *)
(* paid.  Nothing compares the amount with the contract's milestones.      *)
(***************************************************************************)
ConfirmFunding(c, amount) ==
  /\ contract[c] = "draft"
  /\ Transfer(c, "client", "escrow", amount)
  /\ contract' = [contract EXCEPT ![c] = "active"]
  /\ UNCHANGED <<milestone, dispute, ruling, payout>>

\* Faulty: forgets the milestone's status.
SubmitAnyStatus(m) ==
  /\ contract[ContractOf[m]] = "active"
  /\ milestone' = [milestone EXCEPT ![m] = "submitted"]
  /\ UNCHANGED <<contract, ledger, dispute, ruling, payout>>

\* Faulty: stores a status of the contract.
SubmitWrongStatus(m) ==
  /\ contract[ContractOf[m]] = "active"
  /\ milestone[m] \in {"pending", "rejected"}
  /\ milestone' = [milestone EXCEPT ![m] = "active"]
  /\ UNCHANGED <<contract, ledger, dispute, ruling, payout>>

SubmitMilestone(m) ==
  /\ contract[ContractOf[m]] = "active"
  /\ milestone[m] \in {"pending", "rejected"}
  /\ milestone' = [milestone EXCEPT ![m] = "submitted"]
  /\ UNCHANGED <<contract, ledger, dispute, ruling, payout>>

\* Faulty: does not look at the escrow balance.
ApproveUncovered(m) ==
  LET c == ContractOf[m] IN
  /\ contract[c] = "active"
  /\ milestone[m] = "submitted"
  /\ milestone' = [milestone EXCEPT ![m] = "approved"]
  /\ Transfer(c, "escrow", "freelancer", Amount[m])
  /\ contract' = [contract EXCEPT ![c] = IF AllSettled(c)' THEN "completed" ELSE @]
  /\ UNCHANGED <<dispute, ruling, payout>>

\* Faulty: forgets the milestone's status.
ApproveAnyStatus(m) ==
  LET c == ContractOf[m] IN
  /\ contract[c] = "active"
  /\ ledger[c]["escrow"] >= Amount[m]
  /\ milestone' = [milestone EXCEPT ![m] = "approved"]
  /\ Transfer(c, "escrow", "freelancer", Amount[m])
  /\ contract' = [contract EXCEPT ![c] = IF AllSettled(c)' THEN "completed" ELSE @]
  /\ UNCHANGED <<dispute, ruling, payout>>

(***************************************************************************)
(* Approval releases the milestone's amount and completes the contract     *)
(* when it was the last one.                                               *)
(***************************************************************************)
ApproveMilestone(m) ==
  LET c == ContractOf[m] IN
  /\ contract[c] = "active"
  /\ milestone[m] = "submitted"
  /\ ledger[c]["escrow"] >= Amount[m]
  /\ milestone' = [milestone EXCEPT ![m] = "approved"]
  /\ Transfer(c, "escrow", "freelancer", Amount[m])
  /\ contract' = [contract EXCEPT ![c] = IF AllSettled(c)' THEN "completed" ELSE @]
  /\ UNCHANGED <<dispute, ruling, payout>>

OpenMilestoneDispute(m) ==
  /\ ~DisputeOpen(ContractOf[m])
  /\ milestone[m] = "submitted"
  /\ milestone' = [milestone EXCEPT ![m] = "disputed"]
  /\ dispute' = [dispute EXCEPT ![m] = "open"]
  /\ UNCHANGED <<contract, ledger, ruling, payout>>

\* Faulty: only looks for another dispute on the whole contract.
OpenBesideMilestones(c) ==
  /\ contract[c] = "active"
  /\ contract' = [contract EXCEPT ![c] = "disputed"]
  /\ dispute' = [dispute EXCEPT ![c] = "open"]
  /\ UNCHANGED <<milestone, ledger, ruling, payout>>

OpenContractDispute(c) ==
  /\ ~DisputeOpen(c)
  /\ contract[c] = "active"
  /\ contract' = [contract EXCEPT ![c] = "disputed"]
  /\ dispute' = [dispute EXCEPT ![c] = "open"]
  /\ UNCHANGED <<milestone, ledger, ruling, payout>>

(***************************************************************************)
(* Splits the milestones of S, all of contract c, by the same percentage.  *)
(* One that escrow cannot pay refuses the whole ruling.                    *)
(***************************************************************************)
Settle(c, S, p) ==
  /\ ledger[c]["escrow"] >= Sum(Amount, S)
  /\ ledger' = [ledger EXCEPT
       ![c]["escrow"] = @ - Sum(Amount, S),
       ![c]["freelancer"] = @ + Sum([m \in Milestones |-> FreelancerShare(m, p)], S),
       ![c]["client"] = @ + Sum([m \in Milestones |-> ClientShare(m, p)], S)]
  /\ milestone' = [m \in Milestones |-> IF m \in S THEN "resolved" ELSE milestone[m]]
  /\ ruling' = [m \in Milestones |->
                  IF m \in S THEN FreelancerShare(m, p) ELSE ruling[m]]

\* Faulty: never completes the contract.
ResolveWithoutCompletion(m, p) ==
  /\ dispute[m] = "open"
  /\ Settle(ContractOf[m], {m}, p)
  /\ dispute' = [dispute EXCEPT ![m] = "resolved"]
  /\ UNCHANGED <<contract, payout>>

ResolveMilestoneDispute(m, p) ==
  LET c == ContractOf[m] IN
  /\ dispute[m] = "open"
  /\ Settle(c, {m}, p)
  /\ dispute' = [dispute EXCEPT ![m] = "resolved"]
  /\ contract' = [contract EXCEPT ![c] = IF AllSettled(c)' THEN "completed" ELSE @]
  /\ UNCHANGED payout

ResolveContractDispute(c, p) ==
  LET S == {m \in MilestonesOf(c) : milestone[m] \in Unsettled} IN
  /\ dispute[c] = "open"
  /\ S # {}
  /\ Settle(c, S, p)
  /\ dispute' = [dispute EXCEPT ![c] = "resolved"]
  /\ contract' = [contract EXCEPT ![c] =
                    IF AllSettled(c)' THEN "completed" ELSE "active"]
  /\ UNCHANGED payout

(***************************************************************************)
(* One payout per milestone, and only against money that no earlier        *)
(* request has claimed.                                                    *)
(***************************************************************************)
RequestPayout(m) ==
  LET c == ContractOf[m] IN
  /\ Payable(m) > 0
  /\ payout[m].status = "none"
  /\ ledger[c]["freelancer"] - PayoutSum(c, "pending") >= Payable(m)
  /\ payout' = [payout EXCEPT ![m] = [status |-> "pending", amount |-> Payable(m)]]
  /\ UNCHANGED <<contract, milestone, ledger, dispute, ruling>>

\* Faulty: sends again what has been sent.
MarkSentAgain(m) ==
  LET c == ContractOf[m] IN
  /\ payout[m].status # "none"
  /\ ledger[c]["freelancer"] >= payout[m].amount
  /\ Transfer(c, "freelancer", "payout", payout[m].amount)
  /\ payout' = [payout EXCEPT ![m].status = "sent"]
  /\ UNCHANGED <<contract, milestone, dispute, ruling>>

MarkPayoutSent(m) ==
  LET c == ContractOf[m] IN
  /\ payout[m].status = "pending"
  /\ ledger[c]["freelancer"] >= payout[m].amount
  /\ Transfer(c, "freelancer", "payout", payout[m].amount)
  /\ payout' = [payout EXCEPT ![m].status = "sent"]
  /\ UNCHANGED <<contract, milestone, dispute, ruling>>

Next ==
  \/ \E c \in Contracts :
       \/ CreateContract(c)
       \/ FundContract(c)
       \/ \E amount \in PaidAmounts[c] : ConfirmFunding(c, amount)
       \/ OpenContractDispute(c)
       \/ \E p \in Percents : ResolveContractDispute(c, p)
  \/ \E m \in Milestones :
       \/ SubmitMilestone(m)
       \/ ApproveMilestone(m)
       \/ OpenMilestoneDispute(m)
       \/ \E p \in Percents : ResolveMilestoneDispute(m, p)
       \/ RequestPayout(m)
       \/ MarkPayoutSent(m)

Spec == Init /\ [][Next]_vars

-----------------------------------------------------------------------------
(***************************************************************************)
(* Properties.                                                             *)
(***************************************************************************)

(***************************************************************************)
(* No money is created or lost: the four accounts of a contract always add *)
(* up to zero, whatever amount was paid in, however a ruling was rounded   *)
(* and however many milestones it covered (add_ledger_entries in           *)
(* escrow/services.py is only ever given balanced rows).                   *)
(***************************************************************************)
LedgerBalanced ==
  \A c \in Contracts :
    ledger[c]["client"] + ledger[c]["escrow"] + ledger[c]["freelancer"]
      + ledger[c]["payout"] = 0

(***************************************************************************)
(* Escrow is never overdrawn, also when the payment event reported less    *)
(* than the milestones add up to (the balance checks of release_milestone  *)
(* and split_milestone).                                                   *)
(***************************************************************************)
EscrowNotOverdrawn == \A c \in Contracts : ledger[c]["escrow"] >= 0

(***************************************************************************)
(* The freelancer has been credited, once, exactly what the approvals and  *)
(* the rulings awarded: what is on the account and what has already left   *)
(* it make up the sum over the settled milestones (release_milestone,      *)
(* split_milestone, record_payout against _payable_amount).  The amounts   *)
(* are whole: the ledger has no account for a fee (see FeesDeducted).      *)
(***************************************************************************)
PayableOf == [m \in Milestones |-> Payable(m)]
FreelancerOwed ==
  \A c \in Contracts :
    ledger[c]["freelancer"] + ledger[c]["payout"]
      = Sum(PayableOf, MilestonesOf(c))

(***************************************************************************)
(* contracts/router.py says that approval "releases escrow funds to        *)
(* freelancer, and deducts platform fee", escrow/router.py that the        *)
(* statement shows "platform fees": with a milestone approved, what the    *)
(* freelancer has been credited would be less than what was awarded.       *)
(***************************************************************************)
FeesDeducted ==
  \A c \in Contracts :
    (\E m \in MilestonesOf(c) : milestone[m] = "approved") =>
      ledger[c]["freelancer"] + ledger[c]["payout"]
        < Sum(PayableOf, MilestonesOf(c))

(***************************************************************************)
(* A payout is only ever for what its milestone earned, the money that     *)
(* left is the sum of the payouts sent, and every payout still pending is  *)
(* covered by the freelancer's balance: finance can always send it         *)
(* (request_payout, mark_payout_sent, record_payout).                      *)
(***************************************************************************)
PayoutsCovered ==
  /\ \A m \in Milestones :
       payout[m].status # "none" => payout[m].amount = Payable(m)
  /\ \A c \in Contracts :
       /\ ledger[c]["payout"] = PayoutSum(c, "sent")
       /\ ledger[c]["freelancer"] >= PayoutSum(c, "pending")

(***************************************************************************)
(* Statuses and disputes agree: a milestone is disputed while its own      *)
(* dispute is open, a contract while the dispute on all of it is open, and *)
(* never are two disputes of one contract open (open_dispute,              *)
(* resolve_dispute).                                                       *)
(***************************************************************************)
DisputesCoherent ==
  /\ \A m \in Milestones : milestone[m] = "disputed" <=> dispute[m] = "open"
  /\ \A c \in Contracts : contract[c] = "disputed" <=> dispute[c] = "open"
  /\ \A c \in Contracts : \A s, t \in {c} \cup MilestonesOf(c) :
       dispute[s] = "open" /\ dispute[t] = "open" => s = t

(***************************************************************************)
(* A contract is completed exactly when all its milestones are settled,    *)
(* and nothing happens to the milestones before it is funded: no call      *)
(* leaves a finished contract active or finishes one early                 *)
(* (complete_contract_if_all_milestones_approved, called from two places). *)
(***************************************************************************)
CompletedIffSettled ==
  \A c \in Contracts :
    /\ contract[c] = "completed" <=> AllSettled(c)
    /\ \A m \in MilestonesOf(c) : contract[c] = "absent" <=> milestone[m] = "absent"
    /\ contract[c] = "draft" => \A m \in MilestonesOf(c) : milestone[m] = "pending"

(***************************************************************************)
(* The next two presume that every payment event reports the contract's    *)
(* total, as funding through the API does.                                 *)
(***************************************************************************)
ExactPayments == \A c \in Contracts : PaidAmounts[c] \subseteq {Total(c)}

(***************************************************************************)
(* Once a contract is funded, escrow holds exactly the amounts of the      *)
(* milestones that are not settled: every approval and every ruling can be *)
(* paid, and nothing is left behind when the contract completes.           *)
(***************************************************************************)
EscrowCoversUnsettled ==
  \A c \in Contracts :
    contract[c] \notin {"absent", "draft"} =>
      ledger[c]["escrow"] =
        Sum(Amount, {m \in MilestonesOf(c) : milestone[m] \notin Settled})

(***************************************************************************)
(* No open dispute is a dead end: there is still something in escrow to    *)
(* rule on and escrow can pay the ruling, so that resolve_dispute does not *)
(* answer nothing_to_resolve or insufficient_escrow_balance.               *)
(***************************************************************************)
RulingAlwaysPossible ==
  /\ \A m \in Milestones :
       dispute[m] = "open" => ledger[ContractOf[m]]["escrow"] >= Amount[m]
  /\ \A c \in Contracts :
       LET S == {m \in MilestonesOf(c) : milestone[m] \in Unsettled} IN
       dispute[c] = "open" => S # {} /\ ledger[c]["escrow"] >= Sum(Amount, S)

(***************************************************************************)
(* Settlement is final: no sequence of calls reopens an approved or        *)
(* resolved milestone, rewrites its ruling, reverts a payout or takes a    *)
(* completed contract back.                                                *)
(***************************************************************************)
MilestonesKept ==
  \A m \in Milestones : milestone[m] \in Settled =>
    milestone'[m] = milestone[m] /\ ruling'[m] = ruling[m]

PayoutsKept ==
  \A m \in Milestones : payout[m].status # "none" =>
    /\ payout'[m].amount = payout[m].amount
    /\ payout[m].status = "sent" => payout'[m].status = "sent"

CompletedKept ==
  \A c \in Contracts : contract[c] = "completed" => contract'[c] = "completed"

SettledForever == [][MilestonesKept /\ PayoutsKept /\ CompletedKept]_vars

=============================================================================
