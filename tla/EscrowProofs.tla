---------------------------- MODULE EscrowProofs ----------------------------
(***************************************************************************)
(* The invariants of Escrow for every set of contracts and milestones, all *)
(* amounts and all rulings.                                                *)
(***************************************************************************)
EXTENDS Escrow, SumTheorems

(***************************************************************************)
(* A contract's milestones are finitely many, and so is any part of them.  *)
(***************************************************************************)
LEMMA FinitelyMany ==
  ASSUME NEW S, S \subseteq Milestones
  PROVE  IsFiniteSet(S)
BY MilestonesAssumption, FS_Subset

LEMMA MilestonesOfFinite ==
  ASSUME NEW c
  PROVE  MilestonesOf(c) \subseteq Milestones /\ IsFiniteSet(MilestonesOf(c))
BY FinitelyMany DEF MilestonesOf

(***************************************************************************)
(* split_milestone divides an amount into two natural shares that add up.  *)
(***************************************************************************)
LEMMA SharesType ==
  ASSUME NEW m \in Milestones, NEW p \in Percents
  PROVE  /\ FreelancerShare(m, p) \in Nat
         /\ ClientShare(m, p) \in Nat
         /\ Amount[m] = FreelancerShare(m, p) + ClientShare(m, p)
<1> DEFINE a == Amount[m]
<1>1. a \in Nat /\ p \in 0 .. 100
  BY MilestonesAssumption, InputsAssumption
<1>2. a * p \in 0 .. a * 100
  BY <1>1
<1>3. (a * p) \div 100 \in 0 .. a
  <2> HIDE DEF a
  <2> SUFFICES ASSUME NEW x \in Int, x = a * p PROVE x \div 100 \in 0 .. a
    BY <1>1
  <2> QED
    BY <1>1, <1>2
<1> QED
  BY <1>1, <1>3 DEF FreelancerShare, ClientShare

(***************************************************************************)
(* The shares of a ruling on several milestones add up to their amounts.   *)
(***************************************************************************)
LEMMA SharesSum ==
  ASSUME NEW S, S \subseteq Milestones, NEW p \in Percents
  PROVE  LET F == Sum([m \in Milestones |-> FreelancerShare(m, p)], S)
             C == Sum([m \in Milestones |-> ClientShare(m, p)], S)
         IN  F \in Nat /\ C \in Nat /\ Sum(Amount, S) = F + C
<1> DEFINE f == [m \in Milestones |-> FreelancerShare(m, p)]
           g == [m \in Milestones |-> ClientShare(m, p)]
<1>1. IsFiniteSet(S)
  BY FinitelyMany
<1>2. \A m \in S : f[m] \in Nat /\ g[m] \in Nat /\ Amount[m] = f[m] + g[m]
  BY SharesType
<1> HIDE DEF f, g
<1>3. Sum(f, S) \in Nat /\ Sum(g, S) \in Nat
  BY <1>1, <1>2, SumType
<1>4. Sum(Amount, S) = Sum(f, S) + Sum(g, S)
  BY <1>1, <1>2, SumPlus
<1> QED
  BY <1>3, <1>4 DEF f, g

LEMMA AmountSum ==
  ASSUME NEW S, S \subseteq Milestones
  PROVE  Sum(Amount, S) \in Nat
BY FinitelyMany, SumType, MilestonesAssumption

-----------------------------------------------------------------------------
(***************************************************************************)
(* Type correctness.                                                       *)
(***************************************************************************)

LEMMA TransferType ==
  ASSUME NEW c \in Contracts, NEW from \in Accounts, NEW to \in Accounts,
         NEW amount \in Int, TypeOK, Transfer(c, from, to, amount)
  PROVE  ledger' \in [Contracts -> [Accounts -> Int]]
BY DEF TypeOK, Transfer

LEMMA SettleType ==
  ASSUME NEW c \in Contracts, NEW S, S \subseteq Milestones,
         NEW p \in Percents, TypeOK, Settle(c, S, p)
  PROVE  /\ ledger' \in [Contracts -> [Accounts -> Int]]
         /\ milestone' \in [Milestones -> MilestoneStatus]
         /\ ruling' \in [Milestones -> Nat]
<1>1. ledger' \in [Contracts -> [Accounts -> Int]]
  BY SharesSum, AmountSum DEF TypeOK, Settle, Accounts
<1>2. milestone' \in [Milestones -> MilestoneStatus]
  BY DEF TypeOK, Settle, MilestoneStatus
<1>3. ruling' \in [Milestones -> Nat]
  BY SharesType DEF TypeOK, Settle
<1> QED
  BY <1>1, <1>2, <1>3

LEMMA InitType == Init => TypeOK
BY DEF Init, TypeOK, ContractStatus, MilestoneStatus, DisputeStatus,
       PayoutStatus, Accounts

LEMMA NextType == TypeOK /\ [Next]_vars => TypeOK'
<1> SUFFICES ASSUME TypeOK, [Next]_vars PROVE TypeOK'
  OBVIOUS
<1> USE DEF ContractStatus, MilestoneStatus, DisputeStatus, PayoutStatus
<1>1. ASSUME NEW c \in Contracts, CreateContract(c) PROVE TypeOK'
  BY <1>1 DEF TypeOK, CreateContract
<1>2. ASSUME NEW c \in Contracts, FundContract(c) PROVE TypeOK'
  <2>1. Total(c) \in Int
    BY AmountSum, MilestonesOfFinite DEF Total
  <2> QED
    BY <1>2, <2>1 DEF TypeOK, FundContract, Transfer, Accounts
<1>3. ASSUME NEW c \in Contracts, NEW a \in PaidAmounts[c], ConfirmFunding(c, a)
      PROVE TypeOK'
  <2>1. a \in Nat
    BY InputsAssumption
  <2> QED
    BY <1>3, <2>1 DEF TypeOK, ConfirmFunding, Transfer, Accounts
<1>4. ASSUME NEW c \in Contracts, OpenContractDispute(c) PROVE TypeOK'
  BY <1>4 DEF TypeOK, OpenContractDispute, Targets
<1>5. ASSUME NEW c \in Contracts, NEW p \in Percents, ResolveContractDispute(c, p)
      PROVE TypeOK'
  <2> DEFINE S == {m \in MilestonesOf(c) : milestone[m] \in Unsettled}
  <2>1. S \subseteq Milestones /\ Settle(c, S, p)
    BY <1>5 DEF ResolveContractDispute, MilestonesOf
  <2> HIDE DEF S
  <2> QED
    BY <1>5, <2>1, SettleType DEF TypeOK, ResolveContractDispute, Targets
<1>6. ASSUME NEW m \in Milestones, SubmitMilestone(m) PROVE TypeOK'
  BY <1>6 DEF TypeOK, SubmitMilestone
<1>7. ASSUME NEW m \in Milestones, ApproveMilestone(m) PROVE TypeOK'
  <2>1. ContractOf[m] \in Contracts /\ Amount[m] \in Int
    BY MilestonesAssumption
  <2>2. ledger' \in [Contracts -> [Accounts -> Int]]
    BY <1>7, <2>1, TransferType DEF ApproveMilestone, Accounts
  <2> QED
    BY <1>7, <2>1, <2>2 DEF TypeOK, ApproveMilestone
<1>8. ASSUME NEW m \in Milestones, OpenMilestoneDispute(m) PROVE TypeOK'
  BY <1>8 DEF TypeOK, OpenMilestoneDispute, Targets
<1>9. ASSUME NEW m \in Milestones, NEW p \in Percents, ResolveMilestoneDispute(m, p)
      PROVE TypeOK'
  <2>1. {m} \subseteq Milestones /\ ContractOf[m] \in Contracts
    BY MilestonesAssumption
  <2> QED
    BY <1>9, <2>1, SettleType DEF TypeOK, ResolveMilestoneDispute, Targets
<1>10. ASSUME NEW m \in Milestones, RequestPayout(m) PROVE TypeOK'
  <2>1. Payable(m) \in Nat
    BY MilestonesAssumption DEF TypeOK, Payable
  <2> QED
    BY <1>10, <2>1 DEF TypeOK, RequestPayout
<1>11. ASSUME NEW m \in Milestones, MarkPayoutSent(m) PROVE TypeOK'
  <2>1. ContractOf[m] \in Contracts /\ payout[m].amount \in Int
    BY MilestonesAssumption DEF TypeOK
  <2>2. ledger' \in [Contracts -> [Accounts -> Int]]
    BY <1>11, <2>1, TransferType DEF MarkPayoutSent, Accounts
  <2> QED
    BY <1>11, <2>2 DEF TypeOK, MarkPayoutSent
<1>12. CASE UNCHANGED vars
  BY <1>12 DEF TypeOK, vars
<1> QED
  BY <1>1, <1>2, <1>3, <1>4, <1>5, <1>6, <1>7, <1>8, <1>9, <1>10, <1>11, <1>12
     DEF Next

(***************************************************************************)
(* Every variable keeps its type in every behaviour: no call writes a      *)
(* status outside the enumerations of the models or a fraction of a unit.  *)
(***************************************************************************)
THEOREM TypeCorrect == Spec => []TypeOK
BY InitType, NextType, PTL DEF Spec

-----------------------------------------------------------------------------
(***************************************************************************)
(* What a balanced pair of entries and a ruling do to the accounts.        *)
(***************************************************************************)

LEMMA TransferEffect ==
  ASSUME NEW c \in Contracts, NEW from \in Accounts, NEW to \in Accounts,
         from # to, NEW amount \in Int, TypeOK, Transfer(c, from, to, amount)
  PROVE  /\ ledger'[c][from] = ledger[c][from] - amount
         /\ ledger'[c][to] = ledger[c][to] + amount
         /\ \A a \in Accounts \ {from, to} : ledger'[c][a] = ledger[c][a]
         /\ \A d \in Contracts \ {c} : ledger'[d] = ledger[d]
BY DEF TypeOK, Transfer

LEMMA SettleEffect ==
  ASSUME NEW c \in Contracts, NEW S, NEW p, TypeOK, Settle(c, S, p)
  PROVE  /\ ledger'[c]["escrow"] = ledger[c]["escrow"] - Sum(Amount, S)
         /\ ledger'[c]["freelancer"] = ledger[c]["freelancer"]
               + Sum([m \in Milestones |-> FreelancerShare(m, p)], S)
         /\ ledger'[c]["client"] = ledger[c]["client"]
               + Sum([m \in Milestones |-> ClientShare(m, p)], S)
         /\ ledger'[c]["payout"] = ledger[c]["payout"]
         /\ \A d \in Contracts \ {c} : ledger'[d] = ledger[d]
         /\ \A m \in Milestones : /\ m \in S => milestone'[m] = "resolved"
                                  /\ m \notin S => milestone'[m] = milestone[m]
BY DEF TypeOK, Settle, Accounts

(***************************************************************************)
(* Conservation of money.                                                  *)
(***************************************************************************)

LEMMA TransferBalanced ==
  ASSUME NEW c \in Contracts, NEW from \in Accounts, NEW to \in Accounts,
         from # to, NEW amount \in Int,
         TypeOK, LedgerBalanced, Transfer(c, from, to, amount)
  PROVE  LedgerBalanced'
<1>1. /\ ledger'[c][from] = ledger[c][from] - amount
      /\ ledger'[c][to] = ledger[c][to] + amount
      /\ \A a \in Accounts \ {from, to} : ledger'[c][a] = ledger[c][a]
      /\ \A d \in Contracts \ {c} : ledger'[d] = ledger[d]
  BY TransferEffect
<1>2. \A a \in Accounts : ledger[c][a] \in Int
  BY DEF TypeOK
<1>3. ledger[c]["client"] + ledger[c]["escrow"] + ledger[c]["freelancer"]
        + ledger[c]["payout"] = 0
  BY DEF LedgerBalanced
<1>4. ledger'[c]["client"] + ledger'[c]["escrow"] + ledger'[c]["freelancer"]
        + ledger'[c]["payout"] = 0
  <2>1. CASE from = "client"
    BY <2>1, <1>1, <1>2, <1>3 DEF Accounts
  <2>2. CASE from = "escrow"
    BY <2>2, <1>1, <1>2, <1>3 DEF Accounts
  <2>3. CASE from = "freelancer"
    BY <2>3, <1>1, <1>2, <1>3 DEF Accounts
  <2>4. CASE from = "payout"
    BY <2>4, <1>1, <1>2, <1>3 DEF Accounts
  <2> QED
    BY <2>1, <2>2, <2>3, <2>4 DEF Accounts
<1> QED
  BY <1>1, <1>4 DEF LedgerBalanced

LEMMA SettleBalanced ==
  ASSUME NEW c \in Contracts, NEW S, S \subseteq Milestones,
         NEW p \in Percents, TypeOK, LedgerBalanced, Settle(c, S, p)
  PROVE  LedgerBalanced'
<1> DEFINE F == Sum([m \in Milestones |-> FreelancerShare(m, p)], S)
           C == Sum([m \in Milestones |-> ClientShare(m, p)], S)
           A == Sum(Amount, S)
<1>1. F \in Nat /\ C \in Nat /\ A = F + C
  BY SharesSum
<1>2. /\ ledger'[c]["escrow"] = ledger[c]["escrow"] - A
      /\ ledger'[c]["freelancer"] = ledger[c]["freelancer"] + F
      /\ ledger'[c]["client"] = ledger[c]["client"] + C
      /\ ledger'[c]["payout"] = ledger[c]["payout"]
      /\ \A d \in Contracts \ {c} : ledger'[d] = ledger[d]
  BY SettleEffect
<1>3. \A d \in Contracts, a \in Accounts : ledger[d][a] \in Int
  BY DEF TypeOK
<1> HIDE DEF F, C, A
<1> QED
  BY <1>1, <1>2, <1>3 DEF LedgerBalanced, Accounts

LEMMA InitBalanced == Init => LedgerBalanced
BY DEF Init, LedgerBalanced, Accounts

LEMMA NextBalanced == TypeOK /\ LedgerBalanced /\ [Next]_vars => LedgerBalanced'
<1> SUFFICES ASSUME TypeOK, LedgerBalanced, [Next]_vars PROVE LedgerBalanced'
  OBVIOUS
<1>1. ASSUME NEW c \in Contracts, FundContract(c) PROVE LedgerBalanced'
  <2>1. Total(c) \in Int
    BY AmountSum, MilestonesOfFinite DEF Total
  <2> QED
    BY <1>1, <2>1, TransferBalanced DEF FundContract, Accounts
<1>2. ASSUME NEW c \in Contracts, NEW a \in PaidAmounts[c], ConfirmFunding(c, a)
      PROVE LedgerBalanced'
  <2>1. a \in Int
    BY InputsAssumption
  <2> QED
    BY <1>2, <2>1, TransferBalanced DEF ConfirmFunding, Accounts
<1>3. ASSUME NEW c \in Contracts, NEW p \in Percents, ResolveContractDispute(c, p)
      PROVE LedgerBalanced'
  <2> DEFINE S == {m \in MilestonesOf(c) : milestone[m] \in Unsettled}
  <2>1. S \subseteq Milestones /\ Settle(c, S, p)
    BY <1>3 DEF ResolveContractDispute, MilestonesOf
  <2> HIDE DEF S
  <2> QED
    BY <2>1, SettleBalanced
<1>4. ASSUME NEW m \in Milestones, NEW p \in Percents, ResolveMilestoneDispute(m, p)
      PROVE LedgerBalanced'
  <2>1. {m} \subseteq Milestones /\ ContractOf[m] \in Contracts
    BY MilestonesAssumption
  <2> QED
    BY <1>4, <2>1, SettleBalanced DEF ResolveMilestoneDispute
<1>5. ASSUME NEW m \in Milestones, ApproveMilestone(m) PROVE LedgerBalanced'
  <2>1. ContractOf[m] \in Contracts /\ Amount[m] \in Int
    BY MilestonesAssumption
  <2> QED
    BY <1>5, <2>1, TransferBalanced DEF ApproveMilestone, Accounts
<1>6. ASSUME NEW m \in Milestones, MarkPayoutSent(m) PROVE LedgerBalanced'
  <2>1. ContractOf[m] \in Contracts /\ payout[m].amount \in Int
    BY MilestonesAssumption DEF TypeOK
  <2> QED
    BY <1>6, <2>1, TransferBalanced DEF MarkPayoutSent, Accounts
<1>7. ASSUME UNCHANGED ledger PROVE LedgerBalanced'
  BY <1>7 DEF LedgerBalanced
<1> QED
  BY <1>1, <1>2, <1>3, <1>4, <1>5, <1>6, <1>7
     DEF Next, vars, CreateContract, OpenContractDispute, SubmitMilestone,
         OpenMilestoneDispute, RequestPayout

(***************************************************************************)
(* Conservation of money: the accounts of a contract add up to zero in     *)
(* every reachable state, whatever amounts are paid in and however the     *)
(* arbiter's percentages round.                                            *)
(***************************************************************************)
THEOREM MoneyConserved == Spec => []LedgerBalanced
<1>1. Init => TypeOK /\ LedgerBalanced
  BY InitType, InitBalanced
<1>2. TypeOK /\ LedgerBalanced /\ [Next]_vars => (TypeOK /\ LedgerBalanced)'
  BY NextType, NextBalanced
<1> QED
  BY <1>1, <1>2, PTL DEF Spec

-----------------------------------------------------------------------------
(***************************************************************************)
(* Statuses: disputes and completion.  The two invariants are inductive    *)
(* together: that a disputed milestone's contract is neither completed nor *)
(* disputed as a whole comes from one, that it has a dispute of its own    *)
(* from the other.                                                         *)
(***************************************************************************)

StatusInv == TypeOK /\ DisputesCoherent /\ CompletedIffSettled

LEMMA InitStatus == Init => StatusInv
<1> SUFFICES ASSUME Init PROVE StatusInv
  OBVIOUS
<1>1. TypeOK
  BY InitType
<1>2. DisputesCoherent
  BY DEF Init, DisputesCoherent, Targets, MilestonesOf
<1>3. CompletedIffSettled
  BY MilestonesAssumption
     DEF Init, CompletedIffSettled, AllSettled, Settled, MilestonesOf
<1> QED
  BY <1>1, <1>2, <1>3 DEF StatusInv

LEMMA ResolveMilestoneStatus ==
  ASSUME NEW m \in Milestones, NEW p \in Percents, StatusInv,
         ResolveMilestoneDispute(m, p)
  PROVE  DisputesCoherent' /\ CompletedIffSettled'
<1> DEFINE c == ContractOf[m]
<1>1. c \in Contracts /\ m \in MilestonesOf(c)
  BY MilestonesAssumption DEF MilestonesOf
<1>2. \A n \in Milestones : milestone'[n] = IF n = m THEN "resolved" ELSE milestone[n]
  <2> DEFINE S == {m}
  <2>1. TypeOK /\ Settle(c, S, p)
    BY DEF ResolveMilestoneDispute, StatusInv
  <2>2. \A n \in Milestones : n \in S <=> n = m
    OBVIOUS
  <2> HIDE DEF S, c
  <2> QED
    BY <1>1, <2>1, <2>2, SettleEffect
<1>3. /\ dispute[m] = "open"
      /\ dispute' = [dispute EXCEPT ![m] = "resolved"]
      /\ contract' = [contract EXCEPT ![c] =
                        IF AllSettled(c)' THEN "completed" ELSE @]
  BY DEF ResolveMilestoneDispute
<1>4. /\ milestone[m] = "disputed"
      /\ contract[c] \notin {"completed", "absent", "draft", "disputed"}
  <2>1. milestone[m] = "disputed"
    BY <1>3 DEF StatusInv, DisputesCoherent
  <2>2. contract[c] # "disputed"
    BY <1>1, <1>3, ContractsAssumption DEF StatusInv, DisputesCoherent
  <2>3. contract[c] \notin {"completed", "absent", "draft"}
    BY <1>1, <2>1
       DEF StatusInv, CompletedIffSettled, AllSettled, Settled
  <2> QED
    BY <2>1, <2>2, <2>3
<1>5. DisputesCoherent'
  <2>1. m \notin Contracts /\ \A d \in Contracts : dispute'[d] = dispute[d]
    BY <1>3, ContractsAssumption DEF StatusInv, TypeOK, Targets
  <2>2. \A n \in Milestones : dispute'[n] = IF n = m THEN "resolved" ELSE dispute[n]
    BY <1>3 DEF StatusInv, TypeOK, Targets
  <2>3. \A d \in Contracts : contract'[d] = "disputed" <=> contract[d] = "disputed"
    BY <1>1, <1>3, <1>4 DEF StatusInv, TypeOK
  <2> QED
    BY <1>2, <2>1, <2>2, <2>3 DEF StatusInv, DisputesCoherent, MilestonesOf
<1>6. CompletedIffSettled'
  <2>1. \A d \in Contracts \ {c} : contract'[d] = contract[d] /\ m \notin MilestonesOf(d)
    BY <1>1, <1>3 DEF StatusInv, TypeOK, MilestonesOf
  <2>2. contract'[c] = IF AllSettled(c)' THEN "completed" ELSE contract[c]
    BY <1>1, <1>3 DEF StatusInv, TypeOK
  <2>3. ASSUME NEW d \in Contracts \ {c}
        PROVE  \A n \in MilestonesOf(d) : milestone'[n] = milestone[n]
    BY <1>2, <2>1 DEF MilestonesOf
  <2> HIDE DEF c
  <2>4. \A n \in MilestonesOf(c) : milestone'[n] # "absent"
    BY <1>1, <1>2, <1>4 DEF StatusInv, CompletedIffSettled, MilestonesOf
  <2> QED
    BY <1>4, <2>1, <2>2, <2>3, <2>4
       DEF StatusInv, CompletedIffSettled, AllSettled, MilestonesOf
<1> QED
  BY <1>5, <1>6

LEMMA ResolveContractStatus ==
  ASSUME NEW c \in Contracts, NEW p \in Percents, StatusInv,
         ResolveContractDispute(c, p)
  PROVE  DisputesCoherent' /\ CompletedIffSettled'
<1> DEFINE S == {m \in MilestonesOf(c) : milestone[m] \in Unsettled}
<1>1. S \subseteq MilestonesOf(c) /\ \A m \in S : milestone[m] \in Unsettled
  OBVIOUS
<1>2. \A n \in Milestones : milestone'[n] = IF n \in S THEN "resolved" ELSE milestone[n]
  <2>1. TypeOK /\ Settle(c, S, p)
    BY DEF ResolveContractDispute, StatusInv
  <2> HIDE DEF S
  <2> QED
    BY <2>1, SettleEffect
<1>3. /\ dispute[c] = "open"
      /\ dispute' = [dispute EXCEPT ![c] = "resolved"]
      /\ contract' = [contract EXCEPT ![c] =
                        IF AllSettled(c)' THEN "completed" ELSE "active"]
  BY DEF ResolveContractDispute
<1> HIDE DEF S
<1>4. \A m \in Milestones : milestone[m] = "disputed" => m \notin S
  BY <1>1 DEF Unsettled
<1>5. DisputesCoherent'
  <2>1. c \notin Milestones /\ \A m \in Milestones : dispute'[m] = dispute[m]
    BY <1>3, ContractsAssumption DEF StatusInv, TypeOK, Targets
  <2>2. \A d \in Contracts : dispute'[d] = IF d = c THEN "resolved" ELSE dispute[d]
    BY <1>3 DEF StatusInv, TypeOK, Targets
  <2>3. contract'[c] # "disputed" /\ \A d \in Contracts \ {c} : contract'[d] = contract[d]
    BY <1>3 DEF StatusInv, TypeOK
  <2>4. \A m \in Milestones : milestone'[m] = "disputed" <=> milestone[m] = "disputed"
    BY <1>2, <1>4
  <2> QED
    BY <2>1, <2>2, <2>3, <2>4 DEF StatusInv, DisputesCoherent, MilestonesOf
<1>6. CompletedIffSettled'
  <2>1. contract[c] = "disputed"
    BY <1>3 DEF StatusInv, DisputesCoherent
  <2>2. \A n \in MilestonesOf(c) : milestone'[n] # "absent"
    BY <1>2, <2>1 DEF StatusInv, CompletedIffSettled, MilestonesOf
  <2>3. contract'[c] = IF AllSettled(c)' THEN "completed" ELSE "active"
    BY <1>3 DEF StatusInv, TypeOK
  <2>4. ASSUME NEW d \in Contracts \ {c}
        PROVE  /\ contract'[d] = contract[d]
               /\ \A n \in MilestonesOf(d) : milestone'[n] = milestone[n]
    BY <1>1, <1>2, <1>3 DEF StatusInv, TypeOK, MilestonesOf
  <2> QED
    BY <2>2, <2>3, <2>4
       DEF StatusInv, CompletedIffSettled, AllSettled, MilestonesOf
<1> QED
  BY <1>5, <1>6

LEMMA OpenMilestoneStatus ==
  ASSUME NEW m \in Milestones, StatusInv, OpenMilestoneDispute(m)
  PROVE  DisputesCoherent' /\ CompletedIffSettled'
<1> DEFINE c == ContractOf[m]
<1>1. c \in Contracts /\ m \in MilestonesOf(c) /\ m \notin Contracts
  BY MilestonesAssumption, ContractsAssumption DEF MilestonesOf
<1>2. /\ milestone[m] = "submitted"
      /\ \A n \in Milestones : milestone'[n] = IF n = m THEN "disputed" ELSE milestone[n]
      /\ \A t \in Targets : dispute'[t] = IF t = m THEN "open" ELSE dispute[t]
      /\ UNCHANGED contract
  BY DEF OpenMilestoneDispute, StatusInv, TypeOK, Targets
<1>3. dispute[c] # "open" /\ \A n \in MilestonesOf(c) : dispute[n] # "open"
  BY DEF OpenMilestoneDispute, DisputeOpen
<1> HIDE DEF c
<1>4. DisputesCoherent'
  <2>1. \A n \in Milestones : milestone'[n] = "disputed" <=> dispute'[n] = "open"
    BY <1>2 DEF StatusInv, DisputesCoherent, Targets
  <2>2. \A d \in Contracts : contract'[d] = "disputed" <=> dispute'[d] = "open"
    BY <1>1, <1>2 DEF StatusInv, DisputesCoherent, Targets
  <2>3. ASSUME NEW d \in Contracts, NEW s \in {d} \cup MilestonesOf(d),
               NEW t \in {d} \cup MilestonesOf(d),
               dispute'[s] = "open", dispute'[t] = "open"
        PROVE  s = t
    <3>1. s \in Targets /\ t \in Targets
      BY DEF Targets, MilestonesOf
    <3>2. CASE d = c
      BY <3>1, <3>2, <2>3, <1>2, <1>3
    <3>3. CASE d # c
      <4>1. s # m /\ t # m
        BY <3>3, <1>1 DEF MilestonesOf, c
      <4> QED
        BY <4>1, <3>1, <2>3, <1>2 DEF StatusInv, DisputesCoherent
    <3> QED
      BY <3>2, <3>3
  <2> QED
    BY <2>1, <2>2, <2>3 DEF DisputesCoherent, MilestonesOf
<1>5. CompletedIffSettled'
  <2>1. contract[c] \notin {"completed", "absent", "draft"}
    BY <1>1, <1>2 DEF StatusInv, CompletedIffSettled, AllSettled, Settled
  <2>2. ~AllSettled(c)'
    BY <1>1, <1>2 DEF AllSettled, Settled, MilestonesOf
  <2>3. \A d \in Contracts \ {c} : \A n \in MilestonesOf(d) : milestone'[n] = milestone[n]
    BY <1>2 DEF MilestonesOf, c
  <2>4. \A n \in MilestonesOf(c) : milestone'[n] # "absent"
    BY <1>1, <1>2, <2>1 DEF StatusInv, CompletedIffSettled, MilestonesOf
  <2>5. ASSUME NEW d \in Contracts \ {c}
        PROVE  /\ contract'[d] = "completed" <=> AllSettled(d)'
               /\ \A n \in MilestonesOf(d) :
                    contract'[d] = "absent" <=> milestone'[n] = "absent"
               /\ contract'[d] = "draft" =>
                    \A n \in MilestonesOf(d) : milestone'[n] = "pending"
    BY <1>2, <2>3 DEF StatusInv, CompletedIffSettled, AllSettled, MilestonesOf
  <2>6. /\ contract'[c] \notin {"completed", "absent", "draft"}
        /\ ~AllSettled(c)'
        /\ \A n \in MilestonesOf(c) : milestone'[n] # "absent"
    BY <1>2, <2>1, <2>2, <2>4
  <2> QED
    BY <2>5, <2>6 DEF CompletedIffSettled, MilestonesOf
<1> QED
  BY <1>4, <1>5

(***************************************************************************)
(* The actions that leave the disputes alone and move one contract, or one *)
(* milestone of it, between statuses other than "disputed".                *)
(***************************************************************************)
LEMMA SubmitStatus ==
  ASSUME NEW m \in Milestones, StatusInv, SubmitMilestone(m)
  PROVE  DisputesCoherent' /\ CompletedIffSettled'
<1>1. /\ contract[ContractOf[m]] = "active"
      /\ milestone[m] \notin {"disputed", "absent"} \cup Settled
      /\ \A n \in Milestones : milestone'[n] = IF n = m THEN "submitted" ELSE milestone[n]
      /\ UNCHANGED <<contract, dispute>>
  BY DEF SubmitMilestone, StatusInv, TypeOK, Settled
<1>2. DisputesCoherent'
  BY <1>1 DEF StatusInv, DisputesCoherent, MilestonesOf
<1>3. CompletedIffSettled'
  <2>1. \A c \in Contracts : AllSettled(c)' <=> AllSettled(c)
    BY <1>1 DEF AllSettled, Settled, MilestonesOf
  <2>2. \A n \in Milestones : milestone'[n] = "absent" <=> milestone[n] = "absent"
    BY <1>1
  <2>3. \A c \in Contracts : contract[c] = "draft" => m \notin MilestonesOf(c)
    BY <1>1 DEF MilestonesOf
  <2> QED
    BY <1>1, <2>1, <2>2, <2>3 DEF StatusInv, CompletedIffSettled, MilestonesOf
<1> QED
  BY <1>2, <1>3

LEMMA ApproveStatus ==
  ASSUME NEW m \in Milestones, StatusInv, ApproveMilestone(m)
  PROVE  DisputesCoherent' /\ CompletedIffSettled'
<1> DEFINE c == ContractOf[m]
<1>1. c \in Contracts /\ m \in MilestonesOf(c)
  BY MilestonesAssumption DEF MilestonesOf
<1>2. /\ contract[c] = "active"
      /\ milestone[m] = "submitted"
      /\ \A n \in Milestones : milestone'[n] = IF n = m THEN "approved" ELSE milestone[n]
      /\ \A d \in Contracts : contract'[d] =
           IF d = c /\ AllSettled(c)' THEN "completed" ELSE contract[d]
      /\ UNCHANGED dispute
  BY DEF ApproveMilestone, StatusInv, TypeOK
<1>3. \A d \in Contracts \ {c} : m \notin MilestonesOf(d)
  BY DEF MilestonesOf
<1> HIDE DEF c
<1>4. DisputesCoherent'
  BY <1>1, <1>2 DEF StatusInv, DisputesCoherent, MilestonesOf
<1>5. CompletedIffSettled'
  <2>1. \A d \in Contracts \ {c} : AllSettled(d)' <=> AllSettled(d)
    BY <1>2, <1>3 DEF AllSettled, MilestonesOf
  <2>2. \A n \in Milestones : milestone'[n] = "absent" <=> milestone[n] = "absent"
    BY <1>2
  <2>3. contract'[c] = "completed" <=> AllSettled(c)'
    BY <1>1, <1>2
  <2>4. \A d \in Contracts \ {c} : \A n \in MilestonesOf(d) : milestone'[n] = milestone[n]
    BY <1>2, <1>3 DEF MilestonesOf
  <2>5. contract'[c] \notin {"absent", "draft"} /\ contract[c] \notin {"absent", "draft"}
    BY <1>1, <1>2
  <2> QED
    BY <1>2, <2>1, <2>2, <2>3, <2>4, <2>5
       DEF StatusInv, CompletedIffSettled, MilestonesOf
<1> QED
  BY <1>4, <1>5

(***************************************************************************)
(* Funding, by whichever way, only takes a contract from draft to active.  *)
(***************************************************************************)
LEMMA FundingStatus ==
  ASSUME NEW c \in Contracts, StatusInv, contract[c] = "draft",
         contract' = [contract EXCEPT ![c] = "active"],
         UNCHANGED <<milestone, dispute>>
  PROVE  DisputesCoherent' /\ CompletedIffSettled'
<1>1. \A d \in Contracts : contract'[d] = IF d = c THEN "active" ELSE contract[d]
  BY DEF StatusInv, TypeOK
<1>2. DisputesCoherent'
  BY <1>1 DEF StatusInv, DisputesCoherent, MilestonesOf
<1>3. CompletedIffSettled'
  BY <1>1 DEF StatusInv, CompletedIffSettled, AllSettled, MilestonesOf
<1> QED
  BY <1>2, <1>3

LEMMA CreateStatus ==
  ASSUME NEW c \in Contracts, StatusInv, CreateContract(c)
  PROVE  DisputesCoherent' /\ CompletedIffSettled'
<1>1. /\ contract[c] = "absent"
      /\ \A d \in Contracts : contract'[d] = IF d = c THEN "draft" ELSE contract[d]
      /\ \A n \in Milestones :
           milestone'[n] = IF n \in MilestonesOf(c) THEN "pending" ELSE milestone[n]
      /\ UNCHANGED dispute
  BY DEF CreateContract, StatusInv, TypeOK
<1>2. \A n \in MilestonesOf(c) : milestone[n] = "absent"
  BY <1>1 DEF StatusInv, CompletedIffSettled
<1>3. DisputesCoherent'
  <2>1. \A n \in Milestones : milestone'[n] = "disputed" <=> milestone[n] = "disputed"
    BY <1>1, <1>2
  <2> QED
    BY <1>1, <2>1 DEF StatusInv, DisputesCoherent, MilestonesOf
<1>4. CompletedIffSettled'
  <2>1. ASSUME NEW d \in Contracts \ {c}
        PROVE  \A n \in MilestonesOf(d) : milestone'[n] = milestone[n]
    BY <1>1 DEF MilestonesOf
  <2>2. \A d \in Contracts \ {c} : AllSettled(d)' <=> AllSettled(d)
    BY <2>1 DEF AllSettled, MilestonesOf
  <2>3. ~AllSettled(c)' /\ \A n \in MilestonesOf(c) : milestone'[n] = "pending"
    BY <1>1, MilestonesAssumption DEF AllSettled, Settled, MilestonesOf
  <2> QED
    BY <1>1, <2>1, <2>2, <2>3 DEF StatusInv, CompletedIffSettled, MilestonesOf
<1> QED
  BY <1>3, <1>4

LEMMA OpenContractStatus ==
  ASSUME NEW c \in Contracts, StatusInv, OpenContractDispute(c)
  PROVE  DisputesCoherent' /\ CompletedIffSettled'
<1>1. /\ contract[c] = "active" /\ c \notin Milestones
      /\ \A d \in Contracts : contract'[d] = IF d = c THEN "disputed" ELSE contract[d]
      /\ \A t \in Targets : dispute'[t] = IF t = c THEN "open" ELSE dispute[t]
      /\ UNCHANGED milestone
  BY ContractsAssumption DEF OpenContractDispute, StatusInv, TypeOK, Targets
<1>2. \A n \in MilestonesOf(c) : dispute[n] # "open"
  BY DEF OpenContractDispute, DisputeOpen
<1>3. DisputesCoherent'
  BY <1>1, <1>2, ContractsAssumption
     DEF StatusInv, DisputesCoherent, MilestonesOf, Targets
<1>4. CompletedIffSettled'
  BY <1>1 DEF StatusInv, CompletedIffSettled, AllSettled, MilestonesOf
<1> QED
  BY <1>3, <1>4

LEMMA NextStatus == StatusInv /\ [Next]_vars => StatusInv'
<1> SUFFICES ASSUME StatusInv, [Next]_vars
             PROVE  DisputesCoherent' /\ CompletedIffSettled'
  BY NextType DEF StatusInv
<1>1. ASSUME UNCHANGED <<contract, milestone, dispute>>
      PROVE  DisputesCoherent' /\ CompletedIffSettled'
  BY <1>1 DEF StatusInv, DisputesCoherent, CompletedIffSettled, AllSettled, MilestonesOf
<1>2. ASSUME NEW c \in Contracts, FundContract(c) \/ \E a \in PaidAmounts[c] : ConfirmFunding(c, a)
      PROVE  DisputesCoherent' /\ CompletedIffSettled'
  BY <1>2, FundingStatus DEF FundContract, ConfirmFunding
<1> QED
  BY <1>1, <1>2, CreateStatus, OpenContractStatus, ResolveContractStatus,
     SubmitStatus, ApproveStatus, OpenMilestoneStatus, ResolveMilestoneStatus
     DEF Next, vars, RequestPayout, MarkPayoutSent

LEMMA StatusCorrect == Spec => []StatusInv
BY InitStatus, NextStatus, PTL DEF Spec

(***************************************************************************)
(* Disputes and statuses always agree and no contract ever has two open    *)
(* disputes.                                                               *)
(***************************************************************************)
THEOREM DisputesCorrect == Spec => []DisputesCoherent
BY StatusCorrect, PTL DEF StatusInv

(***************************************************************************)
(* A contract is completed exactly when all its milestones are settled.    *)
(***************************************************************************)
THEOREM CompletionCorrect == Spec => []CompletedIffSettled
BY StatusCorrect, PTL DEF StatusInv

-----------------------------------------------------------------------------
(***************************************************************************)
(* Finality.                                                               *)
(***************************************************************************)

LEMMA SettleKeeps ==
  ASSUME NEW c \in Contracts, NEW S, NEW p, Settle(c, S, p),
         \A m \in S : milestone[m] \notin Settled
  PROVE  MilestonesKept
BY DEF Settle, MilestonesKept

LEMMA NextKeepsMilestones == StatusInv /\ [Next]_vars => MilestonesKept
<1> SUFFICES ASSUME StatusInv, [Next]_vars PROVE MilestonesKept
  OBVIOUS
<1>1. ASSUME UNCHANGED <<milestone, ruling>> PROVE MilestonesKept
  BY <1>1 DEF MilestonesKept
<1>2. ASSUME NEW c \in Contracts, CreateContract(c) PROVE MilestonesKept
  BY <1>2 DEF CreateContract, MilestonesKept, StatusInv, CompletedIffSettled, Settled
<1>3. ASSUME NEW m \in Milestones,
             SubmitMilestone(m) \/ ApproveMilestone(m) \/ OpenMilestoneDispute(m)
      PROVE  MilestonesKept
  BY <1>3 DEF SubmitMilestone, ApproveMilestone, OpenMilestoneDispute,
              MilestonesKept, StatusInv, TypeOK, Settled
<1>4. ASSUME NEW c \in Contracts, NEW p \in Percents, ResolveContractDispute(c, p)
      PROVE  MilestonesKept
  BY <1>4, SettleKeeps DEF ResolveContractDispute, Settled, Unsettled
<1>5. ASSUME NEW m \in Milestones, NEW p \in Percents, ResolveMilestoneDispute(m, p)
      PROVE  MilestonesKept
  <2>1. milestone[m] = "disputed"
    BY <1>5 DEF ResolveMilestoneDispute, StatusInv, DisputesCoherent
  <2>2. \A n \in {m} : milestone[n] \notin Settled
    BY <2>1 DEF Settled
  <2> QED
    BY <1>5, <2>2, SettleKeeps, MilestonesAssumption DEF ResolveMilestoneDispute
<1> QED
  BY <1>1, <1>2, <1>3, <1>4, <1>5
     DEF Next, vars, FundContract, ConfirmFunding, OpenContractDispute,
         RequestPayout, MarkPayoutSent

LEMMA NextKeepsPayouts == TypeOK /\ [Next]_vars => PayoutsKept
<1> SUFFICES ASSUME TypeOK, [Next]_vars PROVE PayoutsKept
  OBVIOUS
<1>1. ASSUME UNCHANGED payout PROVE PayoutsKept
  BY <1>1 DEF PayoutsKept
<1>2. ASSUME NEW m \in Milestones, RequestPayout(m) \/ MarkPayoutSent(m)
      PROVE  PayoutsKept
  BY <1>2 DEF RequestPayout, MarkPayoutSent, PayoutsKept, TypeOK
<1> QED
  BY <1>1, <1>2
     DEF Next, vars, CreateContract, FundContract, ConfirmFunding,
         OpenContractDispute, ResolveContractDispute, SubmitMilestone,
         ApproveMilestone, OpenMilestoneDispute, ResolveMilestoneDispute

LEMMA NextKeepsCompleted == StatusInv /\ [Next]_vars => CompletedKept
<1> SUFFICES ASSUME StatusInv, [Next]_vars PROVE CompletedKept
  OBVIOUS
<1>1. ASSUME UNCHANGED contract PROVE CompletedKept
  BY <1>1 DEF CompletedKept
<1>2. ASSUME NEW c \in Contracts,
             \/ CreateContract(c)
             \/ FundContract(c)
             \/ \E a \in PaidAmounts[c] : ConfirmFunding(c, a)
             \/ OpenContractDispute(c)
      PROVE  CompletedKept
  BY <1>2 DEF CreateContract, FundContract, ConfirmFunding, OpenContractDispute,
              CompletedKept, StatusInv, TypeOK
<1>3. ASSUME NEW c \in Contracts, NEW p \in Percents, ResolveContractDispute(c, p)
      PROVE  CompletedKept
  <2>1. contract[c] = "disputed"
    BY <1>3 DEF ResolveContractDispute, StatusInv, DisputesCoherent
  <2> QED
    BY <1>3, <2>1 DEF ResolveContractDispute, CompletedKept, StatusInv, TypeOK
<1>4. ASSUME NEW m \in Milestones,
             ApproveMilestone(m) \/ \E p \in Percents : ResolveMilestoneDispute(m, p)
      PROVE  CompletedKept
  BY <1>4 DEF ApproveMilestone, ResolveMilestoneDispute, CompletedKept, StatusInv, TypeOK
<1> QED
  BY <1>1, <1>2, <1>3, <1>4
     DEF Next, vars, SubmitMilestone, OpenMilestoneDispute, RequestPayout, MarkPayoutSent

(***************************************************************************)
(* Settlement is final, for every sequence of calls: approvals, rulings,   *)
(* sent payouts and completed contracts are never taken back.              *)
(***************************************************************************)
THEOREM SettlementFinal == Spec => SettledForever
<1>1. StatusInv /\ [Next]_vars => [MilestonesKept /\ PayoutsKept /\ CompletedKept]_vars
  BY NextKeepsMilestones, NextKeepsPayouts, NextKeepsCompleted DEF StatusInv
<1> QED
  BY <1>1, StatusCorrect, PTL DEF Spec, SettledForever

-----------------------------------------------------------------------------
(***************************************************************************)
(* What the freelancer is owed.                                            *)
(***************************************************************************)

LEMMA PayableType ==
  ASSUME TypeOK, NEW m \in Milestones
  PROVE  Payable(m) \in Nat /\ PayableOf[m] = Payable(m)
BY MilestonesAssumption DEF TypeOK, Payable, PayableOf

(***************************************************************************)
(* The inductive step of FreelancerOwed: the milestones of S, so far worth *)
(* nothing, become worth what the freelancer's accounts gain.              *)
(***************************************************************************)
LEMMA OwedStep ==
  ASSUME NEW c \in Contracts, NEW S, S \subseteq MilestonesOf(c),
         TypeOK, TypeOK', FreelancerOwed,
         \A m \in S : Payable(m) = 0,
         \A m \in Milestones \ S : Payable(m)' = Payable(m),
         ledger'[c]["freelancer"] + ledger'[c]["payout"]
           = ledger[c]["freelancer"] + ledger[c]["payout"] + Sum(PayableOf', S),
         \A d \in Contracts \ {c} : ledger'[d] = ledger[d]
  PROVE  FreelancerOwed'
<1> DEFINE M == MilestonesOf(c)
           P == PayableOf
           Q == PayableOf'
<1>1. /\ \A m \in Milestones : P[m] = Payable(m) /\ P[m] \in Nat
      /\ \A m \in Milestones : Q[m] = Payable(m)' /\ Q[m] \in Nat
  BY PayableType, MilestonesAssumption DEF PayableOf, TypeOK, Payable
<1>2. M \subseteq Milestones /\ IsFiniteSet(M)
  BY MilestonesOfFinite
<1>3. \A d \in Contracts \ {c} : \A m \in MilestonesOf(d) : Q[m] = P[m]
  BY <1>1 DEF MilestonesOf
<1> HIDE DEF M, P, Q
<1>4. Sum(Q, M) = Sum(P, M) + Sum(Q, S)
  <2>1. IsFiniteSet(S) /\ IsFiniteSet(M \ S)
    BY <1>2, FS_Subset DEF M
  <2>2. Sum(P, M) = Sum(P, S) + Sum(P, M \ S)
    BY <1>1, <1>2, SumSubset DEF M
  <2>3. Sum(Q, M) = Sum(Q, S) + Sum(Q, M \ S)
    BY <1>1, <1>2, SumSubset DEF M
  <2>4. Sum(P, M \ S) = Sum(Q, M \ S)
    <3>1. \A m \in M \ S : P[m] = Q[m]
      BY <1>1, <1>2
    <3> QED
      BY <3>1, SumSame
  <2>5. Sum(P, S) = 0
    <3>1. \A m \in S : P[m] = 0
      BY <1>1, <1>2 DEF M
    <3> QED
      BY <3>1, SumZero
  <2>6. Sum(Q, S) \in Nat /\ Sum(Q, M \ S) \in Nat
    <3>1. (\A m \in S : Q[m] \in Nat) /\ (\A m \in M \ S : Q[m] \in Nat)
      BY <1>1, <1>2 DEF M
    <3> QED
      BY <2>1, <3>1, SumType
  <2> QED
    BY <2>2, <2>3, <2>4, <2>5, <2>6
<1>5. ledger'[c]["freelancer"] + ledger'[c]["payout"] = Sum(Q, M)
  <2>1. ledger[c]["freelancer"] + ledger[c]["payout"] = Sum(P, M)
    BY DEF FreelancerOwed, P, M
  <2>2. ledger'[c]["freelancer"] + ledger'[c]["payout"]
          = ledger[c]["freelancer"] + ledger[c]["payout"] + Sum(Q, S)
    BY DEF Q
  <2> QED
    BY <1>4, <2>1, <2>2
<1>6. \A d \in Contracts \ {c} : Sum(Q, MilestonesOf(d)) = Sum(P, MilestonesOf(d))
  BY <1>3, SumSame
<1> QED
  BY <1>5, <1>6 DEF FreelancerOwed, P, Q, M, MilestonesOf

LEMMA OwedSame ==
  ASSUME FreelancerOwed,
         \A m \in Milestones : Payable(m)' = Payable(m),
         \A c \in Contracts : ledger'[c]["freelancer"] + ledger'[c]["payout"]
                             = ledger[c]["freelancer"] + ledger[c]["payout"]
  PROVE  FreelancerOwed'
<1>1. PayableOf' = PayableOf
  BY DEF PayableOf
<1> QED
  BY <1>1 DEF FreelancerOwed, MilestonesOf

LEMMA OwedTransfer ==
  ASSUME NEW c \in Contracts, NEW amount \in Int, TypeOK, FreelancerOwed,
         \/ Transfer(c, "client", "escrow", amount)
         \/ Transfer(c, "freelancer", "payout", amount),
         UNCHANGED <<milestone, ruling>>
  PROVE  FreelancerOwed'
<1>1. \A m \in Milestones : Payable(m)' = Payable(m)
  BY DEF Payable
<1>2. \A d \in Contracts : \A a \in Accounts : ledger[d][a] \in Int
  BY DEF TypeOK
<1>3. \A d \in Contracts : ledger'[d]["freelancer"] + ledger'[d]["payout"]
                           = ledger[d]["freelancer"] + ledger[d]["payout"]
  <2>1. CASE Transfer(c, "client", "escrow", amount)
    BY <2>1, TransferEffect DEF Accounts
  <2>2. CASE Transfer(c, "freelancer", "payout", amount)
    <3>1. /\ ledger'[c]["freelancer"] = ledger[c]["freelancer"] - amount
          /\ ledger'[c]["payout"] = ledger[c]["payout"] + amount
          /\ \A d \in Contracts \ {c} : ledger'[d] = ledger[d]
      BY <2>2, TransferEffect DEF Accounts
    <3> QED
      BY <1>2, <3>1 DEF Accounts
  <2> QED
    BY <2>1, <2>2
<1> QED
  BY <1>1, <1>3, OwedSame

LEMMA OwedApprove ==
  ASSUME NEW m \in Milestones, TypeOK, TypeOK', FreelancerOwed, ApproveMilestone(m)
  PROVE  FreelancerOwed'
<1> DEFINE c == ContractOf[m]
           S == {m}
<1>1. c \in Contracts /\ S \subseteq MilestonesOf(c) /\ Amount[m] \in Nat
  BY MilestonesAssumption DEF MilestonesOf
<1>2. /\ milestone[m] = "submitted"
      /\ milestone' = [milestone EXCEPT ![m] = "approved"]
      /\ Transfer(c, "escrow", "freelancer", Amount[m])
      /\ UNCHANGED ruling
  BY DEF ApproveMilestone
<1>3. Payable(m) = 0 /\ Payable(m)' = Amount[m]
  BY <1>2 DEF Payable, TypeOK
<1>4. \A n \in Milestones \ S : Payable(n)' = Payable(n)
  BY <1>2 DEF Payable, TypeOK
<1>5. Sum(PayableOf', S) = Amount[m]
  <2>1. PayableOf'[m] = Amount[m]
    BY <1>3 DEF PayableOf
  <2> QED
    BY <1>1, <2>1, SumOne
<1>6. /\ ledger'[c]["freelancer"] = ledger[c]["freelancer"] + Amount[m]
      /\ ledger'[c]["payout"] = ledger[c]["payout"]
      /\ \A d \in Contracts \ {c} : ledger'[d] = ledger[d]
  BY <1>1, <1>2, TransferEffect DEF Accounts
<1>7. ledger[c]["freelancer"] \in Int /\ ledger[c]["payout"] \in Int
  BY <1>1 DEF TypeOK, Accounts
<1>8. \A n \in S : Payable(n) = 0
  BY <1>3
<1> HIDE DEF c, S
<1>9. ledger'[c]["freelancer"] + ledger'[c]["payout"]
        = ledger[c]["freelancer"] + ledger[c]["payout"] + Sum(PayableOf', S)
  BY <1>1, <1>5, <1>6, <1>7
<1> QED
  BY <1>1, <1>4, <1>6, <1>8, <1>9, OwedStep

LEMMA OwedSettle ==
  ASSUME NEW c \in Contracts, NEW S, S \subseteq MilestonesOf(c), NEW p \in Percents,
         TypeOK, TypeOK', FreelancerOwed, Settle(c, S, p),
         \A m \in S : milestone[m] \notin Settled
  PROVE  FreelancerOwed'
<1> DEFINE F == [m \in Milestones |-> FreelancerShare(m, p)]
<1>1. S \subseteq Milestones
  BY DEF MilestonesOf
<1>2. /\ \A m \in S : Payable(m) = 0 /\ Payable(m)' = F[m]
      /\ \A m \in Milestones \ S : Payable(m)' = Payable(m)
  BY <1>1 DEF Settle, Payable, Settled, TypeOK
<1>3. Sum(PayableOf', S) = Sum(F, S)
  <2>1. \A m \in S : PayableOf'[m] = F[m]
    BY <1>1, <1>2 DEF PayableOf
  <2> HIDE DEF F
  <2> QED
    BY <2>1, SumSame
<1>4. Sum(F, S) \in Nat
  BY <1>1, SharesSum
<1>5. /\ ledger'[c]["freelancer"] = ledger[c]["freelancer"] + Sum(F, S)
      /\ ledger'[c]["payout"] = ledger[c]["payout"]
      /\ \A d \in Contracts \ {c} : ledger'[d] = ledger[d]
  BY SettleEffect
<1>6. ledger[c]["freelancer"] \in Int /\ ledger[c]["payout"] \in Int
  BY DEF TypeOK, Accounts
<1> HIDE DEF F
<1>7. ledger'[c]["freelancer"] + ledger'[c]["payout"]
        = ledger[c]["freelancer"] + ledger[c]["payout"] + Sum(PayableOf', S)
  BY <1>3, <1>4, <1>5, <1>6
<1> QED
  BY <1>2, <1>5, <1>7, OwedStep

LEMMA NextOwed == StatusInv /\ FreelancerOwed /\ [Next]_vars => FreelancerOwed'
<1> SUFFICES ASSUME StatusInv, FreelancerOwed, [Next]_vars PROVE FreelancerOwed'
  OBVIOUS
<1>0. TypeOK /\ TypeOK'
  BY NextType DEF StatusInv
<1>1. ASSUME NEW c \in Contracts, CreateContract(c) PROVE FreelancerOwed'
  <2>1. \A m \in Milestones : Payable(m)' = Payable(m)
    BY <1>1 DEF CreateContract, Payable, StatusInv, TypeOK, CompletedIffSettled
  <2> QED
    BY <1>1, <2>1, OwedSame DEF CreateContract
<1>2. ASSUME NEW c \in Contracts, FundContract(c) PROVE FreelancerOwed'
  <2>1. Total(c) \in Int
    BY AmountSum, MilestonesOfFinite DEF Total
  <2> QED
    BY <1>0, <1>2, <2>1, OwedTransfer DEF FundContract
<1>3. ASSUME NEW c \in Contracts, NEW a \in PaidAmounts[c], ConfirmFunding(c, a)
      PROVE FreelancerOwed'
  <2>1. a \in Int
    BY InputsAssumption
  <2> QED
    BY <1>0, <1>3, <2>1, OwedTransfer DEF ConfirmFunding
<1>4. ASSUME NEW m \in Milestones, SubmitMilestone(m) \/ OpenMilestoneDispute(m)
      PROVE FreelancerOwed'
  <2>1. \A n \in Milestones : Payable(n)' = Payable(n)
    BY <1>0, <1>4 DEF SubmitMilestone, OpenMilestoneDispute, Payable, TypeOK
  <2> QED
    BY <1>4, <2>1, OwedSame DEF SubmitMilestone, OpenMilestoneDispute
<1>5. ASSUME NEW m \in Milestones, ApproveMilestone(m) PROVE FreelancerOwed'
  BY <1>0, <1>5, OwedApprove
<1>6. ASSUME NEW m \in Milestones, NEW p \in Percents, ResolveMilestoneDispute(m, p)
      PROVE FreelancerOwed'
  <2> DEFINE S == {m}
  <2>1. ContractOf[m] \in Contracts /\ S \subseteq MilestonesOf(ContractOf[m])
    BY MilestonesAssumption DEF MilestonesOf
  <2>2. \A n \in S : milestone[n] \notin Settled
    BY <1>6 DEF ResolveMilestoneDispute, StatusInv, DisputesCoherent, Settled
  <2>3. Settle(ContractOf[m], S, p)
    BY <1>6 DEF ResolveMilestoneDispute
  <2> HIDE DEF S
  <2> QED
    BY <1>0, <2>1, <2>2, <2>3, OwedSettle
<1>7. ASSUME NEW c \in Contracts, NEW p \in Percents, ResolveContractDispute(c, p)
      PROVE FreelancerOwed'
  <2> DEFINE S == {m \in MilestonesOf(c) : milestone[m] \in Unsettled}
  <2>1. S \subseteq MilestonesOf(c) /\ \A n \in S : milestone[n] \notin Settled
    BY DEF Settled, Unsettled
  <2>2. Settle(c, S, p)
    BY <1>7 DEF ResolveContractDispute
  <2> HIDE DEF S
  <2> QED
    BY <1>0, <2>1, <2>2, OwedSettle
<1>8. ASSUME NEW m \in Milestones, MarkPayoutSent(m) PROVE FreelancerOwed'
  <2>1. ContractOf[m] \in Contracts /\ payout[m].amount \in Int
    BY <1>0, MilestonesAssumption DEF TypeOK
  <2> QED
    BY <1>0, <1>8, <2>1, OwedTransfer DEF MarkPayoutSent
<1>9. ASSUME UNCHANGED <<milestone, ledger, ruling>> PROVE FreelancerOwed'
  BY <1>9, OwedSame DEF Payable
<1> QED
  BY <1>1, <1>2, <1>3, <1>4, <1>5, <1>6, <1>7, <1>8, <1>9
     DEF Next, vars, OpenContractDispute, RequestPayout

LEMMA InitOwed == Init => FreelancerOwed
<1> SUFFICES ASSUME Init PROVE FreelancerOwed
  OBVIOUS
<1>1. \A m \in Milestones : PayableOf[m] = 0
  BY DEF Init, PayableOf, Payable
<1>2. ASSUME NEW c \in Contracts PROVE Sum(PayableOf, MilestonesOf(c)) = 0
  <2>1. \A m \in MilestonesOf(c) : PayableOf[m] = 0
    BY <1>1 DEF MilestonesOf
  <2> QED
    BY <2>1, SumZero
<1> QED
  BY <1>2 DEF Init, FreelancerOwed, Accounts

(***************************************************************************)
(* The freelancer's account and what has already left it always make up    *)
(* exactly what approvals and rulings awarded: no milestone is ever        *)
(* credited twice or not at all.                                           *)
(***************************************************************************)
THEOREM FreelancerCreditedOnce == Spec => []FreelancerOwed
BY InitOwed, NextOwed, StatusCorrect, PTL DEF Spec

-----------------------------------------------------------------------------
(***************************************************************************)
(* Payouts.  That a requested payout is positive is what ties it to a      *)
(* settled milestone, whose worth can no longer change.                    *)
(***************************************************************************)

PayoutsPositive ==
  \A m \in Milestones : payout[m].status # "none" => payout[m].amount > 0

PayoutInv == StatusInv /\ PayoutsPositive /\ PayoutsCovered

LEMMA InitPayouts == Init => PayoutsPositive /\ PayoutsCovered
<1> SUFFICES ASSUME Init PROVE PayoutsPositive /\ PayoutsCovered
  OBVIOUS
<1>1. \A m \in Milestones : payout[m].status = "none"
  BY DEF Init
<1>2. ASSUME NEW c \in Contracts, NEW status \in {"pending", "sent"}
      PROVE PayoutSum(c, status) = 0
  <2>1. PayoutsWith(c, status) = {}
    BY <1>1 DEF PayoutsWith, MilestonesOf
  <2> QED
    BY <2>1, SumEmpty DEF PayoutSum
<1> QED
  BY <1>1, <1>2 DEF Init, PayoutsPositive, PayoutsCovered, Accounts

LEMMA PayoutSumSame ==
  ASSUME NEW c, NEW status, \A m \in MilestonesOf(c) : payout'[m] = payout[m]
  PROVE  PayoutSum(c, status)' = PayoutSum(c, status)
<1> DEFINE f == [m \in Milestones |-> payout[m].amount]
           g == [m \in Milestones |-> payout'[m].amount]
           S == PayoutsWith(c, status)
<1>1. PayoutsWith(c, status)' = S
  BY DEF PayoutsWith, MilestonesOf
<1>2. \A m \in S : g[m] = f[m]
  BY DEF PayoutsWith, MilestonesOf
<1>3. PayoutSum(c, status)' = Sum(g, S)
  BY <1>1 DEF PayoutSum
<1> HIDE DEF f, g, S
<1>4. Sum(g, S) = Sum(f, S)
  BY <1>2, SumSame
<1> QED
  BY <1>3, <1>4 DEF PayoutSum, f, S

LEMMA PayoutSumType ==
  ASSUME TypeOK, NEW c, NEW status
  PROVE  PayoutSum(c, status) \in Nat
<1> DEFINE f == [m \in Milestones |-> payout[m].amount]
           S == PayoutsWith(c, status)
<1>1. IsFiniteSet(S) /\ \A m \in S : f[m] \in Nat
  BY FinitelyMany DEF TypeOK, PayoutsWith, MilestonesOf
<1> HIDE DEF f, S
<1>2. Sum(f, S) \in Nat
  BY <1>1, SumType
<1> QED
  BY <1>2 DEF f, S, PayoutSum

(***************************************************************************)
(* A sum of payouts is the sum over the other milestones and this one's    *)
(* part; stated for the payouts of any state.                              *)
(***************************************************************************)
PayoutPart(P, m, status) == IF P[m].status = status THEN P[m].amount ELSE 0
PayoutRest(P, m, status) ==
  Sum([n \in Milestones |-> P[n].amount],
      {n \in MilestonesOf(ContractOf[m]) \ {m} : P[n].status = status})

LEMMA PayoutSumSplit ==
  ASSUME NEW P \in [Milestones -> [status : PayoutStatus, amount : Nat]],
         NEW m \in Milestones, NEW status
  PROVE  /\ PayoutRest(P, m, status) \in Nat
         /\ Sum([n \in Milestones |-> P[n].amount],
                {n \in MilestonesOf(ContractOf[m]) : P[n].status = status})
              = PayoutRest(P, m, status) + PayoutPart(P, m, status)
<1> DEFINE f == [n \in Milestones |-> P[n].amount]
           S == {n \in MilestonesOf(ContractOf[m]) : P[n].status = status}
           R == {n \in MilestonesOf(ContractOf[m]) \ {m} : P[n].status = status}
<1>1. /\ IsFiniteSet(S) /\ IsFiniteSet(R) /\ R = S \ {m}
      /\ (\A n \in S : f[n] \in Nat) /\ (\A n \in R : f[n] \in Nat)
      /\ f[m] = P[m].amount
      /\ m \in S <=> P[m].status = status
  BY FinitelyMany DEF MilestonesOf
<1> HIDE DEF f, S, R
<1>2. Sum(f, R) \in Nat
  BY <1>1, SumType
<1>3. Sum(f, S) = Sum(f, R) + PayoutPart(P, m, status)
  <2>1. CASE m \in S
    <3>1. Sum(f, S) = Sum(f, S \ {m}) + f[m]
      BY <1>1, <2>1, SumRemove
    <3> QED
      BY <1>1, <2>1, <3>1 DEF PayoutPart
  <2>2. CASE m \notin S
    <3>1. R = S /\ PayoutPart(P, m, status) = 0
      BY <1>1, <2>2 DEF PayoutPart
    <3> QED
      BY <1>2, <3>1
  <2> QED
    BY <2>1, <2>2
<1> QED
  BY <1>2, <1>3 DEF PayoutRest, f, S, R

(***************************************************************************)
(* When only the payout of m changes, the sum of its contract changes by   *)
(* what it becomes less what it was.                                       *)
(***************************************************************************)
LEMMA PayoutSumStep ==
  ASSUME NEW m \in Milestones, NEW status, TypeOK, TypeOK',
         \A n \in Milestones \ {m} : payout'[n] = payout[n]
  PROVE  /\ PayoutSum(ContractOf[m], status) \in Nat
         /\ PayoutSum(ContractOf[m], status)' \in Nat
         /\ PayoutSum(ContractOf[m], status)' + PayoutPart(payout, m, status)
              = PayoutSum(ContractOf[m], status) + PayoutPart(payout', m, status)
<1> DEFINE c == ContractOf[m]
<1>1. payout \in [Milestones -> [status : PayoutStatus, amount : Nat]]
      /\ payout' \in [Milestones -> [status : PayoutStatus, amount : Nat]]
  BY DEF TypeOK, PayoutStatus
<1>2. PayoutSum(c, status)
        = PayoutRest(payout, m, status) + PayoutPart(payout, m, status)
  BY <1>1, PayoutSumSplit DEF PayoutSum, PayoutsWith
<1>3. PayoutSum(c, status)'
        = PayoutRest(payout', m, status) + PayoutPart(payout', m, status)
  BY <1>1, PayoutSumSplit DEF PayoutSum, PayoutsWith, MilestonesOf
<1>4. PayoutRest(payout', m, status) = PayoutRest(payout, m, status)
  <2> DEFINE f == [n \in Milestones |-> payout[n].amount]
             g == [n \in Milestones |-> payout'[n].amount]
             S == {n \in MilestonesOf(c) \ {m} : payout[n].status = status}
             T == {n \in MilestonesOf(c) \ {m} : payout'[n].status = status}
  <2>1. S = T /\ \A n \in S : g[n] = f[n]
    BY DEF MilestonesOf
  <2> HIDE DEF f, g, S, T
  <2>2. Sum(g, T) = Sum(f, S)
    BY <2>1, SumSame
  <2> QED
    BY <2>2 DEF PayoutRest, f, g, S, T
<1>5. PayoutRest(payout, m, status) \in Nat
  BY <1>1, PayoutSumSplit
<1>6. PayoutPart(payout, m, status) \in Nat /\ PayoutPart(payout', m, status) \in Nat
  BY <1>1 DEF PayoutPart
<1> QED
  BY <1>2, <1>3, <1>4, <1>5, <1>6

LEMMA PayableKept ==
  ASSUME NEW m \in Milestones, TypeOK, MilestonesKept, Payable(m) > 0
  PROVE  Payable(m)' = Payable(m)
BY DEF MilestonesKept, Payable, Settled, TypeOK

(***************************************************************************)
(* A step that leaves the payouts alone and takes nothing from the         *)
(* freelancer's accounts.                                                  *)
(***************************************************************************)
LEMMA PayoutsUntouched ==
  ASSUME PayoutInv, TypeOK', MilestonesKept, UNCHANGED payout,
         \A c \in Contracts : /\ ledger'[c]["payout"] = ledger[c]["payout"]
                             /\ ledger'[c]["freelancer"] >= ledger[c]["freelancer"]
  PROVE  PayoutsPositive' /\ PayoutsCovered'
<1>1. PayoutsPositive'
  BY DEF PayoutInv, PayoutsPositive
<1>2. ASSUME NEW m \in Milestones, payout[m].status # "none"
      PROVE  payout[m].amount = Payable(m)'
  BY <1>2, PayableKept DEF PayoutInv, StatusInv, PayoutsPositive, PayoutsCovered
<1>3. ASSUME NEW c \in Contracts
      PROVE  /\ ledger'[c]["payout"] = PayoutSum(c, "sent")'
             /\ ledger'[c]["freelancer"] >= PayoutSum(c, "pending")'
  <2>1. /\ PayoutSum(c, "sent")' = PayoutSum(c, "sent")
        /\ PayoutSum(c, "pending")' = PayoutSum(c, "pending")
    BY PayoutSumSame
  <2>2. /\ ledger[c]["freelancer"] \in Int
        /\ ledger'[c]["freelancer"] \in Int
        /\ PayoutSum(c, "pending") \in Nat
    BY PayoutSumType DEF PayoutInv, StatusInv, TypeOK, Accounts
  <2>3. /\ ledger[c]["payout"] = PayoutSum(c, "sent")
        /\ ledger[c]["freelancer"] >= PayoutSum(c, "pending")
    BY DEF PayoutInv, PayoutsCovered
  <2> QED
    BY <2>1, <2>2, <2>3
<1> QED
  BY <1>1, <1>2, <1>3 DEF PayoutsCovered

LEMMA RequestCovered ==
  ASSUME NEW m \in Milestones, PayoutInv, TypeOK', RequestPayout(m)
  PROVE  PayoutsPositive' /\ PayoutsCovered'
<1> DEFINE c == ContractOf[m]
<1>1. /\ c \in Contracts
      /\ Payable(m) \in Nat /\ Payable(m) > 0
      /\ payout[m].status = "none"
      /\ payout'[m] = [status |-> "pending", amount |-> Payable(m)]
      /\ \A n \in Milestones \ {m} : payout'[n] = payout[n]
      /\ ledger[c]["freelancer"] - PayoutSum(c, "pending") >= Payable(m)
      /\ UNCHANGED <<milestone, ruling, ledger>>
  BY PayableType, MilestonesAssumption DEF RequestPayout, PayoutInv, StatusInv, TypeOK
<1>2. \A n \in Milestones : Payable(n)' = Payable(n)
  BY <1>1 DEF Payable
<1>3. PayoutsPositive'
  BY <1>1 DEF PayoutInv, PayoutsPositive
<1>4. \A n \in Milestones :
        payout'[n].status # "none" => payout'[n].amount = Payable(n)'
  BY <1>1, <1>2 DEF PayoutInv, PayoutsCovered
<1>5. /\ PayoutSum(c, "sent")' = PayoutSum(c, "sent")
      /\ PayoutSum(c, "pending")' = PayoutSum(c, "pending") + Payable(m)
  <2>1. /\ PayoutSum(c, "sent")' + PayoutPart(payout, m, "sent")
             = PayoutSum(c, "sent") + PayoutPart(payout', m, "sent")
        /\ PayoutSum(c, "pending")' + PayoutPart(payout, m, "pending")
             = PayoutSum(c, "pending") + PayoutPart(payout', m, "pending")
    BY <1>1, PayoutSumStep DEF PayoutInv, StatusInv
  <2>2. /\ PayoutPart(payout, m, "sent") = 0 /\ PayoutPart(payout', m, "sent") = 0
        /\ PayoutPart(payout, m, "pending") = 0
        /\ PayoutPart(payout', m, "pending") = Payable(m)
    BY <1>1 DEF PayoutPart
  <2>3. /\ PayoutSum(c, "sent") \in Nat /\ PayoutSum(c, "pending") \in Nat
        /\ PayoutSum(c, "sent")' \in Nat /\ PayoutSum(c, "pending")' \in Nat
    BY <1>1, PayoutSumStep DEF PayoutInv, StatusInv
  <2> QED
    BY <1>1, <2>1, <2>2, <2>3
<1>6. \A d \in Contracts \ {c} : \A n \in MilestonesOf(d) : payout'[n] = payout[n]
  BY <1>1 DEF MilestonesOf
<1>7. \A d \in Contracts \ {c} : /\ PayoutSum(d, "sent")' = PayoutSum(d, "sent")
                                 /\ PayoutSum(d, "pending")' = PayoutSum(d, "pending")
  BY <1>6, PayoutSumSame
<1>8. ledger[c]["freelancer"] \in Int /\ PayoutSum(c, "pending") \in Nat
  BY <1>1, PayoutSumType DEF PayoutInv, StatusInv, TypeOK, Accounts
<1> HIDE DEF c
<1>9. \A d \in Contracts : /\ ledger'[d]["payout"] = PayoutSum(d, "sent")'
                           /\ ledger'[d]["freelancer"] >= PayoutSum(d, "pending")'
  BY <1>1, <1>5, <1>7, <1>8 DEF PayoutInv, PayoutsCovered
<1> QED
  BY <1>3, <1>4, <1>9 DEF PayoutsCovered

LEMMA SentCovered ==
  ASSUME NEW m \in Milestones, PayoutInv, TypeOK', MarkPayoutSent(m)
  PROVE  PayoutsPositive' /\ PayoutsCovered'
<1> DEFINE c == ContractOf[m]
           a == payout[m].amount
<1>1. /\ c \in Contracts /\ a \in Nat
      /\ payout[m].status = "pending"
      /\ payout'[m].status = "sent" /\ payout'[m].amount = a
      /\ \A n \in Milestones \ {m} : payout'[n] = payout[n]
      /\ Transfer(c, "freelancer", "payout", a)
      /\ UNCHANGED <<milestone, ruling>>
  BY MilestonesAssumption DEF MarkPayoutSent, PayoutInv, StatusInv, TypeOK
<1>2. /\ ledger'[c]["freelancer"] = ledger[c]["freelancer"] - a
      /\ ledger'[c]["payout"] = ledger[c]["payout"] + a
      /\ \A d \in Contracts \ {c} : ledger'[d] = ledger[d]
  BY <1>1, TransferEffect DEF Accounts, PayoutInv, StatusInv
<1>3. PayoutsPositive'
  BY <1>1 DEF PayoutInv, PayoutsPositive
<1>4. \A n \in Milestones :
        payout'[n].status # "none" => payout'[n].amount = Payable(n)'
  <2>1. \A n \in Milestones : Payable(n)' = Payable(n)
    BY <1>1 DEF Payable
  <2> QED
    BY <1>1, <2>1 DEF PayoutInv, PayoutsCovered
<1>5. /\ PayoutSum(c, "sent")' = PayoutSum(c, "sent") + a
      /\ PayoutSum(c, "pending")' = PayoutSum(c, "pending") - a
  <2>1. /\ PayoutSum(c, "sent")' + PayoutPart(payout, m, "sent")
             = PayoutSum(c, "sent") + PayoutPart(payout', m, "sent")
        /\ PayoutSum(c, "pending")' + PayoutPart(payout, m, "pending")
             = PayoutSum(c, "pending") + PayoutPart(payout', m, "pending")
    BY <1>1, PayoutSumStep DEF PayoutInv, StatusInv
  <2>2. /\ PayoutPart(payout, m, "sent") = 0 /\ PayoutPart(payout', m, "sent") = a
        /\ PayoutPart(payout, m, "pending") = a
        /\ PayoutPart(payout', m, "pending") = 0
    BY <1>1 DEF PayoutPart
  <2>3. /\ PayoutSum(c, "sent") \in Nat /\ PayoutSum(c, "pending") \in Nat
        /\ PayoutSum(c, "sent")' \in Nat /\ PayoutSum(c, "pending")' \in Nat
    BY <1>1, PayoutSumStep DEF PayoutInv, StatusInv
  <2> HIDE DEF a, c
  <2> QED
    BY <1>1, <2>1, <2>2, <2>3
<1>6. \A d \in Contracts \ {c} : \A n \in MilestonesOf(d) : payout'[n] = payout[n]
  BY <1>1 DEF MilestonesOf
<1>7. \A d \in Contracts \ {c} : /\ PayoutSum(d, "sent")' = PayoutSum(d, "sent")
                                 /\ PayoutSum(d, "pending")' = PayoutSum(d, "pending")
  BY <1>6, PayoutSumSame
<1>8. /\ ledger[c]["freelancer"] \in Int /\ ledger[c]["payout"] \in Int
      /\ PayoutSum(c, "pending") \in Nat /\ PayoutSum(c, "sent") \in Nat
  BY <1>1, PayoutSumType DEF PayoutInv, StatusInv, TypeOK, Accounts
<1> HIDE DEF c, a
<1>9. /\ ledger'[c]["payout"] = PayoutSum(c, "sent")'
      /\ ledger'[c]["freelancer"] >= PayoutSum(c, "pending")'
  <2>1. /\ ledger[c]["payout"] = PayoutSum(c, "sent")
        /\ ledger[c]["freelancer"] >= PayoutSum(c, "pending")
    BY <1>1 DEF PayoutInv, PayoutsCovered
  <2> QED
    BY <1>1, <1>2, <1>5, <1>8, <2>1
<1>10. \A d \in Contracts : /\ ledger'[d]["payout"] = PayoutSum(d, "sent")'
                            /\ ledger'[d]["freelancer"] >= PayoutSum(d, "pending")'
  BY <1>2, <1>7, <1>9 DEF PayoutInv, PayoutsCovered
<1> QED
  BY <1>3, <1>4, <1>10 DEF PayoutsCovered

LEMMA NextPayouts ==
  PayoutInv /\ [Next]_vars => PayoutsPositive' /\ PayoutsCovered'
<1> SUFFICES ASSUME PayoutInv, [Next]_vars
             PROVE  PayoutsPositive' /\ PayoutsCovered'
  OBVIOUS
<1>0. TypeOK /\ TypeOK' /\ MilestonesKept
  BY NextType, NextKeepsMilestones DEF PayoutInv, StatusInv
<1>1. \A c \in Contracts, a \in Accounts : ledger[c][a] \in Int
  BY <1>0 DEF TypeOK
<1>2. ASSUME UNCHANGED <<ledger, payout>> PROVE PayoutsPositive' /\ PayoutsCovered'
  BY <1>0, <1>1, <1>2, PayoutsUntouched DEF Accounts
<1>3. ASSUME NEW c \in Contracts, NEW a \in Int, UNCHANGED payout,
             Transfer(c, "client", "escrow", a)
      PROVE  PayoutsPositive' /\ PayoutsCovered'
  <2>1. \A d \in Contracts : /\ ledger'[d]["payout"] = ledger[d]["payout"]
                             /\ ledger'[d]["freelancer"] >= ledger[d]["freelancer"]
    BY <1>0, <1>1, <1>3, TransferEffect DEF Accounts
  <2> QED
    BY <1>0, <1>3, <2>1, PayoutsUntouched
<1>4. ASSUME NEW c \in Contracts, FundContract(c) PROVE PayoutsPositive' /\ PayoutsCovered'
  <2>1. Total(c) \in Int
    BY AmountSum, MilestonesOfFinite DEF Total
  <2> QED
    BY <1>3, <1>4, <2>1 DEF FundContract
<1>5. ASSUME NEW c \in Contracts, NEW a \in PaidAmounts[c], ConfirmFunding(c, a)
      PROVE  PayoutsPositive' /\ PayoutsCovered'
  <2>1. a \in Int
    BY InputsAssumption
  <2> QED
    BY <1>3, <1>5, <2>1 DEF ConfirmFunding
<1>6. ASSUME NEW m \in Milestones, ApproveMilestone(m)
      PROVE  PayoutsPositive' /\ PayoutsCovered'
  <2>1. ContractOf[m] \in Contracts /\ Amount[m] \in Nat
    BY MilestonesAssumption
  <2>2. \A d \in Contracts : /\ ledger'[d]["payout"] = ledger[d]["payout"]
                             /\ ledger'[d]["freelancer"] >= ledger[d]["freelancer"]
    <3>1. Transfer(ContractOf[m], "escrow", "freelancer", Amount[m])
      BY <1>6 DEF ApproveMilestone
    <3>2. /\ ledger'[ContractOf[m]]["freelancer"]
                = ledger[ContractOf[m]]["freelancer"] + Amount[m]
          /\ ledger'[ContractOf[m]]["payout"] = ledger[ContractOf[m]]["payout"]
          /\ \A d \in Contracts \ {ContractOf[m]} : ledger'[d] = ledger[d]
      BY <1>0, <2>1, <3>1, TransferEffect DEF Accounts
    <3> QED
      BY <1>1, <2>1, <3>2 DEF Accounts
  <2> QED
    BY <1>0, <1>6, <2>2, PayoutsUntouched DEF ApproveMilestone
<1>7. ASSUME NEW c \in Contracts, NEW S, S \subseteq Milestones, NEW p \in Percents,
             Settle(c, S, p), UNCHANGED payout
      PROVE  PayoutsPositive' /\ PayoutsCovered'
  <2> DEFINE F == Sum([m \in Milestones |-> FreelancerShare(m, p)], S)
  <2>1. F \in Nat
    BY <1>7, SharesSum
  <2>2. /\ ledger'[c]["freelancer"] = ledger[c]["freelancer"] + F
        /\ ledger'[c]["payout"] = ledger[c]["payout"]
        /\ \A d \in Contracts \ {c} : ledger'[d] = ledger[d]
    BY <1>0, <1>7, SettleEffect
  <2> HIDE DEF F
  <2>3. \A d \in Contracts : /\ ledger'[d]["payout"] = ledger[d]["payout"]
                             /\ ledger'[d]["freelancer"] >= ledger[d]["freelancer"]
    BY <1>1, <2>1, <2>2 DEF Accounts
  <2> QED
    BY <1>0, <1>7, <2>3, PayoutsUntouched
<1>8. ASSUME NEW m \in Milestones, NEW p \in Percents, ResolveMilestoneDispute(m, p)
      PROVE  PayoutsPositive' /\ PayoutsCovered'
  <2>1. ContractOf[m] \in Contracts /\ {m} \subseteq Milestones
    BY MilestonesAssumption
  <2> QED
    BY <1>7, <1>8, <2>1 DEF ResolveMilestoneDispute
<1>9. ASSUME NEW c \in Contracts, NEW p \in Percents, ResolveContractDispute(c, p)
      PROVE  PayoutsPositive' /\ PayoutsCovered'
  <2> DEFINE S == {m \in MilestonesOf(c) : milestone[m] \in Unsettled}
  <2>1. S \subseteq Milestones /\ Settle(c, S, p) /\ UNCHANGED payout
    BY <1>9 DEF ResolveContractDispute, MilestonesOf
  <2> HIDE DEF S
  <2> QED
    BY <1>7, <2>1
<1> QED
  BY <1>0, <1>2, <1>4, <1>5, <1>6, <1>8, <1>9, RequestCovered, SentCovered
     DEF Next, vars, CreateContract, OpenContractDispute, SubmitMilestone,
         OpenMilestoneDispute

(***************************************************************************)
(* Every payout is for what its milestone earned, what has left is the sum *)
(* of the payouts sent, and every pending payout is covered: finance is    *)
(* never refused.                                                          *)
(***************************************************************************)
THEOREM PayoutsCorrect == Spec => []PayoutsCovered
<1>1. Init => PayoutInv
  BY InitStatus, InitPayouts DEF PayoutInv
<1>2. PayoutInv /\ [Next]_vars => PayoutInv'
  BY NextStatus, NextPayouts DEF PayoutInv
<1>3. PayoutInv => PayoutsCovered
  BY DEF PayoutInv
<1> QED
  BY <1>1, <1>2, <1>3, PTL DEF Spec

-----------------------------------------------------------------------------
(***************************************************************************)
(* What escrow holds.                                                      *)
(***************************************************************************)

(***************************************************************************)
(* Escrow is never overdrawn, whatever amounts the payment events report.  *)
(***************************************************************************)
THEOREM EscrowSolvent == Spec => []EscrowNotOverdrawn
<1>1. Init => EscrowNotOverdrawn
  BY DEF Init, EscrowNotOverdrawn, Accounts
<1>2. TypeOK /\ EscrowNotOverdrawn /\ [Next]_vars => EscrowNotOverdrawn'
  <2> SUFFICES ASSUME TypeOK, EscrowNotOverdrawn, [Next]_vars
               PROVE  EscrowNotOverdrawn'
    OBVIOUS
  <2>1. \A c \in Contracts, a \in Accounts : ledger[c][a] \in Int
    BY DEF TypeOK
  <2>2. ASSUME NEW c \in Contracts, NEW a \in Nat, Transfer(c, "client", "escrow", a)
        PROVE  EscrowNotOverdrawn'
    <3>1. ledger'[c]["escrow"] = ledger[c]["escrow"] + a
          /\ \A d \in Contracts \ {c} : ledger'[d] = ledger[d]
      BY <2>2, TransferEffect DEF Accounts
    <3> QED
      BY <2>1, <3>1 DEF EscrowNotOverdrawn, Accounts
  <2>3. ASSUME NEW c \in Contracts, FundContract(c) PROVE EscrowNotOverdrawn'
    <3>1. Total(c) \in Nat
      BY AmountSum, MilestonesOfFinite DEF Total
    <3> QED
      BY <2>2, <2>3, <3>1 DEF FundContract
  <2>4. ASSUME NEW c \in Contracts, NEW a \in PaidAmounts[c], ConfirmFunding(c, a)
        PROVE  EscrowNotOverdrawn'
    <3>1. a \in Nat
      BY InputsAssumption
    <3> QED
      BY <2>2, <2>4, <3>1 DEF ConfirmFunding
  <2>5. ASSUME NEW m \in Milestones, ApproveMilestone(m) PROVE EscrowNotOverdrawn'
    <3>1. ContractOf[m] \in Contracts /\ Amount[m] \in Int
      BY MilestonesAssumption
    <3>2. /\ ledger'[ContractOf[m]]["escrow"] = ledger[ContractOf[m]]["escrow"] - Amount[m]
          /\ ledger[ContractOf[m]]["escrow"] >= Amount[m]
          /\ \A d \in Contracts \ {ContractOf[m]} : ledger'[d] = ledger[d]
      BY <2>5, <3>1, TransferEffect DEF Accounts, ApproveMilestone
    <3> QED
      BY <2>1, <3>1, <3>2 DEF EscrowNotOverdrawn, Accounts
  <2>6. ASSUME NEW c \in Contracts, NEW S, S \subseteq Milestones, NEW p, Settle(c, S, p)
        PROVE  EscrowNotOverdrawn'
    <3>1. /\ ledger'[c]["escrow"] = ledger[c]["escrow"] - Sum(Amount, S)
          /\ ledger[c]["escrow"] >= Sum(Amount, S)
          /\ \A d \in Contracts \ {c} : ledger'[d] = ledger[d]
      BY <2>6, SettleEffect DEF Settle
    <3>2. Sum(Amount, S) \in Nat
      BY <2>6, AmountSum
    <3> QED
      BY <2>1, <3>1, <3>2 DEF EscrowNotOverdrawn, Accounts
  <2>7. ASSUME NEW m \in Milestones, NEW p \in Percents, ResolveMilestoneDispute(m, p)
        PROVE  EscrowNotOverdrawn'
    BY <2>6, <2>7, MilestonesAssumption DEF ResolveMilestoneDispute
  <2>8. ASSUME NEW c \in Contracts, NEW p \in Percents, ResolveContractDispute(c, p)
        PROVE  EscrowNotOverdrawn'
    BY <2>6, <2>8 DEF ResolveContractDispute, MilestonesOf
  <2>9. ASSUME NEW m \in Milestones, MarkPayoutSent(m) PROVE EscrowNotOverdrawn'
    <3>1. ContractOf[m] \in Contracts /\ payout[m].amount \in Int
      BY MilestonesAssumption DEF TypeOK
    <3>2. \A d \in Contracts : ledger'[d]["escrow"] = ledger[d]["escrow"]
      BY <2>9, <3>1, TransferEffect DEF MarkPayoutSent, Accounts
    <3> QED
      BY <3>2 DEF EscrowNotOverdrawn
  <2>10. ASSUME UNCHANGED ledger PROVE EscrowNotOverdrawn'
    BY <2>10 DEF EscrowNotOverdrawn
  <2> QED
    BY <2>3, <2>4, <2>5, <2>7, <2>8, <2>9, <2>10
       DEF Next, vars, CreateContract, OpenContractDispute, SubmitMilestone,
           OpenMilestoneDispute, RequestPayout
<1> QED
  BY <1>1, <1>2, TypeCorrect, PTL DEF Spec

(***************************************************************************)
(* With exact payments escrow holds exactly the open milestones.  The      *)
(* invariant is strengthened by an empty escrow before the funding.        *)
(***************************************************************************)
OpenMilestones(c) == {m \in MilestonesOf(c) : milestone[m] \notin Settled}
EscrowEmptyUnfunded ==
  \A c \in Contracts : contract[c] \in {"absent", "draft"} => ledger[c]["escrow"] = 0

EscrowInv == StatusInv /\ EscrowEmptyUnfunded /\ EscrowCoversUnsettled

LEMMA CoverSame ==
  ASSUME EscrowInv,
         \A c \in Contracts :
           /\ contract'[c] \in {"absent", "draft"} <=> contract[c] \in {"absent", "draft"}
           /\ ledger'[c]["escrow"] = ledger[c]["escrow"],
         \A m \in Milestones : milestone'[m] \in Settled <=> milestone[m] \in Settled
  PROVE  EscrowEmptyUnfunded' /\ EscrowCoversUnsettled'
<1>1. EscrowEmptyUnfunded'
  BY DEF EscrowInv, EscrowEmptyUnfunded
<1>2. \A c \in Contracts : OpenMilestones(c)' = OpenMilestones(c)
  BY DEF OpenMilestones, MilestonesOf
<1>3. \A c \in Contracts : contract[c] \notin {"absent", "draft"} =>
        ledger[c]["escrow"] = Sum(Amount, OpenMilestones(c))
  BY DEF EscrowInv, EscrowCoversUnsettled, OpenMilestones
<1>4. \A c \in Contracts : contract'[c] \notin {"absent", "draft"} =>
        ledger'[c]["escrow"] = Sum(Amount, OpenMilestones(c)')
  BY <1>2, <1>3
<1> QED
  BY <1>1, <1>4 DEF EscrowCoversUnsettled, OpenMilestones, MilestonesOf

LEMMA CoverFunding ==
  ASSUME NEW c \in Contracts, EscrowInv, contract[c] = "draft",
         Transfer(c, "client", "escrow", Total(c)),
         contract' = [contract EXCEPT ![c] = "active"], UNCHANGED milestone
  PROVE  EscrowEmptyUnfunded' /\ EscrowCoversUnsettled'
<1>1. Total(c) \in Int
  BY AmountSum, MilestonesOfFinite DEF Total
<1>2. /\ ledger'[c]["escrow"] = ledger[c]["escrow"] + Total(c)
      /\ \A d \in Contracts \ {c} : ledger'[d] = ledger[d]
      /\ contract'[c] = "active"
      /\ \A d \in Contracts \ {c} : contract'[d] = contract[d]
  <2>1. TypeOK
    BY DEF EscrowInv, StatusInv
  <2>2. /\ ledger'[c]["escrow"] = ledger[c]["escrow"] + Total(c)
        /\ \A d \in Contracts \ {c} : ledger'[d] = ledger[d]
    BY <1>1, <2>1, TransferEffect DEF Accounts
  <2> QED
    BY <2>1, <2>2 DEF TypeOK
<1>3. ledger[c]["escrow"] = 0
  BY DEF EscrowInv, EscrowEmptyUnfunded
<1>4. OpenMilestones(c)' = MilestonesOf(c)
  BY DEF EscrowInv, StatusInv, CompletedIffSettled, OpenMilestones, Settled, MilestonesOf
<1>5. ledger'[c]["escrow"] = Sum(Amount, OpenMilestones(c)')
  BY <1>1, <1>2, <1>3, <1>4 DEF Total
<1>6. \A d \in Contracts \ {c} : OpenMilestones(d)' = OpenMilestones(d)
  BY DEF OpenMilestones, MilestonesOf
<1>7. \A d \in Contracts \ {c} : contract'[d] \notin {"absent", "draft"} =>
        ledger'[d]["escrow"] = Sum(Amount, OpenMilestones(d)')
  BY <1>2, <1>6 DEF EscrowInv, EscrowCoversUnsettled, OpenMilestones
<1>8. EscrowEmptyUnfunded'
  BY <1>2 DEF EscrowInv, EscrowEmptyUnfunded
<1>9. \A d \in Contracts : contract'[d] \notin {"absent", "draft"} =>
        ledger'[d]["escrow"] = Sum(Amount, OpenMilestones(d)')
  BY <1>5, <1>7
<1> QED
  BY <1>8, <1>9 DEF EscrowCoversUnsettled, OpenMilestones, MilestonesOf

(***************************************************************************)
(* Settling some of the open milestones of a funded contract takes their   *)
(* amounts out of escrow.                                                  *)
(***************************************************************************)
LEMMA CoverSettling ==
  ASSUME NEW c \in Contracts, NEW S, S \subseteq OpenMilestones(c), EscrowInv,
         contract[c] \notin {"absent", "draft"},
         contract'[c] \notin {"absent", "draft"},
         \A d \in Contracts \ {c} : contract'[d] = contract[d] /\ ledger'[d] = ledger[d],
         ledger'[c]["escrow"] = ledger[c]["escrow"] - Sum(Amount, S),
         \A m \in S : milestone'[m] \in Settled,
         \A m \in Milestones \ S : milestone'[m] = milestone[m]
  PROVE  EscrowEmptyUnfunded' /\ EscrowCoversUnsettled'
<1> DEFINE O == OpenMilestones(c)
<1>1. O \subseteq Milestones /\ IsFiniteSet(O)
  BY FinitelyMany DEF OpenMilestones, MilestonesOf
<1>2. OpenMilestones(c)' = O \ S
  BY DEF OpenMilestones, MilestonesOf
<1>3. \A d \in Contracts \ {c} : OpenMilestones(d)' = OpenMilestones(d)
  BY DEF OpenMilestones, MilestonesOf
<1>4. ledger[c]["escrow"] = Sum(Amount, O)
  BY DEF EscrowInv, EscrowCoversUnsettled, OpenMilestones
<1> HIDE DEF O
<1>5. Sum(Amount, O) = Sum(Amount, S) + Sum(Amount, O \ S)
  BY <1>1, SumSubset, MilestonesAssumption DEF O
<1>6. Sum(Amount, S) \in Nat /\ Sum(Amount, O \ S) \in Nat
  <2>1. S \subseteq Milestones /\ O \ S \subseteq Milestones
    BY <1>1 DEF O
  <2> QED
    BY <2>1, AmountSum
<1>7. ledger'[c]["escrow"] = Sum(Amount, OpenMilestones(c)')
  BY <1>2, <1>4, <1>5, <1>6
<1>8. \A d \in Contracts \ {c} : contract'[d] \notin {"absent", "draft"} =>
        ledger'[d]["escrow"] = Sum(Amount, OpenMilestones(d)')
  BY <1>3 DEF EscrowInv, EscrowCoversUnsettled, OpenMilestones
<1>9. EscrowEmptyUnfunded'
  BY DEF EscrowInv, EscrowEmptyUnfunded
<1>10. \A d \in Contracts : contract'[d] \notin {"absent", "draft"} =>
         ledger'[d]["escrow"] = Sum(Amount, OpenMilestones(d)')
  BY <1>7, <1>8
<1> QED
  BY <1>9, <1>10 DEF EscrowCoversUnsettled, OpenMilestones, MilestonesOf

LEMMA ApproveCovers ==
  ASSUME NEW m \in Milestones, EscrowInv, ApproveMilestone(m)
  PROVE  EscrowEmptyUnfunded' /\ EscrowCoversUnsettled'
<1> DEFINE c == ContractOf[m]
           S == {m}
<1>1. TypeOK /\ c \in Contracts /\ Amount[m] \in Int /\ Sum(Amount, S) = Amount[m]
  BY MilestonesAssumption, SumOne DEF EscrowInv, StatusInv
<1>2. S \subseteq OpenMilestones(c)
  BY <1>1 DEF ApproveMilestone, OpenMilestones, MilestonesOf, Settled
<1>3. /\ ledger'[c]["escrow"] = ledger[c]["escrow"] - Amount[m]
      /\ \A d \in Contracts \ {c} : ledger'[d] = ledger[d]
  BY <1>1, TransferEffect DEF ApproveMilestone, Accounts
<1>4. /\ contract[c] = "active"
      /\ contract'[c] \in {"active", "completed"}
      /\ \A d \in Contracts \ {c} : contract'[d] = contract[d]
  BY <1>1 DEF ApproveMilestone, TypeOK
<1>5. /\ \A n \in S : milestone'[n] \in Settled
      /\ \A n \in Milestones \ S : milestone'[n] = milestone[n]
  BY <1>1 DEF ApproveMilestone, TypeOK, Settled
<1> HIDE DEF S, c
<1> QED
  BY <1>1, <1>2, <1>3, <1>4, <1>5, CoverSettling

LEMMA ResolveMilestoneCovers ==
  ASSUME NEW m \in Milestones, NEW p \in Percents, EscrowInv,
         ResolveMilestoneDispute(m, p)
  PROVE  EscrowEmptyUnfunded' /\ EscrowCoversUnsettled'
<1> DEFINE c == ContractOf[m]
           S == {m}
<1>1. TypeOK /\ c \in Contracts /\ m \in MilestonesOf(c)
  BY MilestonesAssumption DEF EscrowInv, StatusInv, MilestonesOf
<1>2. milestone[m] = "disputed"
  BY DEF ResolveMilestoneDispute, EscrowInv, StatusInv, DisputesCoherent
<1>3. contract[c] \notin {"absent", "draft"}
  BY <1>1, <1>2 DEF EscrowInv, StatusInv, CompletedIffSettled
<1>4. S \subseteq OpenMilestones(c)
  BY <1>1, <1>2 DEF OpenMilestones, Settled
<1>5. Settle(c, S, p)
  BY DEF ResolveMilestoneDispute
<1>6. /\ contract'[c] \in {"completed", contract[c]}
      /\ \A d \in Contracts \ {c} : contract'[d] = contract[d]
  BY <1>1 DEF ResolveMilestoneDispute, TypeOK
<1> HIDE DEF S, c
<1>7. S \subseteq Milestones
  BY <1>4 DEF OpenMilestones, MilestonesOf
<1>8. /\ ledger'[c]["escrow"] = ledger[c]["escrow"] - Sum(Amount, S)
      /\ \A d \in Contracts \ {c} : ledger'[d] = ledger[d]
      /\ \A n \in S : milestone'[n] \in Settled
      /\ \A n \in Milestones \ S : milestone'[n] = milestone[n]
  BY <1>1, <1>5, <1>7, SettleEffect DEF Settled
<1> QED
  BY <1>1, <1>3, <1>4, <1>6, <1>8, CoverSettling

LEMMA ResolveContractCovers ==
  ASSUME NEW c \in Contracts, NEW p \in Percents, EscrowInv,
         ResolveContractDispute(c, p)
  PROVE  EscrowEmptyUnfunded' /\ EscrowCoversUnsettled'
<1> DEFINE S == {m \in MilestonesOf(c) : milestone[m] \in Unsettled}
<1>1. TypeOK /\ contract[c] = "disputed"
  BY DEF EscrowInv, StatusInv, DisputesCoherent, ResolveContractDispute
<1>2. S \subseteq OpenMilestones(c) /\ S \subseteq Milestones
  BY DEF OpenMilestones, MilestonesOf, Settled, Unsettled
<1>3. Settle(c, S, p)
  BY DEF ResolveContractDispute
<1>4. /\ contract'[c] \in {"completed", "active"}
      /\ \A d \in Contracts \ {c} : contract'[d] = contract[d]
  BY <1>1 DEF ResolveContractDispute, TypeOK
<1> HIDE DEF S
<1>5. /\ ledger'[c]["escrow"] = ledger[c]["escrow"] - Sum(Amount, S)
      /\ \A d \in Contracts \ {c} : ledger'[d] = ledger[d]
      /\ \A n \in S : milestone'[n] \in Settled
      /\ \A n \in Milestones \ S : milestone'[n] = milestone[n]
  BY <1>1, <1>2, <1>3, SettleEffect DEF Settled
<1> QED
  BY <1>1, <1>2, <1>4, <1>5, CoverSettling

LEMMA InitEscrow == Init => EscrowInv
<1> SUFFICES ASSUME Init PROVE EscrowInv
  OBVIOUS
<1>1. EscrowEmptyUnfunded /\ EscrowCoversUnsettled
  BY DEF Init, EscrowEmptyUnfunded, EscrowCoversUnsettled, Accounts
<1> QED
  BY <1>1, InitStatus DEF EscrowInv

(***************************************************************************)
(* The steps that neither fund nor settle leave escrow and the set of open *)
(* milestones as they were.                                                *)
(***************************************************************************)
LEMMA OtherCovers ==
  ASSUME EscrowInv,
         \/ \E c \in Contracts : CreateContract(c) \/ OpenContractDispute(c)
         \/ \E m \in Milestones : \/ SubmitMilestone(m)
                                  \/ OpenMilestoneDispute(m)
                                  \/ RequestPayout(m)
                                  \/ MarkPayoutSent(m)
         \/ UNCHANGED vars
  PROVE  EscrowEmptyUnfunded' /\ EscrowCoversUnsettled'
<1>1. TypeOK
  BY DEF EscrowInv, StatusInv
<1>2. \A c \in Contracts :
        contract'[c] \in {"absent", "draft"} <=> contract[c] \in {"absent", "draft"}
  BY <1>1 DEF CreateContract, OpenContractDispute, SubmitMilestone, TypeOK,
              OpenMilestoneDispute, RequestPayout, MarkPayoutSent, vars
<1>3. \A m \in Milestones : milestone'[m] \in Settled <=> milestone[m] \in Settled
  <2>1. ASSUME NEW c \in Contracts, CreateContract(c)
        PROVE  \A m \in Milestones : milestone'[m] \in Settled <=> milestone[m] \in Settled
    BY <2>1 DEF CreateContract, EscrowInv, StatusInv, CompletedIffSettled, Settled
  <2> QED
    BY <1>1, <2>1
       DEF OpenContractDispute, SubmitMilestone, TypeOK, Settled,
           OpenMilestoneDispute, RequestPayout, MarkPayoutSent, vars
<1>4. \A c \in Contracts : ledger'[c]["escrow"] = ledger[c]["escrow"]
  <2>1. ASSUME NEW m \in Milestones, MarkPayoutSent(m)
        PROVE  \A c \in Contracts : ledger'[c]["escrow"] = ledger[c]["escrow"]
    <3>1. ContractOf[m] \in Contracts /\ payout[m].amount \in Int
      BY <1>1, MilestonesAssumption DEF TypeOK
    <3> QED
      BY <1>1, <2>1, <3>1, TransferEffect DEF MarkPayoutSent, Accounts
  <2> QED
    BY <2>1 DEF CreateContract, OpenContractDispute, SubmitMilestone,
                OpenMilestoneDispute, RequestPayout, vars
<1> QED
  BY <1>2, <1>3, <1>4, CoverSame

LEMMA NextEscrow ==
  ASSUME ExactPayments, EscrowInv, [Next]_vars
  PROVE  EscrowInv'
<1>1. ASSUME NEW c \in Contracts,
             FundContract(c) \/ \E a \in PaidAmounts[c] : ConfirmFunding(c, a)
      PROVE  EscrowEmptyUnfunded' /\ EscrowCoversUnsettled'
  <2>1. /\ contract[c] = "draft"
        /\ Transfer(c, "client", "escrow", Total(c))
        /\ contract' = [contract EXCEPT ![c] = "active"]
        /\ UNCHANGED milestone
    BY <1>1 DEF FundContract, ConfirmFunding, ExactPayments
  <2> QED
    BY <2>1, CoverFunding
<1>2. EscrowEmptyUnfunded' /\ EscrowCoversUnsettled'
  BY <1>1, OtherCovers, ApproveCovers, ResolveMilestoneCovers, ResolveContractCovers
     DEF Next
<1> QED
  BY <1>2, NextStatus DEF EscrowInv

LEMMA EscrowInvariant ==
  ASSUME ExactPayments
  PROVE  Spec => []EscrowInv
<1>1. EscrowInv /\ [Next]_vars => EscrowInv'
  BY NextEscrow
<1> QED
  BY <1>1, InitEscrow, PTL DEF Spec

(***************************************************************************)
(* Escrow holds exactly what the open milestones need.                     *)
(***************************************************************************)
THEOREM EscrowExact ==
  ASSUME ExactPayments
  PROVE  Spec => []EscrowCoversUnsettled
BY EscrowInvariant, PTL DEF EscrowInv

LEMMA OpenCovered ==
  ASSUME EscrowInv, NEW c \in Contracts, contract[c] \notin {"absent", "draft"},
         NEW S, S \subseteq OpenMilestones(c)
  PROVE  ledger[c]["escrow"] >= Sum(Amount, S)
<1> DEFINE O == OpenMilestones(c)
<1>1. O \subseteq Milestones /\ IsFiniteSet(O)
  BY FinitelyMany DEF OpenMilestones, MilestonesOf
<1>2. ledger[c]["escrow"] = Sum(Amount, O)
  BY DEF EscrowInv, EscrowCoversUnsettled, OpenMilestones
<1>3. S \subseteq O /\ \A x \in O : Amount[x] \in Nat
  BY <1>1, MilestonesAssumption
<1> HIDE DEF O
<1>4. Sum(Amount, O) = Sum(Amount, S) + Sum(Amount, O \ S)
  BY <1>1, <1>3, SumSubset
<1>5. Sum(Amount, S) \in Nat /\ Sum(Amount, O \ S) \in Nat
  <2>1. S \subseteq Milestones /\ O \ S \subseteq Milestones
    BY <1>1, <1>3
  <2> QED
    BY <2>1, AmountSum
<1> QED
  BY <1>2, <1>4, <1>5

LEMMA EscrowAllowsRuling == EscrowInv => RulingAlwaysPossible
<1> SUFFICES ASSUME EscrowInv PROVE RulingAlwaysPossible
  OBVIOUS
<1>1. ASSUME NEW m \in Milestones, dispute[m] = "open"
      PROVE  ledger[ContractOf[m]]["escrow"] >= Amount[m]
  <2> DEFINE c == ContractOf[m]
             S == {m}
  <2>1. c \in Contracts /\ m \in MilestonesOf(c) /\ milestone[m] = "disputed"
    BY <1>1, MilestonesAssumption
       DEF EscrowInv, StatusInv, DisputesCoherent, MilestonesOf
  <2>2. contract[c] \notin {"absent", "draft"}
    BY <2>1 DEF EscrowInv, StatusInv, CompletedIffSettled
  <2>3. S \subseteq OpenMilestones(c) /\ Sum(Amount, S) = Amount[m]
    BY <2>1, MilestonesAssumption, SumOne DEF OpenMilestones, Settled
  <2> HIDE DEF S, c
  <2>4. ledger[c]["escrow"] >= Sum(Amount, S)
    BY <2>1, <2>2, <2>3, OpenCovered
  <2> QED
    BY <2>3, <2>4 DEF c
<1>2. ASSUME NEW c \in Contracts, dispute[c] = "open"
      PROVE  LET S == {m \in MilestonesOf(c) : milestone[m] \in Unsettled} IN
             S # {} /\ ledger[c]["escrow"] >= Sum(Amount, S)
  <2> DEFINE S == {m \in MilestonesOf(c) : milestone[m] \in Unsettled}
  <2>1. contract[c] = "disputed"
    BY <1>2 DEF EscrowInv, StatusInv, DisputesCoherent
  <2>2. PICK m \in MilestonesOf(c) : milestone[m] \notin Settled
    BY <2>1 DEF EscrowInv, StatusInv, CompletedIffSettled, AllSettled
  <2>3. milestone[m] # "absent"
    BY <2>1 DEF EscrowInv, StatusInv, CompletedIffSettled
  <2>4. milestone[m] # "disputed"
    <3>1. m # c /\ m \in Milestones
      BY ContractsAssumption DEF MilestonesOf
    <3> QED
      BY <1>2, <3>1 DEF EscrowInv, StatusInv, DisputesCoherent
  <2>5. m \in S
    BY <2>2, <2>3, <2>4
       DEF EscrowInv, StatusInv, TypeOK, MilestoneStatus, Settled, Unsettled, MilestonesOf
  <2>6. S \subseteq OpenMilestones(c)
    BY DEF OpenMilestones, Settled, Unsettled
  <2> HIDE DEF S
  <2>7. ledger[c]["escrow"] >= Sum(Amount, S)
    BY <2>1, <2>6, OpenCovered
  <2> QED
    BY <2>5, <2>7 DEF S
<1> QED
  BY <1>1, <1>2 DEF RulingAlwaysPossible

(***************************************************************************)
(* Whoever opens a dispute can have it ruled on.                           *)
(***************************************************************************)
THEOREM RulingNeverBlocked ==
  ASSUME ExactPayments
  PROVE  Spec => []RulingAlwaysPossible
BY EscrowInvariant, EscrowAllowsRuling, PTL

=============================================================================
