--------------------------- MODULE EscrowTxProofs ---------------------------
(***************************************************************************)
(* Theorems about EscrowTx, for any contracts, milestones, amounts,        *)
(* requests in progress and server processes.                              *)
(***************************************************************************)
EXTENDS EscrowTx, EscrowProofs

RequestTypes == {"fund", "webhook", "submit", "approve", "payout", "sent", "dispute", "resolve"}

\* What a request is about.
LEMMA RequestFacts ==
  ASSUME NEW r \in Requests
  PROVE  /\ r.type \in RequestTypes
         /\ r.type \in {"fund", "webhook"} => r.on \in Contracts
         /\ r.type = "webhook" => r.arg \in PaidAmounts[r.on]
         /\ r.type \in {"submit", "approve", "payout", "sent"} => r.on \in Milestones
         /\ r.type = "resolve" => r.arg \in Percents
         /\ r.on \in Targets
         /\ r.on \in Contracts => ContractOn(r) = r.on /\ r.on \notin Milestones
         /\ r.on \in Milestones => ContractOn(r) = ContractOf[r.on] /\ r.on \notin Contracts
         /\ ContractOn(r) \in Contracts
<1> DEFINE Funds == {Request("fund", c, 0) : c \in Contracts}
           Webhooks == UNION {{Request("webhook", c, a) : a \in PaidAmounts[c]} : c \in Contracts}
           OnMilestones == {Request(t, m, 0) : t \in {"submit", "approve", "payout", "sent"}, m \in Milestones}
           Disputes == {Request("dispute", t, 0) : t \in Targets}
           Rulings == {Request("resolve", t, p) : t \in Targets, p \in Percents}
<1>0. r \in Funds \/ r \in Webhooks \/ r \in OnMilestones \/ r \in Disputes \/ r \in Rulings
  BY DEF Requests
<1>1. CASE r \in Funds
  BY <1>1, ContractsAssumption DEF Request, RequestTypes, Targets, ContractOn
<1>2. CASE r \in Webhooks
  <2>1. PICK c \in Contracts : r \in {Request("webhook", c, a) : a \in PaidAmounts[c]}
    BY <1>2
  <2>2. r.type = "webhook" /\ r.on = c /\ r.arg \in PaidAmounts[c]
    BY <2>1 DEF Request
  <2>3. QED
    BY <2>2, ContractsAssumption DEF RequestTypes, Targets, ContractOn
<1>3. CASE r \in OnMilestones
  <2>1. PICK t \in {"submit", "approve", "payout", "sent"}, m \in Milestones :
          r = Request(t, m, 0)
    BY <1>3
  <2>2. r.type = t /\ r.on = m /\ m \notin Contracts /\ ContractOf[m] \in Contracts
    BY <2>1, ContractsAssumption, MilestonesAssumption DEF Request
  <2>3. QED
    BY <2>2 DEF RequestTypes, Targets, ContractOn
<1>4. CASE r \in Disputes
  <2>1. PICK t \in Targets : r = Request("dispute", t, 0)
    BY <1>4
  <2>2. r.type = "dispute" /\ r.on = t
    BY <2>1 DEF Request
  <2>3. QED
    BY <2>2, ContractsAssumption, MilestonesAssumption DEF RequestTypes, Targets, ContractOn
<1>5. CASE r \in Rulings
  <2>1. PICK t \in Targets, p \in Percents : r = Request("resolve", t, p)
    BY <1>5
  <2>2. r.type = "resolve" /\ r.on = t /\ r.arg = p
    BY <2>1 DEF Request
  <2>3. QED
    BY <2>2, ContractsAssumption, MilestonesAssumption DEF RequestTypes, Targets, ContractOn
<1>6. QED
  <2> HIDE DEF Funds, Webhooks, OnMilestones, Disputes, Rulings
  <2> QED
    BY <1>0, <1>1, <1>2, <1>3, <1>4, <1>5

\* The rows of different tables, or of different keys, are different.
LEMMA RowsDiffer ==
  ASSUME NEW x, NEW y
  PROVE  /\ ContractRow(x) # MilestoneRow(y) /\ ContractRow(x) # DisputeRow(y)
         /\ ContractRow(x) # PayoutRow(y) /\ MilestoneRow(x) # DisputeRow(y)
         /\ MilestoneRow(x) # PayoutRow(y) /\ DisputeRow(x) # PayoutRow(y)
         /\ ContractRow(x) = ContractRow(y) <=> x = y
         /\ MilestoneRow(x) = MilestoneRow(y) <=> x = y
         /\ DisputeRow(x) = DisputeRow(y) <=> x = y
         /\ PayoutRow(x) = PayoutRow(y) <=> x = y
BY DEF ContractRow, MilestoneRow, DisputeRow, PayoutRow

\* What a SELECT of a row finds.
LEMMA StatusFacts ==
  ASSUME NEW x
  PROVE  /\ Status(ContractRow(x)) = contract[x]
         /\ Status(MilestoneRow(x)) = milestone[x]
         /\ Status(DisputeRow(x)) = dispute[x]
         /\ Status(PayoutRow(x)) = payout[x].status
BY DEF ContractRow, MilestoneRow, DisputeRow, PayoutRow, Status

\* The contract's row is the last that a request locks; three kinds of request
\* lock the row they are about before it.
LEMMA PlanFacts ==
  ASSUME NEW r \in Requests
  PROVE  /\ r.type \in {"fund", "webhook", "submit", "dispute", "payout"} =>
              LockPlan(r) = <<ContractRow(ContractOn(r))>>
         /\ r.type = "approve" =>
              LockPlan(r) = <<MilestoneRow(r.on), ContractRow(ContractOn(r))>>
         /\ r.type = "resolve" =>
              LockPlan(r) = <<DisputeRow(r.on), ContractRow(ContractOn(r))>>
         /\ r.type = "sent" =>
              LockPlan(r) = <<PayoutRow(r.on), ContractRow(ContractOn(r))>>
         /\ Len(LockPlan(r)) =
              IF r.type \in {"approve", "resolve", "sent"} THEN 2 ELSE 1
         /\ LockPlan(r)[Len(LockPlan(r))] = ContractRow(ContractOn(r))
         /\ \A i \in 1..Len(LockPlan(r)) : LockPlan(r)[i] \in Rows
<1>1. r.type \in RequestTypes /\ ContractOn(r) \in Contracts
  BY RequestFacts
<1>2. CASE r.type \in {"fund", "webhook", "submit", "dispute", "payout"}
  <2>1. LockPlan(r) = <<ContractRow(ContractOn(r))>>
    BY <1>2 DEF LockPlan
  <2>2. QED
    BY <1>1, <1>2, <2>1 DEF Rows
<1>3. CASE r.type = "approve"
  <2>1. LockPlan(r) = <<MilestoneRow(r.on), ContractRow(ContractOn(r))>> /\ r.on \in Milestones
    BY <1>3, RequestFacts DEF LockPlan
  <2>2. QED
    BY <1>1, <1>3, <2>1 DEF Rows
<1>4. CASE r.type = "resolve"
  <2>1. LockPlan(r) = <<DisputeRow(r.on), ContractRow(ContractOn(r))>> /\ r.on \in Targets
    BY <1>4, RequestFacts DEF LockPlan
  <2>2. QED
    BY <1>1, <1>4, <2>1 DEF Rows
<1>5. CASE r.type = "sent"
  <2>1. LockPlan(r) = <<PayoutRow(r.on), ContractRow(ContractOn(r))>> /\ r.on \in Milestones
    BY <1>5, RequestFacts DEF LockPlan
  <2>2. QED
    BY <1>1, <1>5, <2>1 DEF Rows
<1>6. QED
  BY <1>1, <1>2, <1>3, <1>4, <1>5 DEF RequestTypes

-----------------------------------------------------------------------------
(***************************************************************************)
(* Types.  These hold whatever overlaps.                                   *)
(***************************************************************************)

SlotTypes ==
  /\ pc \in [Slots -> {"idle", "running", "writing", "refused"}]
  /\ req \in [Slots -> Requests \cup {None}]
  /\ locks \in [Slots -> Nat]
  /\ DOMAIN view = Slots
  /\ DOMAIN writes = Slots
  /\ loop \in [Processes -> Slots \cup {None}]
  /\ \A s \in Slots :
       /\ IF Active(s) THEN req[s] \in Requests /\ locks[s] <= Len(LockPlan(req[s]))
                       ELSE req[s] = None /\ locks[s] = 0
       /\ DOMAIN view[s] \subseteq Rows

\* Values that may be written.
Typed(w) ==
  /\ \A c \in DOMAIN w.contract : w.contract[c] \in ContractStatus
  /\ \A m \in DOMAIN w.milestone : w.milestone[m] \in MilestoneStatus
  /\ \A t \in DOMAIN w.dispute : w.dispute[t] \in DisputeStatus
  /\ \A m \in DOMAIN w.ruling : w.ruling[m] \in Nat
  /\ \A m \in DOMAIN w.payout : w.payout[m] \in [status : PayoutStatus, amount : Nat]
  /\ w.ledger \in [Accounts -> Int]

\* What is about to be committed has been decided under all locks.
WritesTyped ==
  \A s \in Slots : pc[s] = "writing" => AllLocked(s) /\ Typed(writes[s])

TxTypeInv == TypeOK /\ SlotTypes /\ WritesTyped

\* A session's identity map after it has loaded rows.
LEMMA LoadFacts ==
  ASSUME NEW map, NEW rows
  PROVE  /\ DOMAIN Load(map, rows) = DOMAIN map \cup rows
         /\ \A row \in DOMAIN map : Load(map, rows)[row] = map[row]
         /\ \A row \in rows \ DOMAIN map : Load(map, rows)[row] = Status(row)
BY DEF Load

LEMMA LoadFirst ==
  ASSUME NEW rows
  PROVE  /\ DOMAIN Load(<<>>, rows) = rows
         /\ \A row \in rows : Load(<<>>, rows)[row] = Status(row)
<1>1. DOMAIN <<>> = {}
  OBVIOUS
<1>2. QED
  BY <1>1, LoadFacts

LEMMA ReadsAreRows ==
  ASSUME NEW r \in Requests
  PROVE  /\ UnlockedReads(r) \subseteq Rows
         /\ \A row \in Rows : ReadsWith(row, r) \subseteq Rows
<1>1. /\ r.type \in {"submit", "payout"} => r.on \in Milestones
      /\ r.type = "webhook" => r.on \in Contracts
      /\ ContractOn(r) \in Contracts
  BY RequestFacts
<1>2. UnlockedReads(r) \subseteq Rows
  BY <1>1 DEF UnlockedReads, Rows
<1>3. ASSUME NEW row \in Rows PROVE ReadsWith(row, r) \subseteq Rows
  BY <1>1 DEF ReadsWith, Rows
<1>4. QED
  BY <1>2, <1>3

\* One request is over, or several at once.
LEMMA CloseTypes ==
  ASSUME SlotTypes, NEW S, Close(S), loop' \in [Processes -> Slots \cup {None}]
  PROVE  /\ SlotTypes'
         /\ \A s \in Slots \ S : /\ req'[s] = req[s] /\ pc'[s] = pc[s] /\ locks'[s] = locks[s]
                                /\ view'[s] = view[s] /\ writes'[s] = writes[s]
         /\ \A s \in Slots \cap S : pc'[s] = "idle" /\ req'[s] = None /\ locks'[s] = 0
<1>1. /\ req' = [s \in Slots |-> IF s \in S THEN None ELSE req[s]]
      /\ pc' = [s \in Slots |-> IF s \in S THEN "idle" ELSE pc[s]]
      /\ locks' = [s \in Slots |-> IF s \in S THEN 0 ELSE locks[s]]
      /\ view' = [s \in Slots |-> IF s \in S THEN <<>> ELSE view[s]]
      /\ writes' = [s \in Slots |-> IF s \in S THEN Nothing ELSE writes[s]]
  BY DEF Close
<1>2. /\ pc' \in [Slots -> {"idle", "running", "writing", "refused"}]
      /\ req' \in [Slots -> Requests \cup {None}]
      /\ locks' \in [Slots -> Nat]
      /\ DOMAIN view' = Slots /\ DOMAIN writes' = Slots
  BY <1>1 DEF SlotTypes
<1>3. DOMAIN <<>> = {}
  OBVIOUS
<1>4. \A s \in Slots : DOMAIN view'[s] \subseteq Rows
  BY <1>1, <1>3 DEF SlotTypes
<1>5. \A s \in Slots :
        IF Active(s)' THEN req'[s] \in Requests /\ locks'[s] <= Len(LockPlan(req'[s]))
                      ELSE req'[s] = None /\ locks'[s] = 0
  BY <1>1 DEF SlotTypes, Active
<1>6. SlotTypes'
  BY <1>2, <1>4, <1>5 DEF SlotTypes
<1>7. QED
  BY <1>1, <1>6

LEMMA LeaveLoopType ==
  ASSUME NEW s, loop \in [Processes -> Slots \cup {None}], LeaveLoop(s)
  PROVE  loop' \in [Processes -> Slots \cup {None}]
BY DEF LeaveLoop

\* Decisions are well typed.
LEMMA MovedType ==
  ASSUME NEW from \in Accounts, NEW to \in Accounts, NEW amount \in Int
  PROVE  Moved(from, to, amount) \in [Accounts -> Int]
BY DEF Moved

LEMMA OnlyFacts ==
  ASSUME NEW x, NEW y
  PROVE  DOMAIN Only(x, y) = {x} /\ Only(x, y)[x] = y
BY DEF Only

\* The parts of what is written.
Parts(w, C, M, D, R, P, L) ==
  /\ w.contract = C
  /\ w.milestone = M
  /\ w.dispute = D
  /\ w.ruling = R
  /\ w.payout = P
  /\ w.ledger = L

LEMMA NothingParts ==
  Parts(Nothing, <<>>, <<>>, <<>>, <<>>, <<>>, [a \in Accounts |-> 0])
BY DEF Parts, Nothing

LEMMA FundParts ==
  ASSUME NEW c, NEW amount
  PROVE  Parts(FundWrites(c, amount), Only(c, "active"), <<>>, <<>>, <<>>, <<>>,
               Moved("client", "escrow", amount))
BY DEF Parts, Nothing, FundWrites

LEMMA SubmitParts ==
  ASSUME NEW m
  PROVE  Parts(SubmitWrites(m), <<>>, Only(m, "submitted"), <<>>, <<>>, <<>>,
               [a \in Accounts |-> 0])
BY DEF Parts, Nothing, SubmitWrites

LEMMA ApproveParts ==
  ASSUME NEW v, NEW m
  PROVE  Parts(ApproveWrites(v, m),
               IF Completes(v, ContractOf[m], {m})
                 THEN Only(ContractOf[m], "completed") ELSE <<>>,
               Only(m, "approved"), <<>>, <<>>, <<>>,
               Moved("escrow", "freelancer", Amount[m]))
BY DEF Parts, Nothing, ApproveWrites

LEMMA DisputeParts ==
  ASSUME NEW t
  PROVE  /\ t \in Milestones =>
              Parts(DisputeWrites(t), <<>>, Only(t, "disputed"), Only(t, "open"), <<>>, <<>>,
                    [a \in Accounts |-> 0])
         /\ t \notin Milestones =>
              Parts(DisputeWrites(t), Only(t, "disputed"), <<>>, Only(t, "open"), <<>>, <<>>,
                    [a \in Accounts |-> 0])
BY DEF Parts, Nothing, DisputeWrites

\* The entries of a ruling that gives the freelancer part of a total.
Split(total, part) ==
  [Moved("escrow", "freelancer", part) EXCEPT !["escrow"] = -total, !["client"] = total - part]

LEMMA ResolveParts ==
  ASSUME NEW v, NEW t, NEW c, NEW p, NEW S, S = Ruled(v, t),
         NEW share, share = [m \in S |-> FreelancerShare(m, p)]
  PROVE  Parts(ResolveWrites(v, t, c, p),
               IF Completes(v, c, S) THEN Only(c, "completed")
                 ELSE IF t = c THEN Only(c, "active") ELSE <<>>,
               [m \in S |-> "resolved"], Only(t, "resolved"), share, <<>>,
               Split(Sum(Amount, S), Sum(share, S)))
BY DEF Parts, Nothing, ResolveWrites, Split

LEMMA PayoutParts ==
  ASSUME NEW v, NEW m
  PROVE  Parts(PayoutWrites(v, m), <<>>, <<>>, <<>>, <<>>,
               Only(m, [status |-> "pending", amount |-> Owed(v, m)]),
               [a \in Accounts |-> 0])
BY DEF Parts, Nothing, PayoutWrites

LEMMA SentParts ==
  ASSUME NEW m
  PROVE  Parts(SentWrites(m), <<>>, <<>>, <<>>, <<>>,
               Only(m, [status |-> "sent", amount |-> payout[m].amount]),
               Moved("freelancer", "payout", payout[m].amount))
BY DEF Parts, Nothing, SentWrites

LEMMA NothingTyped == Typed(Nothing)
<1>1. DOMAIN <<>> = {} /\ [a \in Accounts |-> 0] \in [Accounts -> Int]
  OBVIOUS
<1>2. QED
  BY <1>1, NothingParts DEF Parts, Typed

LEMMA WritesOfTyped ==
  ASSUME TypeOK, NEW s \in Slots, req[s] \in Requests
  PROVE  Typed(WritesOf(s))
<1>0. PICK r \in Requests : r = req[s]
  OBVIOUS
<1> DEFINE c == ContractOn(r)
           v == view[s]
<1>1. c \in Contracts /\ r.type \in RequestTypes
  BY RequestFacts
<1>2. DOMAIN <<>> = {} /\ [a \in Accounts |-> 0] \in [Accounts -> Int]
  OBVIOUS
<1> HIDE DEF c, v
<1>3. ASSUME NEW amount \in Int PROVE Typed(FundWrites(c, amount))
  <2>1. Moved("client", "escrow", amount) \in [Accounts -> Int]
    BY MovedType DEF Accounts
  <2>2. DOMAIN Only(c, "active") = {c} /\ Only(c, "active")[c] = "active"
    BY OnlyFacts
  <2>3. QED
    BY <1>2, <2>1, <2>2, FundParts DEF Parts, Typed, ContractStatus
<1>4. CASE r.type = "fund"
  <2>1. Total(c) \in Int
    BY MilestonesOfFinite, AmountSum DEF Total
  <2>2. QED
    BY <1>0, <1>3, <1>4, <2>1 DEF WritesOf, c
<1>5. CASE r.type = "webhook"
  <2>1. r.arg \in Int
    BY <1>5, RequestFacts, InputsAssumption
  <2>2. WritesOf(s) = WebhookWrites(v, c, r.arg)
    BY <1>0, <1>5 DEF WritesOf, c, v
  <2>3. QED
    BY <1>3, <2>1, <2>2, NothingTyped DEF WebhookWrites
<1>6. CASE r.type = "submit"
  <2>1. WritesOf(s) = SubmitWrites(r.on)
    BY <1>0, <1>6 DEF WritesOf
  <2>2. DOMAIN Only(r.on, "submitted") = {r.on} /\ Only(r.on, "submitted")[r.on] = "submitted"
    BY OnlyFacts
  <2>3. Typed(SubmitWrites(r.on))
    BY <1>2, <2>2, SubmitParts DEF Parts, Typed, MilestoneStatus
  <2>4. QED
    BY <2>1, <2>3
<1>7. CASE r.type = "approve"
  <2>1. WritesOf(s) = ApproveWrites(v, r.on)
    BY <1>0, <1>7 DEF WritesOf, v
  <2>2. r.on \in Milestones /\ Amount[r.on] \in Int
    BY <1>7, RequestFacts, MilestonesAssumption
  <2>3. Moved("escrow", "freelancer", Amount[r.on]) \in [Accounts -> Int]
    BY <2>2, MovedType DEF Accounts
  <2> DEFINE C == IF Completes(v, ContractOf[r.on], {r.on})
                    THEN Only(ContractOf[r.on], "completed") ELSE <<>>
             L == Moved("escrow", "freelancer", Amount[r.on])
  <2>7. Parts(ApproveWrites(v, r.on), C, Only(r.on, "approved"), <<>>, <<>>, <<>>, L)
    BY ApproveParts
  <2>8. \A d \in DOMAIN C : C[d] \in ContractStatus
    <3>1. /\ DOMAIN Only(ContractOf[r.on], "completed") = {ContractOf[r.on]}
          /\ Only(ContractOf[r.on], "completed")[ContractOf[r.on]] = "completed"
      BY OnlyFacts
    <3>2. QED
      BY <1>2, <3>1 DEF ContractStatus
  <2> HIDE DEF C, L
  <2>4. DOMAIN Only(r.on, "approved") = {r.on} /\ Only(r.on, "approved")[r.on] = "approved"
    BY OnlyFacts
  <2>5. Typed(ApproveWrites(v, r.on))
    BY <1>2, <2>3, <2>4, <2>7, <2>8 DEF Parts, Typed, MilestoneStatus, L
  <2>6. QED
    BY <2>1, <2>5
<1>8. CASE r.type = "dispute"
  <2>1. WritesOf(s) = DisputeWrites(r.on)
    BY <1>0, <1>8 DEF WritesOf
  <2>2. /\ DOMAIN Only(r.on, "open") = {r.on} /\ Only(r.on, "open")[r.on] = "open"
        /\ DOMAIN Only(r.on, "disputed") = {r.on} /\ Only(r.on, "disputed")[r.on] = "disputed"
    BY OnlyFacts
  <2>3. Typed(DisputeWrites(r.on))
    BY <1>2, <2>2, DisputeParts DEF Parts, Typed, MilestoneStatus, ContractStatus, DisputeStatus
  <2>4. QED
    BY <2>1, <2>3
<1>9. CASE r.type = "resolve"
  <2>1. WritesOf(s) = ResolveWrites(v, r.on, c, r.arg)
    BY <1>0, <1>9 DEF WritesOf, c, v
  <2> DEFINE S == Ruled(v, r.on)
             share == [m \in S |-> FreelancerShare(m, r.arg)]
  <2>2. S \subseteq Milestones /\ r.arg \in Percents
    BY <1>9, RequestFacts, MilestonesOfFinite DEF Ruled
  <2>3. share \in [S -> Nat]
    BY <2>2, SharesType
  <2> HIDE DEF S
  <2>4. Sum(Amount, S) \in Int
    BY <2>2, AmountSum
  <2>5. Sum(share, S) \in Int
    <3>1. IsFiniteSet(S)
      BY <2>2, FinitelyMany
    <3>2. \A m \in S : share[m] \in Nat
      BY <2>3
    <3> HIDE DEF share
    <3>3. QED
      BY <3>1, <3>2, SumType
  <2> HIDE DEF share
  <2>6. Moved("escrow", "freelancer", Sum(share, S)) \in [Accounts -> Int]
    BY <2>5, MovedType DEF Accounts
  <2>7. Split(Sum(Amount, S), Sum(share, S)) \in [Accounts -> Int]
    BY <2>4, <2>5, <2>6 DEF Split, Accounts
  <2> DEFINE C == IF Completes(v, c, S) THEN Only(c, "completed")
                    ELSE IF r.on = c THEN Only(c, "active") ELSE <<>>
  <2>8. Parts(ResolveWrites(v, r.on, c, r.arg), C, [m \in S |-> "resolved"],
              Only(r.on, "resolved"), share, <<>>, Split(Sum(Amount, S), Sum(share, S)))
    BY ResolveParts DEF S, share
  <2>9. \A d \in DOMAIN C : C[d] \in ContractStatus
    <3>1. /\ DOMAIN Only(c, "completed") = {c} /\ Only(c, "completed")[c] = "completed"
          /\ DOMAIN Only(c, "active") = {c} /\ Only(c, "active")[c] = "active"
      BY OnlyFacts
    <3>2. QED
      BY <1>2, <3>1 DEF ContractStatus
  <2> HIDE DEF C
  <2>10. \A t \in DOMAIN Only(r.on, "resolved") : Only(r.on, "resolved")[t] \in DisputeStatus
    <3>1. DOMAIN Only(r.on, "resolved") = {r.on} /\ Only(r.on, "resolved")[r.on] = "resolved"
      BY OnlyFacts
    <3>2. QED
      BY <3>1 DEF DisputeStatus
  <2>11. \A m \in S : share[m] \in Nat
    BY <2>3
  <2>12. DOMAIN share = S
    BY <2>3
  <2>13. QED
    BY <1>2, <2>1, <2>7, <2>8, <2>9, <2>10, <2>11, <2>12 DEF Parts, Typed, MilestoneStatus
<1>10. CASE r.type = "payout"
  <2>1. WritesOf(s) = PayoutWrites(v, r.on)
    BY <1>0, <1>10 DEF WritesOf, v
  <2>2. r.on \in Milestones /\ Amount[r.on] \in Nat
    BY <1>10, RequestFacts, MilestonesAssumption
  <2>3. Owed(v, r.on) \in Nat
    BY <2>2 DEF Owed, TypeOK
  <2>4. PICK row : row = [status |-> "pending", amount |-> Owed(v, r.on)]
    OBVIOUS
  <2>5. row \in [status : PayoutStatus, amount : Nat]
    BY <2>3, <2>4 DEF PayoutStatus
  <2>6. DOMAIN Only(r.on, row) = {r.on} /\ Only(r.on, row)[r.on] = row
    BY OnlyFacts
  <2>9. Parts(PayoutWrites(v, r.on), <<>>, <<>>, <<>>, <<>>, Only(r.on, row),
              [a \in Accounts |-> 0])
    BY <2>4, PayoutParts
  <2>7. Typed(PayoutWrites(v, r.on))
    BY <1>2, <2>5, <2>6, <2>9 DEF Parts, Typed
  <2>8. QED
    BY <2>1, <2>7
<1>11. CASE r.type = "sent"
  <2>1. WritesOf(s) = SentWrites(r.on)
    BY <1>0, <1>11 DEF WritesOf
  <2>2. r.on \in Milestones /\ payout[r.on].amount \in Nat
    BY <1>11, RequestFacts DEF TypeOK
  <2>9. payout[r.on].amount \in Int
    BY <2>2
  <2>10. "freelancer" \in Accounts /\ "payout" \in Accounts
    BY DEF Accounts
  <2>3. Moved("freelancer", "payout", payout[r.on].amount) \in [Accounts -> Int]
    BY <2>9, <2>10, MovedType
  <2>4. PICK row : row = [status |-> "sent", amount |-> payout[r.on].amount]
    OBVIOUS
  <2>5. row \in [status : PayoutStatus, amount : Nat]
    BY <2>2, <2>4 DEF PayoutStatus
  <2>6. DOMAIN Only(r.on, row) = {r.on} /\ Only(r.on, row)[r.on] = row
    BY OnlyFacts
  <2>7. Typed(SentWrites(r.on))
    BY <1>2, <2>3, <2>4, <2>5, <2>6, SentParts DEF Parts, Typed
  <2>8. QED
    BY <2>1, <2>7
<1>12. QED
  BY <1>1, <1>4, <1>5, <1>6, <1>7, <1>8, <1>9, <1>10, <1>11 DEF RequestTypes

-----------------------------------------------------------------------------
(***************************************************************************)
(* Every action keeps the types.                                           *)
(***************************************************************************)

LEMMA InitTypes == TxInit => TxTypeInv
<1> SUFFICES ASSUME TxInit PROVE TxTypeInv
  OBVIOUS
<1>1. TypeOK
  BY InitType DEF TxInit
<1>2. DOMAIN <<>> = {}
  OBVIOUS
<1>3. SlotTypes
  BY <1>2 DEF TxInit, SlotTypes, Active
<1>4. WritesTyped
  BY DEF TxInit, WritesTyped
<1>5. QED
  BY <1>1, <1>3, <1>4 DEF TxTypeInv

LEMMA CreateTypes ==
  ASSUME TxTypeInv, NEW c \in Contracts, Create(c)
  PROVE  TxTypeInv'
<1>1. TypeOK'
  BY NextType DEF TxTypeInv, Create, Next
<1>2. UNCHANGED <<req, pc, locks, view, writes, loop>>
  BY DEF Create, session
<1>3. SlotTypes'
  BY <1>2 DEF TxTypeInv, SlotTypes, Active
<1>4. WritesTyped'
  BY <1>2 DEF TxTypeInv, WritesTyped, Typed, AllLocked
<1>5. QED
  BY <1>1, <1>3, <1>4 DEF TxTypeInv

\* Nothing but the data matters to the types of the data.
LEMMA SameData == TypeOK /\ UNCHANGED db => TypeOK'
BY DEF db, TypeOK

LEMMA BeginTypes ==
  ASSUME TxTypeInv, NEW s \in Slots, NEW r \in Requests, Begin(s, r)
  PROVE  TxTypeInv'
<1> USE DEF TxTypeInv
<1>1. /\ pc[s] = "idle" /\ locks[s] = 0
      /\ req' = [req EXCEPT ![s] = r] /\ pc' = [pc EXCEPT ![s] = "running"]
      /\ view' = [view EXCEPT ![s] = Load(<<>>, UnlockedReads(r))]
      /\ UNCHANGED <<locks, writes>> /\ UNCHANGED db
  BY DEF Begin, SlotTypes, Active
<1>2. loop' \in [Processes -> Slots \cup {None}]
  BY DEF Begin, SlotTypes
<1>3. DOMAIN view'[s] \subseteq Rows
  BY <1>1, LoadFirst, ReadsAreRows DEF SlotTypes
<1>4. Len(LockPlan(r)) >= 0
  BY PlanFacts
<1>5. SlotTypes'
  BY <1>1, <1>2, <1>3, <1>4 DEF SlotTypes, Active
<1>6. WritesTyped'
  BY <1>1 DEF WritesTyped, SlotTypes, AllLocked, Typed
<1>7. QED
  BY <1>1, <1>5, <1>6, SameData

LEMMA LockTypes ==
  ASSUME TxTypeInv, NEW s \in Slots, Lock(s)
  PROVE  TxTypeInv'
<1> USE DEF TxTypeInv
<1>1. pc[s] = "running" /\ ~AllLocked(s) /\ req[s] \in Requests /\ UNCHANGED db
  BY DEF Lock, SlotTypes, Active
<1>2. PICK r \in Requests : r = req[s]
  BY <1>1
<1>3. PICK i \in Nat : i = locks[s]
  BY DEF SlotTypes
<1>4. i < Len(LockPlan(r)) /\ Len(LockPlan(r)) \in {1, 2} /\ i + 1 \in 1 .. Len(LockPlan(r))
  BY <1>1, <1>2, <1>3, PlanFacts DEF SlotTypes, AllLocked, Active
<1>5. PICK row \in Rows : row = LockPlan(r)[i + 1]
  BY <1>4, PlanFacts
<1>6. /\ locks' = [locks EXCEPT ![s] = i + 1]
      /\ view' = [view EXCEPT ![s] = Load(view[s], ReadsWith(row, r))]
      /\ \/ pc' = [pc EXCEPT ![s] = "refused"] /\ LeaveLoop(s)
         \/ pc' = pc /\ loop' = loop
      /\ UNCHANGED <<req, writes>>
  BY <1>2, <1>3, <1>5 DEF Lock, SlotTypes
<1>7. loop' \in [Processes -> Slots \cup {None}]
  BY <1>6, LeaveLoopType DEF SlotTypes
<1>8. DOMAIN view'[s] \subseteq Rows
  <2>1. view'[s] = Load(view[s], ReadsWith(row, r))
    BY <1>6 DEF SlotTypes
  <2>2. DOMAIN view[s] \subseteq Rows /\ ReadsWith(row, r) \subseteq Rows
    BY ReadsAreRows DEF SlotTypes
  <2>3. DOMAIN Load(view[s], ReadsWith(row, r)) = DOMAIN view[s] \cup ReadsWith(row, r)
    BY LoadFacts
  <2>4. QED
    BY <2>1, <2>2, <2>3
<1>9. /\ pc' \in [Slots -> {"idle", "running", "writing", "refused"}]
      /\ Active(s) /\ Active(s)' /\ pc'[s] # "writing"
      /\ \A t \in Slots \ {s} : pc'[t] = pc[t] /\ locks'[t] = locks[t] /\ view'[t] = view[t]
      /\ locks'[s] = i + 1 /\ i + 1 <= Len(LockPlan(r)) /\ i + 1 \in Nat
  <2>1. /\ pc' \in [Slots -> {"idle", "running", "writing", "refused"}]
        /\ pc'[s] \in {"running", "refused"}
        /\ \A t \in Slots \ {s} : pc'[t] = pc[t]
    BY <1>1, <1>6 DEF SlotTypes
  <2>2. Active(s) /\ Active(s)' /\ pc'[s] # "writing"
    BY <1>1, <2>1 DEF Active
  <2>3. \A t \in Slots \ {s} : locks'[t] = locks[t] /\ view'[t] = view[t]
    BY <1>6 DEF SlotTypes
  <2>4. locks'[s] = i + 1
    BY <1>6 DEF SlotTypes
  <2>5. i + 1 <= Len(LockPlan(r)) /\ i + 1 \in Nat
    BY <1>4
  <2>6. QED
    BY <2>1, <2>2, <2>3, <2>4, <2>5
<1>10. SlotTypes'
  BY <1>2, <1>6, <1>7, <1>8, <1>9 DEF SlotTypes, Active
<1>11. WritesTyped'
  BY <1>6, <1>9 DEF WritesTyped, AllLocked, Typed
<1>12. QED
  BY <1>1, <1>10, <1>11, SameData

LEMMA DecideTypes ==
  ASSUME TxTypeInv, NEW s \in Slots, Decide(s)
  PROVE  TxTypeInv'
<1> USE DEF TxTypeInv
<1>1. /\ pc[s] = "running" /\ AllLocked(s) /\ req[s] \in Requests
      /\ writes' = [writes EXCEPT ![s] = WritesOf(s)] /\ pc' = [pc EXCEPT ![s] = "writing"]
      /\ UNCHANGED <<req, locks, view, loop>> /\ UNCHANGED db
  BY DEF Decide, SlotTypes, Active
<1>2. SlotTypes'
  BY <1>1 DEF SlotTypes, Active
<1>3. PICK w : w = WritesOf(s)
  OBVIOUS
<1>4. Typed(w)
  BY <1>1, <1>3, WritesOfTyped
<1>5. WritesTyped'
  BY <1>1, <1>3, <1>4 DEF WritesTyped, SlotTypes, AllLocked, Typed
<1>6. QED
  BY <1>1, <1>2, <1>5, SameData

LEMMA RefuseTypes ==
  ASSUME TxTypeInv, NEW s \in Slots, Refuse(s)
  PROVE  TxTypeInv'
<1> USE DEF TxTypeInv
<1>1. /\ pc[s] = "running" /\ pc' = [pc EXCEPT ![s] = "refused"] /\ LeaveLoop(s)
      /\ UNCHANGED <<req, locks, view, writes>> /\ UNCHANGED db
  BY DEF Refuse
<1>2. SlotTypes'
  BY <1>1, LeaveLoopType DEF SlotTypes, Active
<1>3. WritesTyped'
  BY <1>1 DEF WritesTyped, SlotTypes, AllLocked, Typed
<1>4. QED
  BY <1>1, <1>2, <1>3, SameData

\* However sessions end that do not commit.
LEMMA EndTypes ==
  ASSUME TxTypeInv, NEW S, Close(S), loop' \in [Processes -> Slots \cup {None}]
  PROVE  SlotTypes' /\ WritesTyped'
<1> USE DEF TxTypeInv
<1>1. SlotTypes'
  BY CloseTypes
<1>2. \A s \in Slots \ S : /\ req'[s] = req[s] /\ pc'[s] = pc[s] /\ locks'[s] = locks[s]
                           /\ writes'[s] = writes[s]
  BY CloseTypes
<1>3. \A s \in Slots \cap S : pc'[s] = "idle"
  BY CloseTypes
<1>4. WritesTyped'
  BY <1>2, <1>3 DEF WritesTyped, AllLocked, Typed
<1>5. QED
  BY <1>1, <1>4

LEMMA AbortTypes ==
  ASSUME TxTypeInv, NEW S, Close(S), loop' \in [Processes -> Slots \cup {None}], UNCHANGED db
  PROVE  TxTypeInv'
BY EndTypes, SameData DEF TxTypeInv

LEMMA WrittenType ==
  ASSUME NEW S, NEW T, NEW table \in [S -> T], NEW rows,
         \A x \in DOMAIN rows : rows[x] \in T
  PROVE  /\ Written(rows, table) \in [S -> T]
         /\ \A x \in S : Written(rows, table)[x] = IF x \in DOMAIN rows THEN rows[x] ELSE table[x]
BY DEF Written

LEMMA CommitTypes ==
  ASSUME TxTypeInv, NEW s \in Slots, Commit(s)
  PROVE  TxTypeInv'
<1> USE DEF TxTypeInv
<1>1. pc[s] = "writing" /\ req[s] \in Requests /\ Typed(writes[s])
  BY DEF Commit, SlotTypes, WritesTyped, Active
<1>2. PICK w : w = writes[s]
  OBVIOUS
<1>3. PICK c \in Contracts : c = ContractOn(req[s])
  BY <1>1, RequestFacts
<1>4. Typed(w)
  BY <1>1, <1>2
<1>5. /\ contract' = Written(w.contract, contract)
      /\ milestone' = Written(w.milestone, milestone)
      /\ dispute' = Written(w.dispute, dispute)
      /\ ruling' = Written(w.ruling, ruling)
      /\ payout' = Written(w.payout, payout)
      /\ ledger' = [ledger EXCEPT ![c] = [a \in Accounts |-> ledger[c][a] + w.ledger[a]]]
      /\ LeaveLoop(s) /\ Close({s})
  BY <1>2, <1>3 DEF Commit
<1>6. contract' \in [Contracts -> ContractStatus] /\ milestone' \in [Milestones -> MilestoneStatus]
  BY <1>4, <1>5, WrittenType DEF TypeOK, Typed
<1>7. dispute' \in [Targets -> DisputeStatus] /\ ruling' \in [Milestones -> Nat]
  BY <1>4, <1>5, WrittenType DEF TypeOK, Typed
<1>8. payout' \in [Milestones -> [status : PayoutStatus, amount : Nat]]
  BY <1>4, <1>5, WrittenType DEF TypeOK, Typed
<1>9. [a \in Accounts |-> ledger[c][a] + w.ledger[a]] \in [Accounts -> Int]
  BY <1>4 DEF TypeOK, Typed
<1>10. ledger' \in [Contracts -> [Accounts -> Int]]
  BY <1>5, <1>9 DEF TypeOK
<1>11. TypeOK'
  BY <1>6, <1>7, <1>8, <1>10 DEF TypeOK
<1>12. SlotTypes' /\ WritesTyped'
  BY <1>5, EndTypes, LeaveLoopType DEF SlotTypes
<1>13. QED
  BY <1>11, <1>12

LEMMA NextTypes == TxTypeInv /\ [TxNext]_txvars => TxTypeInv'
<1> SUFFICES ASSUME TxTypeInv, [TxNext]_txvars PROVE TxTypeInv'
  OBVIOUS
<1>1. ASSUME NEW c \in Contracts, Create(c) PROVE TxTypeInv'
  BY <1>1, CreateTypes
<1>2. ASSUME NEW s \in Slots, NEW r \in Requests, Begin(s, r) PROVE TxTypeInv'
  BY <1>2, BeginTypes
<1>3. ASSUME NEW s \in Slots, Step(s) PROVE TxTypeInv'
  <2>1. CASE Lock(s)
    BY <2>1, LockTypes
  <2>2. CASE Decide(s)
    BY <2>2, DecideTypes
  <2>3. CASE Refuse(s)
    BY <2>3, RefuseTypes
  <2>4. CASE Cleanup(s)
    BY <2>4, AbortTypes DEF Cleanup, TxTypeInv, SlotTypes
  <2>5. CASE Commit(s)
    BY <2>5, CommitTypes
  <2>6. QED
    BY <1>3, <2>1, <2>2, <2>3, <2>4, <2>5 DEF Step
<1>4. ASSUME NEW s \in Slots, DeadlockAbort(s) PROVE TxTypeInv'
  BY <1>4, AbortTypes, LeaveLoopType DEF DeadlockAbort, TxTypeInv, SlotTypes
<1>5. ASSUME NEW p \in Processes, Crash(p) PROVE TxTypeInv'
  <2>1. loop' \in [Processes -> Slots \cup {None}]
    BY <1>5 DEF Crash, TxTypeInv, SlotTypes
  <2>2. QED
    BY <1>5, <2>1, AbortTypes DEF Crash
<1>6. CASE UNCHANGED txvars
  <2>1. UNCHANGED db /\ UNCHANGED <<req, pc, locks, view, writes, loop>>
    BY <1>6 DEF txvars, session
  <2>2. SlotTypes' /\ WritesTyped'
    BY <2>1 DEF TxTypeInv, SlotTypes, WritesTyped, Active, AllLocked, Typed
  <2>3. QED
    BY <2>1, <2>2, SameData DEF TxTypeInv
<1>7. QED
  BY <1>1, <1>2, <1>3, <1>4, <1>5, <1>6 DEF TxNext

LEMMA TxTypes == TxSpec => []TxTypeInv
BY InitTypes, NextTypes, PTL DEF TxSpec

(***************************************************************************)
(* Every request is at a step of its service function, with no more locks  *)
(* than its plan has and only existing kinds of rows in its session, and   *)
(* every commit leaves well-typed rows.                                    *)
(***************************************************************************)
THEOREM TxTypeCorrect == TxSpec => []TxTypeOK
<1>1. TxTypeInv => TxTypeOK
  <2> SUFFICES ASSUME TxTypeInv PROVE TxTypeOK
    OBVIOUS
  <2> USE DEF TxTypeInv
  <2>1. ASSUME NEW s \in Slots, Active(s)
        PROVE  req[s] \in Requests /\ locks[s] \in 0 .. Len(LockPlan(req[s]))
    <3>1. req[s] \in Requests /\ locks[s] <= Len(LockPlan(req[s])) /\ locks[s] \in Nat
      BY <2>1 DEF SlotTypes
    <3>2. Len(LockPlan(req[s])) \in {1, 2}
      BY <3>1, PlanFacts
    <3>3. QED
      BY <3>1, <3>2
  <2>2. QED
    BY <2>1 DEF TxTypeOK, SlotTypes
<1>2. QED
  BY <1>1, TxTypes, PTL

-----------------------------------------------------------------------------
(***************************************************************************)
(* Locks exclude each other, and no writer touches a milestone of another  *)
(* contract than the one it has locked.                                    *)
(***************************************************************************)

Exclusive == \A s, t \in Slots : s # t => Held(s) \cap Held(t) = {}

Scoped(w, c) == DOMAIN w.milestone \cup DOMAIN w.payout \subseteq MilestonesOf(c)

WritesScoped == \A s \in Slots : pc[s] = "writing" => Scoped(writes[s], ContractOn(req[s]))

LockInv == TxTypeInv /\ Exclusive /\ WritesScoped

LEMMA NothingScoped ==
  ASSUME NEW c
  PROVE  Scoped(Nothing, c)
<1>1. DOMAIN <<>> = {}
  OBVIOUS
<1>2. QED
  BY <1>1, NothingParts DEF Parts, Scoped

LEMMA WritesOfScoped ==
  ASSUME NEW s \in Slots, req[s] \in Requests
  PROVE  Scoped(WritesOf(s), ContractOn(req[s]))
<1>0. PICK r \in Requests : r = req[s]
  OBVIOUS
<1> DEFINE c == ContractOn(r)
           v == view[s]
<1>1. /\ c \in Contracts /\ r.type \in RequestTypes
      /\ r.on \in Milestones => r.on \in MilestonesOf(c)
      /\ r.type \in {"submit", "approve", "payout", "sent"} => r.on \in Milestones
      /\ r.on \in Targets /\ (r.on \in Contracts => c = r.on)
  BY RequestFacts DEF MilestonesOf
<1>2. DOMAIN <<>> = {}
  OBVIOUS
<1> HIDE DEF c, v
<1>3. ASSUME NEW amount PROVE Scoped(FundWrites(c, amount), c)
  BY <1>2, FundParts DEF Parts, Scoped
<1>4. CASE r.type = "fund"
  BY <1>0, <1>3, <1>4 DEF WritesOf, c
<1>5. CASE r.type = "webhook"
  <2>1. WritesOf(s) = WebhookWrites(v, c, r.arg)
    BY <1>0, <1>5 DEF WritesOf, c, v
  <2>2. QED
    BY <1>0, <1>3, <2>1, NothingScoped DEF WebhookWrites, c
<1>6. CASE r.type = "submit"
  <2>1. WritesOf(s) = SubmitWrites(r.on)
    BY <1>0, <1>6 DEF WritesOf
  <2>2. DOMAIN Only(r.on, "submitted") = {r.on}
    BY OnlyFacts
  <2>3. Scoped(SubmitWrites(r.on), c)
    BY <1>1, <1>2, <1>6, <2>2, SubmitParts DEF Parts, Scoped
  <2>4. QED
    BY <1>0, <2>1, <2>3 DEF c
<1>7. CASE r.type = "approve"
  <2>1. WritesOf(s) = ApproveWrites(v, r.on)
    BY <1>0, <1>7 DEF WritesOf, v
  <2>2. DOMAIN Only(r.on, "approved") = {r.on}
    BY OnlyFacts
  <2>5. r.on \in MilestonesOf(c)
    BY <1>1, <1>7
  <2>6. /\ ApproveWrites(v, r.on).milestone = Only(r.on, "approved")
        /\ ApproveWrites(v, r.on).payout = <<>>
    BY ApproveParts DEF Parts
  <2>3. Scoped(ApproveWrites(v, r.on), c)
    BY <1>2, <2>2, <2>5, <2>6 DEF Scoped
  <2>4. QED
    BY <1>0, <2>1, <2>3 DEF c
<1>8. CASE r.type = "dispute"
  <2>1. WritesOf(s) = DisputeWrites(r.on)
    BY <1>0, <1>8 DEF WritesOf
  <2>2. DOMAIN Only(r.on, "disputed") = {r.on}
    BY OnlyFacts
  <2>3. Scoped(DisputeWrites(r.on), c)
    BY <1>1, <1>2, <2>2, DisputeParts DEF Parts, Scoped
  <2>4. QED
    BY <1>0, <2>1, <2>3 DEF c
<1>9. CASE r.type = "resolve"
  <2>1. WritesOf(s) = ResolveWrites(v, r.on, c, r.arg)
    BY <1>0, <1>9 DEF WritesOf, c, v
  <2> DEFINE S == Ruled(v, r.on)
             share == [m \in S |-> FreelancerShare(m, r.arg)]
  <2>2. S \subseteq MilestonesOf(c)
    <3>1. CASE r.on \in Milestones
      BY <1>1, <3>1 DEF Ruled
    <3>2. CASE r.on \notin Milestones
      <4>1. S \subseteq MilestonesOf(r.on)
        BY <3>2 DEF Ruled
      <4>2. QED
        BY <1>1, <3>2, <4>1 DEF Targets
    <3>3. QED
      BY <3>1, <3>2
  <2>6. Parts(ResolveWrites(v, r.on, c, r.arg),
              IF Completes(v, c, S) THEN Only(c, "completed")
                ELSE IF r.on = c THEN Only(c, "active") ELSE <<>>,
              [m \in S |-> "resolved"], Only(r.on, "resolved"), share, <<>>,
              Split(Sum(Amount, S), Sum(share, S)))
    BY ResolveParts DEF S, share
  <2>3. /\ ResolveWrites(v, r.on, c, r.arg).milestone = [m \in S |-> "resolved"]
        /\ ResolveWrites(v, r.on, c, r.arg).payout = <<>>
    BY <2>6 DEF Parts
  <2> HIDE DEF S
  <2>4. Scoped(ResolveWrites(v, r.on, c, r.arg), c)
    BY <1>2, <2>2, <2>3 DEF Scoped
  <2>5. QED
    BY <1>0, <2>1, <2>4 DEF c
<1>10. CASE r.type = "payout"
  <2>1. WritesOf(s) = PayoutWrites(v, r.on)
    BY <1>0, <1>10 DEF WritesOf, v
  <2>2. PICK row : row = [status |-> "pending", amount |-> Owed(v, r.on)]
    OBVIOUS
  <2>3. DOMAIN Only(r.on, row) = {r.on}
    BY OnlyFacts
  <2>4. PayoutWrites(v, r.on).milestone = <<>> /\ PayoutWrites(v, r.on).payout = Only(r.on, row)
    BY <2>2, PayoutParts DEF Parts
  <2>5. Scoped(PayoutWrites(v, r.on), c)
    BY <1>1, <1>2, <1>10, <2>3, <2>4 DEF Scoped
  <2>6. QED
    BY <1>0, <2>1, <2>5 DEF c
<1>11. CASE r.type = "sent"
  <2>1. WritesOf(s) = SentWrites(r.on)
    BY <1>0, <1>11 DEF WritesOf
  <2>2. PICK row : row = [status |-> "sent", amount |-> payout[r.on].amount]
    OBVIOUS
  <2>3. DOMAIN Only(r.on, row) = {r.on}
    BY OnlyFacts
  <2>4. SentWrites(r.on).milestone = <<>> /\ SentWrites(r.on).payout = Only(r.on, row)
    BY <2>2, SentParts DEF Parts
  <2>5. Scoped(SentWrites(r.on), c)
    BY <1>1, <1>2, <1>11, <2>3, <2>4 DEF Scoped
  <2>6. QED
    BY <1>0, <2>1, <2>5 DEF c
<1>12. QED
  BY <1>1, <1>4, <1>5, <1>6, <1>7, <1>8, <1>9, <1>10, <1>11 DEF RequestTypes

\* The locks of a request, by how far it has come.
LEMMA HeldFacts ==
  ASSUME SlotTypes, NEW s \in Slots
  PROVE  /\ ~Active(s) => Held(s) = {}
         /\ locks[s] = 0 => Held(s) = {}
         /\ \A row \in Held(s) : \E i \in 1 .. locks[s] : row = LockPlan(req[s])[i]
         /\ \A i \in 1 .. locks[s] : LockPlan(req[s])[i] \in Held(s)
         /\ Active(s) /\ AllLocked(s) => ContractRow(ContractOn(req[s])) \in Held(s)
<1>1. Active(s) /\ AllLocked(s) => locks[s] \in 1 .. locks[s]
                                  /\ LockPlan(req[s])[locks[s]] = ContractRow(ContractOn(req[s]))
  <2>1. SUFFICES ASSUME Active(s), AllLocked(s)
                 PROVE  /\ locks[s] \in 1 .. locks[s]
                        /\ LockPlan(req[s])[locks[s]] = ContractRow(ContractOn(req[s]))
    OBVIOUS
  <2>2. PICK r \in Requests : r = req[s]
    BY <2>1 DEF SlotTypes
  <2>3. locks[s] = Len(LockPlan(r)) /\ Len(LockPlan(r)) \in {1, 2}
    BY <2>1, <2>2, PlanFacts DEF AllLocked
  <2>4. LockPlan(r)[locks[s]] = ContractRow(ContractOn(r))
    BY <2>3, PlanFacts
  <2>5. QED
    BY <2>2, <2>3, <2>4
<1>2. QED
  BY <1>1 DEF SlotTypes, Held

\* Locks that are given up, or that stay.
LEMMA FewerLocks ==
  ASSUME SlotTypes, SlotTypes', Exclusive,
         \A s \in Slots : \/ req'[s] = req[s] /\ locks'[s] = locks[s]
                          \/ locks'[s] = 0
  PROVE  Exclusive'
<1>1. \A s \in Slots : Held(s)' = Held(s) \/ Held(s)' = {}
  BY DEF Held
<1>2. QED
  BY <1>1 DEF Exclusive

LEMMA LockExclusive ==
  ASSUME LockInv, NEW s \in Slots, Lock(s)
  PROVE  Exclusive'
<1> USE DEF LockInv, TxTypeInv
<1>1. SlotTypes' /\ req' = req
  BY LockTypes DEF Lock
<1>2. PICK i \in Nat : i = locks[s]
  BY DEF SlotTypes
<1>3. PICK row : row = LockPlan(req[s])[i + 1]
  OBVIOUS
<1>4. /\ pc[s] = "running" /\ ~AllLocked(s) /\ BlockedBy(s) = {}
      /\ locks' = [locks EXCEPT ![s] = i + 1]
  BY <1>2 DEF Lock
<1>5. Wanted(s) = {row}
  BY <1>2, <1>3, <1>4 DEF Wanted
<1>6. \A t \in Slots \ {s} : row \notin Held(t)
  <2>1. SUFFICES ASSUME NEW t \in Slots \ {s}, row \in Held(t) PROVE FALSE
    OBVIOUS
  <2>2. Active(t)
    BY <2>1, HeldFacts
  <2>3. QED
    BY <1>4, <1>5, <2>1, <2>2 DEF BlockedBy
<1>7. Held(s)' = Held(s) \cup {row}
  <2>1. locks'[s] = i + 1
    BY <1>4 DEF SlotTypes
  <2>2. 1 .. (i + 1) = (1 .. i) \cup {i + 1}
    OBVIOUS
  <2>3. QED
    BY <1>1, <1>2, <1>3, <2>1, <2>2 DEF Held
<1>8. \A t \in Slots \ {s} : Held(t)' = Held(t)
  BY <1>1, <1>4 DEF Held, SlotTypes
<1>9. QED
  BY <1>6, <1>7, <1>8 DEF Exclusive

LEMMA NextLocks == LockInv /\ [TxNext]_txvars => LockInv'
<1> SUFFICES ASSUME LockInv, [TxNext]_txvars PROVE LockInv'
  OBVIOUS
<1> USE DEF LockInv
<1>0. TxTypeInv' /\ SlotTypes' /\ SlotTypes
  BY NextTypes DEF TxTypeInv
<1>1. ASSUME UNCHANGED <<req, pc, locks, writes>> PROVE Exclusive' /\ WritesScoped'
  BY <1>0, <1>1, FewerLocks DEF WritesScoped, Scoped
<1>2. ASSUME NEW S, Close(S), loop' \in [Processes -> Slots \cup {None}]
      PROVE  Exclusive' /\ WritesScoped'
  <2>1. /\ \A s \in Slots \ S : /\ req'[s] = req[s] /\ pc'[s] = pc[s] /\ locks'[s] = locks[s]
                                /\ writes'[s] = writes[s]
        /\ \A s \in Slots \cap S : pc'[s] = "idle" /\ locks'[s] = 0
    BY <1>0, <1>2, CloseTypes
  <2>2. Exclusive'
    BY <1>0, <2>1, FewerLocks
  <2>3. WritesScoped'
    BY <2>1 DEF WritesScoped, Scoped
  <2>4. QED
    BY <2>2, <2>3
<1>3. ASSUME NEW s \in Slots, NEW r \in Requests, Begin(s, r)
      PROVE  Exclusive' /\ WritesScoped'
  <2>1. /\ locks'[s] = 0 /\ pc'[s] # "writing"
        /\ \A t \in Slots \ {s} : /\ req'[t] = req[t] /\ pc'[t] = pc[t] /\ locks'[t] = locks[t]
                                  /\ writes'[t] = writes[t]
    BY <1>0, <1>3 DEF Begin, SlotTypes, Active
  <2>2. QED
    BY <1>0, <2>1, FewerLocks DEF WritesScoped, Scoped
<1>4. ASSUME NEW s \in Slots, Lock(s) PROVE Exclusive' /\ WritesScoped'
  <2>1. /\ pc'[s] # "writing" /\ \A t \in Slots \ {s} : pc'[t] = pc[t]
        /\ UNCHANGED <<req, writes>>
    BY <1>0, <1>4 DEF Lock, SlotTypes
  <2>2. QED
    BY <1>4, <2>1, LockExclusive DEF WritesScoped, Scoped
<1>5. ASSUME NEW s \in Slots, Decide(s) PROVE Exclusive' /\ WritesScoped'
  <2>1. /\ UNCHANGED <<req, locks>> /\ req[s] \in Requests /\ writes'[s] = WritesOf(s)
        /\ \A t \in Slots \ {s} : pc'[t] = pc[t] /\ writes'[t] = writes[t]
    BY <1>0, <1>5 DEF Decide, SlotTypes, Active
  <2>2. PICK w : w = WritesOf(s)
    OBVIOUS
  <2>3. Scoped(w, ContractOn(req[s]))
    BY <2>1, <2>2, WritesOfScoped
  <2>4. WritesScoped'
    BY <2>1, <2>2, <2>3 DEF WritesScoped, Scoped
  <2>5. QED
    BY <1>0, <2>1, <2>4, FewerLocks
<1>6. ASSUME NEW s \in Slots, Refuse(s) PROVE Exclusive' /\ WritesScoped'
  <2>1. /\ UNCHANGED <<req, locks, writes>> /\ pc'[s] # "writing"
        /\ \A t \in Slots \ {s} : pc'[t] = pc[t]
    BY <1>0, <1>6 DEF Refuse, SlotTypes
  <2>2. QED
    BY <1>0, <2>1, FewerLocks DEF WritesScoped, Scoped
<1>7. ASSUME NEW s \in Slots, Cleanup(s) \/ Commit(s) \/ DeadlockAbort(s)
      PROVE  Exclusive' /\ WritesScoped'
  <2>1. Close({s}) /\ loop' \in [Processes -> Slots \cup {None}]
    BY <1>0, <1>7 DEF Cleanup, Commit, DeadlockAbort, SlotTypes
  <2>2. QED
    BY <1>2, <2>1
<1>8. ASSUME NEW p \in Processes, Crash(p) PROVE Exclusive' /\ WritesScoped'
  <2>1. loop' \in [Processes -> Slots \cup {None}]
    BY <1>0 DEF SlotTypes
  <2>2. QED
    BY <1>2, <1>8, <2>1 DEF Crash
<1>9. CASE UNCHANGED txvars
  BY <1>0, <1>1, <1>9 DEF txvars, session
<1>10. ASSUME NEW c \in Contracts, Create(c) PROVE Exclusive' /\ WritesScoped'
  BY <1>0, <1>1, <1>10 DEF Create, session
<1>11. Exclusive' /\ WritesScoped'
  BY <1>3, <1>4, <1>5, <1>6, <1>7, <1>8, <1>9, <1>10 DEF TxNext, Step
<1>12. QED
  BY <1>0, <1>11

LEMMA InitLocks == TxInit => LockInv
<1> SUFFICES ASSUME TxInit PROVE LockInv
  OBVIOUS
<1>1. TxTypeInv
  BY InitTypes
<1>2. Exclusive
  <2>1. \A s \in Slots : Held(s) = {}
    BY <1>1, HeldFacts DEF TxInit, TxTypeInv, SlotTypes
  <2>2. QED
    BY <2>1 DEF Exclusive
<1>3. WritesScoped
  BY DEF TxInit, WritesScoped
<1>4. QED
  BY <1>1, <1>2, <1>3 DEF LockInv

LEMMA LocksCorrect == TxSpec => []LockInv
BY InitLocks, NextLocks, PTL DEF TxSpec

-----------------------------------------------------------------------------
(***************************************************************************)
(* Lock cycles.                                                            *)
(***************************************************************************)

\* Who can hold a row.
LEMMA HolderFacts ==
  ASSUME SlotTypes, NEW s \in Slots, NEW x
  PROVE  /\ ContractRow(x) \in Held(s) => AllLocked(s) /\ ContractOn(req[s]) = x
         /\ MilestoneRow(x) \in Held(s) => req[s].type = "approve" /\ req[s].on = x
         /\ DisputeRow(x) \in Held(s) => req[s].type = "resolve" /\ req[s].on = x
         /\ PayoutRow(x) \in Held(s) => req[s].type = "sent" /\ req[s].on = x
<1>1. CASE ~Active(s)
  BY <1>1, HeldFacts
<1>2. CASE Active(s)
  <2>1. PICK r \in Requests : r = req[s]
    BY <1>2 DEF SlotTypes
  <2>2. PICK n \in Nat : n = locks[s] /\ n <= Len(LockPlan(r))
    BY <1>2, <2>1 DEF SlotTypes
  <2>3. /\ r.type \in RequestTypes
        /\ Held(s) = {LockPlan(r)[i] : i \in 1 .. n}
        /\ AllLocked(s) <=> n = Len(LockPlan(r))
    BY <2>1, <2>2, RequestFacts DEF Held, AllLocked
  <2>4. CASE r.type \in {"fund", "webhook", "submit", "dispute", "payout"}
    <3>1. Len(LockPlan(r)) = 1 /\ LockPlan(r)[1] = ContractRow(ContractOn(r))
      BY <2>4, PlanFacts
    <3>2. \A row \in Held(s) : n = 1 /\ row = ContractRow(ContractOn(r))
      BY <2>2, <2>3, <3>1
    <3>3. QED
      BY <2>1, <2>3, <3>1, <3>2, RowsDiffer
  <2>5. CASE r.type = "approve"
    <3>1. /\ Len(LockPlan(r)) = 2 /\ LockPlan(r)[1] = MilestoneRow(r.on)
          /\ LockPlan(r)[2] = ContractRow(ContractOn(r))
      BY <2>5, PlanFacts
    <3>2. \A row \in Held(s) :
            row = MilestoneRow(r.on) \/ (n = 2 /\ row = ContractRow(ContractOn(r)))
      BY <2>2, <2>3, <3>1
    <3>3. QED
      BY <2>1, <2>3, <2>5, <3>1, <3>2, RowsDiffer
  <2>6. CASE r.type = "resolve"
    <3>1. /\ Len(LockPlan(r)) = 2 /\ LockPlan(r)[1] = DisputeRow(r.on)
          /\ LockPlan(r)[2] = ContractRow(ContractOn(r))
      BY <2>6, PlanFacts
    <3>2. \A row \in Held(s) :
            row = DisputeRow(r.on) \/ (n = 2 /\ row = ContractRow(ContractOn(r)))
      BY <2>2, <2>3, <3>1
    <3>3. QED
      BY <2>1, <2>3, <2>6, <3>1, <3>2, RowsDiffer
  <2>7. CASE r.type = "sent"
    <3>1. /\ Len(LockPlan(r)) = 2 /\ LockPlan(r)[1] = PayoutRow(r.on)
          /\ LockPlan(r)[2] = ContractRow(ContractOn(r))
      BY <2>7, PlanFacts
    <3>2. \A row \in Held(s) :
            row = PayoutRow(r.on) \/ (n = 2 /\ row = ContractRow(ContractOn(r)))
      BY <2>2, <2>3, <3>1
    <3>3. QED
      BY <2>1, <2>3, <2>7, <3>1, <3>2, RowsDiffer
  <2>8. QED
    BY <2>3, <2>4, <2>5, <2>6, <2>7 DEF RequestTypes
<1>3. QED
  BY <1>1, <1>2

\* What a blocked request waits for: a writer holds all its locks and waits for
\* a milestone of its contract; the others wait for the next row of their plan.
LEMMA WaitFacts ==
  ASSUME LockInv, NEW s \in Slots, Active(s), NEW row \in Wanted(s)
  PROVE  \/ /\ AllLocked(s)
            /\ \E m \in MilestonesOf(ContractOn(req[s])) : row = MilestoneRow(m)
         \/ /\ locks[s] = 0 /\ ~AllLocked(s)
            /\ row \in {ContractRow(ContractOn(req[s])), MilestoneRow(req[s].on),
                        DisputeRow(req[s].on), PayoutRow(req[s].on)}
         \/ /\ locks[s] = 1 /\ ~AllLocked(s)
            /\ row = ContractRow(ContractOn(req[s]))
<1> USE DEF LockInv, TxTypeInv
<1>1. PICK r \in Requests : r = req[s]
  BY DEF SlotTypes
<1>2. CASE pc[s] = "writing"
  <2>1. AllLocked(s) /\ Scoped(writes[s], ContractOn(r))
    BY <1>1, <1>2 DEF WritesTyped, WritesScoped
  <2>2. row \in Touched(s)
    BY <1>2 DEF Wanted
  <2>3. \E m \in DOMAIN writes[s].milestone \cup DOMAIN writes[s].payout : row = MilestoneRow(m)
    BY <2>2 DEF Touched
  <2>4. QED
    BY <1>1, <2>1, <2>3 DEF Scoped
<1>3. CASE pc[s] = "running" /\ ~AllLocked(s)
  <2>1. PICK n \in Nat : n = locks[s] /\ n <= Len(LockPlan(r)) /\ n # Len(LockPlan(r))
    BY <1>1, <1>3 DEF SlotTypes, AllLocked
  <2>2. row = LockPlan(r)[n + 1]
    BY <1>1, <1>3, <2>1 DEF Wanted
  <2>3. r.type \in RequestTypes
    BY RequestFacts
  <2>4. /\ Len(LockPlan(r)) \in {1, 2}
        /\ LockPlan(r)[1] \in {ContractRow(ContractOn(r)), MilestoneRow(r.on),
                               DisputeRow(r.on), PayoutRow(r.on)}
        /\ Len(LockPlan(r)) = 2 => LockPlan(r)[2] = ContractRow(ContractOn(r))
    <3>1. CASE r.type \in {"fund", "webhook", "submit", "dispute", "payout"}
      BY <3>1, PlanFacts
    <3>2. CASE r.type \in {"approve", "resolve", "sent"}
      BY <3>2, PlanFacts
    <3>3. QED
      BY <2>3, <3>1, <3>2 DEF RequestTypes
  <2>5. n \in {0, 1} /\ (n = 1 => Len(LockPlan(r)) = 2)
    <3>1. PICK k : k = Len(LockPlan(r))
      OBVIOUS
    <3>2. k \in {1, 2} /\ n <= k /\ n # k
      BY <2>1, <2>4, <3>1
    <3>3. n \in {0, 1} /\ (n = 1 => k = 2)
      BY <3>2
    <3>4. QED
      BY <3>1, <3>3
  <2>6. QED
    BY <1>1, <1>3, <2>1, <2>2, <2>4, <2>5
<1>4. QED
  BY <1>2, <1>3 DEF Wanted

(***************************************************************************)
(* A set of requests that wait for each other, with one in it that holds   *)
(* all its locks: that one waits for a milestone, which an approval has    *)
(* locked, and the approval cannot hold the contract as well.              *)
(***************************************************************************)
LEMMA LastLockWaitsForApproval ==
  ASSUME LockInv, NEW S, S \subseteq {t \in Slots : Active(t)}, Stuck(S),
         NEW s \in S, AllLocked(s)
  PROVE  \E t \in S : req[t].type = "approve" /\ locks[t] = 1
<1> USE DEF LockInv, TxTypeInv
<1>1. PICK u \in S : u # s /\ Wanted(s) \cap Held(u) # {}
  BY DEF Stuck, BlockedBy
<1>2. PICK row \in Wanted(s) : row \in Held(u)
  BY <1>1
<1>3. PICK m \in MilestonesOf(ContractOn(req[s])) : row = MilestoneRow(m)
  BY <1>2, WaitFacts
<1>4. req[u].type = "approve" /\ req[u].on = m /\ u \in Slots /\ s \in Slots
  BY <1>2, <1>3, HolderFacts
<1>5. locks[u] \in {1, 2}
  <2>1. PICK r \in Requests : r = req[u]
    BY <1>4 DEF SlotTypes
  <2>2. Len(LockPlan(r)) = 2
    BY <1>4, <2>1, PlanFacts
  <2>3. locks[u] \in Nat /\ locks[u] <= 2
    BY <1>4, <2>1, <2>2 DEF SlotTypes
  <2>4. locks[u] # 0
    BY <1>2, <1>4, HeldFacts
  <2>5. QED
    BY <2>3, <2>4
<1>6. CASE locks[u] = 2
  <2>1. PICK r \in Requests : r = req[u]
    BY <1>4 DEF SlotTypes
  <2>2. AllLocked(u)
    BY <1>4, <1>6, <2>1, PlanFacts DEF AllLocked
  <2>3. ContractRow(ContractOn(req[u])) \in Held(u)
    BY <1>4, <2>2, HeldFacts
  <2>4. ContractOn(req[u]) = ContractOn(req[s])
    <3>1. m \in Milestones /\ ContractOf[m] = ContractOn(req[s])
      BY <1>3 DEF MilestonesOf
    <3>2. QED
      BY <1>4, <2>1, <3>1, RequestFacts
  <2>5. ContractRow(ContractOn(req[s])) \in Held(s)
    BY <1>4, HeldFacts
  <2>6. QED
    BY <1>1, <1>4, <2>3, <2>4, <2>5 DEF Exclusive
<1>7. QED
  BY <1>4, <1>5, <1>6

LEMMA StuckNeedsApproval ==
  ASSUME LockInv, NEW S, S \subseteq {t \in Slots : Active(t)}, Stuck(S)
  PROVE  \E t \in S : req[t].type = "approve" /\ locks[t] = 1
<1> USE DEF LockInv, TxTypeInv
<1> SUFFICES ASSUME \A t \in S : ~(req[t].type = "approve" /\ locks[t] = 1)
             PROVE  FALSE
  OBVIOUS
<1>1. \A t \in S : t \in Slots /\ Active(t) /\ ~AllLocked(t)
  BY LastLockWaitsForApproval
<1>2. ASSUME NEW t \in S, ContractRow(ContractOn(req[t])) \in Wanted(t) PROVE FALSE
  <2>1. PICK u \in S : Wanted(t) \cap Held(u) # {}
    BY DEF Stuck, BlockedBy
  <2>2. PICK row \in Wanted(t) : row \in Held(u)
    BY <2>1
  <2>3. Wanted(t) = {row}
    BY <1>1, <2>2 DEF Wanted, WritesTyped
  <2>4. QED
    BY <1>1, <1>2, <2>2, <2>3, HolderFacts
<1>3. \A t \in S : locks[t] = 0
  <2>1. SUFFICES ASSUME NEW t \in S PROVE locks[t] = 0
    OBVIOUS
  <2>2. PICK row : row \in Wanted(t)
    BY DEF Stuck, BlockedBy
  <2>3. QED
    BY <1>1, <1>2, <2>2, WaitFacts
<1>4. PICK s \in S : BlockedBy(s) \cap S # {}
  BY DEF Stuck
<1>5. PICK u \in S : Wanted(s) \cap Held(u) # {}
  BY <1>4 DEF BlockedBy
<1>6. Held(u) = {}
  BY <1>1, <1>3, HeldFacts
<1>7. QED
  BY <1>5, <1>6

(***************************************************************************)
(* Every cycle of lock waits, of any length, has an approval in it that    *)
(* has locked its milestone and not yet the contract: it is the only       *)
(* request that holds a lock somebody wants who already has the contract.  *)
(***************************************************************************)
THEOREM CyclesHaveApproval == TxSpec => []CyclesNeedApproval
<1>1. LockInv => CyclesNeedApproval
  BY StuckNeedsApproval DEF CyclesNeedApproval, LockCycle
<1>2. QED
  BY <1>1, LocksCorrect, PTL

-----------------------------------------------------------------------------
(***************************************************************************)
(* Requests that do not overlap their rivals: what a request relies on     *)
(* until it commits.                                                       *)
(***************************************************************************)

\* The contract is there, and no rival is at work.
Existing(s) == contract[ContractOn(req[s])] # "absent"

NoRivals ==
  \A s, t \in Slots : s # t /\ Active(s) /\ Active(t) => ~Rivals(req[s], req[t])

(***************************************************************************)
(* What the identity map holds.  Of the milestones it can only hold the    *)
(* request's own; the contract is loaded when it is locked, but for the    *)
(* webhook and the ruling, which load it before.                           *)
(***************************************************************************)
Loaded(s) ==
  /\ Held(s) \cup UnlockedReads(req[s]) \subseteq DOMAIN view[s]
  /\ \A m \in Milestones : MilestoneRow(m) \in DOMAIN view[s] => m = req[s].on
  /\ ContractRow(ContractOn(req[s])) \in DOMAIN view[s] =>
       req[s].type \in {"webhook", "resolve"} \/ AllLocked(s)
  /\ req[s].type \in {"approve", "resolve", "sent"} /\ locks[s] = 0 => DOMAIN view[s] = {}

(***************************************************************************)
(* How far the identity map can be trusted.  A row that was loaded when it *)
(* was locked is current.  A milestone that submission or a payout request *)
(* saw without a lock, and the contract that the webhook saw, can have     *)
(* changed in ways that do not matter.                                     *)
(***************************************************************************)
Trusted(r, v, n) ==
  LET c == ContractOn(r) IN
  /\ r.type \in {"fund", "submit", "approve", "dispute", "payout"} /\ n = Len(LockPlan(r)) =>
       v[ContractRow(c)] = contract[c]
  /\ r.type = "approve" /\ n > 0 => v[MilestoneRow(r.on)] = milestone[r.on]
  /\ r.type = "resolve" /\ n > 0 => v[DisputeRow(r.on)] = "open" /\ dispute[r.on] = "open"
  /\ r.type = "sent" /\ n > 0 =>
       v[PayoutRow(r.on)] = "pending" /\ payout[r.on].status = "pending"
  /\ r.type = "submit" /\ v[MilestoneRow(r.on)] \in {"pending", "rejected"} =>
       milestone[r.on] = v[MilestoneRow(r.on)] \/ contract[c] = "completed"
  /\ r.type = "payout" /\ v[MilestoneRow(r.on)] \in Settled =>
       milestone[r.on] = v[MilestoneRow(r.on)]
  /\ r.type = "webhook" /\ v[ContractRow(c)] = "draft" => contract[c] = "draft"

(***************************************************************************)
(* What has been decided: the conditions of the service call hold of the   *)
(* data as it is now, and the writes are those that the call would make.   *)
(***************************************************************************)
NoEntries == [a \in Accounts |-> 0]

OthersSettled(c, S) == \A n \in MilestonesOf(c) \ S : milestone[n] \in Settled

FundDecided(c, amount, w) ==
  /\ contract[c] = "draft"
  /\ Parts(w, Only(c, "active"), <<>>, <<>>, <<>>, <<>>, Moved("client", "escrow", amount))

SubmitDecided(m, w) ==
  /\ contract[ContractOf[m]] = "active"
  /\ milestone[m] \in {"pending", "rejected"}
  /\ Parts(w, <<>>, Only(m, "submitted"), <<>>, <<>>, <<>>, NoEntries)

ApproveDecided(m, w) ==
  /\ contract[ContractOf[m]] = "active"
  /\ milestone[m] = "submitted"
  /\ ledger[ContractOf[m]]["escrow"] >= Amount[m]
  /\ Parts(w, IF OthersSettled(ContractOf[m], {m})
                THEN Only(ContractOf[m], "completed") ELSE <<>>,
           Only(m, "approved"), <<>>, <<>>, <<>>, Moved("escrow", "freelancer", Amount[m]))

DisputeDecided(t, c, w) ==
  /\ ~DisputeOpen(c)
  /\ IF t \in Milestones
       THEN /\ milestone[t] = "submitted"
            /\ Parts(w, <<>>, Only(t, "disputed"), Only(t, "open"), <<>>, <<>>, NoEntries)
       ELSE /\ contract[t] = "active"
            /\ Parts(w, Only(t, "disputed"), <<>>, Only(t, "open"), <<>>, <<>>, NoEntries)

RulingOn(t) ==
  IF t \in Milestones THEN {t} ELSE {m \in MilestonesOf(t) : milestone[m] \in Unsettled}

ShareOf(S, p) == [m \in S |-> FreelancerShare(m, p)]

ResolveDecided(t, c, p, S, w) ==
  /\ S = RulingOn(t)
  /\ dispute[t] = "open"
  /\ S # {}
  /\ ledger[c]["escrow"] >= Sum(Amount, S)
  /\ Parts(w, IF OthersSettled(c, S) THEN Only(c, "completed")
              ELSE IF t = c THEN Only(c, "active") ELSE <<>>,
           [m \in S |-> "resolved"], Only(t, "resolved"), ShareOf(S, p), <<>>,
           Split(Sum(Amount, S), Sum(ShareOf(S, p), S)))

PayoutDecided(m, c, w) ==
  /\ Payable(m) > 0
  /\ payout[m].status = "none"
  /\ ledger[c]["freelancer"] - PayoutSum(c, "pending") >= Payable(m)
  /\ Parts(w, <<>>, <<>>, <<>>, <<>>,
           Only(m, [status |-> "pending", amount |-> Payable(m)]), NoEntries)

SentDecided(m, c, w) ==
  /\ payout[m].status = "pending"
  /\ ledger[c]["freelancer"] >= payout[m].amount
  /\ Parts(w, <<>>, <<>>, <<>>, <<>>,
           Only(m, [status |-> "sent", amount |-> payout[m].amount]),
           Moved("freelancer", "payout", payout[m].amount))

NothingDecided(w) == Parts(w, <<>>, <<>>, <<>>, <<>>, <<>>, NoEntries)

Decided(r, w) ==
  LET c == ContractOn(r) IN
  /\ r.type = "fund" => Total(c) \in 1 .. MaxInt /\ FundDecided(c, Total(c), w)
  /\ r.type = "webhook" => FundDecided(c, r.arg, w) \/ NothingDecided(w)
  /\ r.type = "submit" => SubmitDecided(r.on, w)
  /\ r.type = "approve" => ApproveDecided(r.on, w)
  /\ r.type = "dispute" => DisputeDecided(r.on, c, w)
  /\ r.type = "resolve" => ResolveDecided(r.on, c, r.arg, RulingOn(r.on), w)
  /\ r.type = "payout" => PayoutDecided(r.on, c, w)
  /\ r.type = "sent" => SentDecided(r.on, c, w)

Sound(s) ==
  /\ Active(s) => Existing(s) /\ Loaded(s)
  /\ pc[s] \in {"running", "writing"} => Trusted(req[s], view[s], locks[s])
  /\ pc[s] = "writing" => Decided(req[s], writes[s])

TxInv == LockInv /\ StatusInv /\ NoRivals /\ \A s \in Slots : Sound(s)

-----------------------------------------------------------------------------
(***************************************************************************)
(* A commit whose conditions still hold is the service call.               *)
(***************************************************************************)

\* The writes w are committed for contract c.
Applied(w, c) ==
  /\ contract' = Written(w.contract, contract)
  /\ milestone' = Written(w.milestone, milestone)
  /\ dispute' = Written(w.dispute, dispute)
  /\ ruling' = Written(w.ruling, ruling)
  /\ payout' = Written(w.payout, payout)
  /\ ledger' = [ledger EXCEPT ![c] = [a \in Accounts |-> ledger[c][a] + w.ledger[a]]]

LEMMA WrittenNone ==
  ASSUME NEW S, NEW T, NEW table \in [S -> T]
  PROVE  Written(<<>>, table) = table
<1>1. DOMAIN <<>> = {}
  OBVIOUS
<1>2. QED
  BY <1>1 DEF Written

LEMMA WrittenOne ==
  ASSUME NEW S, NEW T, NEW table \in [S -> T], NEW x \in S, NEW y
  PROVE  Written(Only(x, y), table) = [table EXCEPT ![x] = y]
<1>1. DOMAIN Only(x, y) = {x} /\ Only(x, y)[x] = y /\ DOMAIN table = S
  BY OnlyFacts
<1>2. Written(Only(x, y), table) = [z \in S |-> IF z \in {x} THEN Only(x, y)[z] ELSE table[z]]
  BY <1>1 DEF Written
<1>3. \A z \in S : (IF z \in {x} THEN Only(x, y)[z] ELSE table[z]) = IF z = x THEN y ELSE table[z]
  BY <1>1
<1>4. [table EXCEPT ![x] = y] = [z \in S |-> IF z = x THEN y ELSE table[z]]
  OBVIOUS
<1>5. QED
  BY <1>2, <1>3, <1>4

\* The same for each table.
LEMMA TablesWritten ==
  ASSUME TypeOK, NEW y
  PROVE  /\ \A c \in Contracts : Written(Only(c, y), contract) = [contract EXCEPT ![c] = y]
         /\ \A m \in Milestones : Written(Only(m, y), milestone) = [milestone EXCEPT ![m] = y]
         /\ \A t \in Targets : Written(Only(t, y), dispute) = [dispute EXCEPT ![t] = y]
         /\ \A m \in Milestones : Written(Only(m, y), payout) = [payout EXCEPT ![m] = y]
         /\ Written(<<>>, contract) = contract
         /\ Written(<<>>, milestone) = milestone
         /\ Written(<<>>, dispute) = dispute
         /\ Written(<<>>, ruling) = ruling
         /\ Written(<<>>, payout) = payout
<1>1. \A c \in Contracts : Written(Only(c, y), contract) = [contract EXCEPT ![c] = y]
  <2>1. contract \in [Contracts -> ContractStatus]
    BY DEF TypeOK
  <2>2. QED
    BY <2>1, WrittenOne
<1>2. \A m \in Milestones : Written(Only(m, y), milestone) = [milestone EXCEPT ![m] = y]
  <2>1. milestone \in [Milestones -> MilestoneStatus]
    BY DEF TypeOK
  <2>2. QED
    BY <2>1, WrittenOne
<1>3. \A t \in Targets : Written(Only(t, y), dispute) = [dispute EXCEPT ![t] = y]
  <2>1. dispute \in [Targets -> DisputeStatus]
    BY DEF TypeOK
  <2>2. QED
    BY <2>1, WrittenOne
<1>4. \A m \in Milestones : Written(Only(m, y), payout) = [payout EXCEPT ![m] = y]
  <2>1. PICK T : T = [status : PayoutStatus, amount : Nat]
    OBVIOUS
  <2>2. payout \in [Milestones -> T]
    BY <2>1 DEF TypeOK
  <2>3. QED
    BY <2>2, WrittenOne
<1>5. /\ Written(<<>>, contract) = contract
      /\ Written(<<>>, milestone) = milestone
      /\ Written(<<>>, dispute) = dispute
      /\ Written(<<>>, ruling) = ruling
      /\ Written(<<>>, payout) = payout
  BY WrittenNone DEF TypeOK
<1>6. QED
  BY <1>1, <1>2, <1>3, <1>4, <1>5

LEMMA WrittenSome ==
  ASSUME NEW S, NEW T, NEW table \in [S -> T], NEW R, NEW f, f = [x \in R |-> f[x]]
  PROVE  Written(f, table) = [x \in S |-> IF x \in R THEN f[x] ELSE table[x]]
BY DEF Written

LEMMA NoTransfer ==
  ASSUME TypeOK, NEW c \in Contracts,
         ledger' = [ledger EXCEPT ![c] = [a \in Accounts |-> ledger[c][a] + NoEntries[a]]]
  PROVE  ledger' = ledger
<1>1. \A a \in Accounts : ledger[c][a] + NoEntries[a] = ledger[c][a]
  BY DEF TypeOK, NoEntries
<1>2. [a \in Accounts |-> ledger[c][a] + NoEntries[a]] = ledger[c]
  BY <1>1 DEF TypeOK
<1>3. QED
  BY <1>2 DEF TypeOK

LEMMA MovedTransfer ==
  ASSUME TypeOK, NEW c \in Contracts, NEW from \in Accounts, NEW to \in Accounts, from # to,
         NEW amount \in Int,
         ledger' = [ledger EXCEPT
           ![c] = [a \in Accounts |-> ledger[c][a] + Moved(from, to, amount)[a]]]
  PROVE  Transfer(c, from, to, amount)
<1> DEFINE old == ledger[c]
<1>1. old \in [Accounts -> Int]
  BY DEF TypeOK
<1>2. [a \in Accounts |-> old[a] + Moved(from, to, amount)[a]]
        = [old EXCEPT ![from] = @ - amount, ![to] = @ + amount]
  BY <1>1 DEF Moved
<1>3. ledger' = [ledger EXCEPT ![c] = [old EXCEPT ![from] = @ - amount, ![to] = @ + amount]]
  BY <1>2
<1>4. QED
  BY <1>3 DEF Transfer, TypeOK

LEMMA FundApplied ==
  ASSUME TypeOK, NEW c \in Contracts, NEW amount \in Int, NEW w,
         FundDecided(c, amount, w), Applied(w, c)
  PROVE  /\ Transfer(c, "client", "escrow", amount)
         /\ contract' = [contract EXCEPT ![c] = "active"]
         /\ UNCHANGED <<milestone, dispute, ruling, payout>>
<1>1. Transfer(c, "client", "escrow", amount)
  BY MovedTransfer DEF FundDecided, Applied, Parts, Accounts
<1>2. contract' = [contract EXCEPT ![c] = "active"]
  BY TablesWritten DEF FundDecided, Applied, Parts
<1>3. milestone' = milestone /\ dispute' = dispute /\ ruling' = ruling /\ payout' = payout
  BY WrittenNone DEF FundDecided, Applied, Parts, TypeOK
<1>4. QED
  BY <1>1, <1>2, <1>3

LEMMA NothingApplied ==
  ASSUME TypeOK, NEW c \in Contracts, NEW w, NothingDecided(w), Applied(w, c)
  PROVE  UNCHANGED vars
<1>1. ledger' = ledger
  BY NoTransfer DEF NothingDecided, Applied, Parts
<1>2. /\ contract' = contract /\ milestone' = milestone /\ dispute' = dispute
      /\ ruling' = ruling /\ payout' = payout
  BY WrittenNone DEF NothingDecided, Applied, Parts, TypeOK
<1>3. QED
  BY <1>1, <1>2 DEF vars

LEMMA SubmitApplied ==
  ASSUME TypeOK, NEW m \in Milestones, NEW w, SubmitDecided(m, w), Applied(w, ContractOf[m])
  PROVE  SubmitMilestone(m)
<1>0. ContractOf[m] \in Contracts
  BY MilestonesAssumption
<1>1. ledger' = ledger
  BY <1>0, NoTransfer DEF SubmitDecided, Applied, Parts
<1>2. milestone' = [milestone EXCEPT ![m] = "submitted"]
  <2>1. milestone' = Written(Only(m, "submitted"), milestone)
    BY DEF SubmitDecided, Applied, Parts
  <2>2. QED
    BY <2>1, TablesWritten
<1>3. contract' = contract /\ dispute' = dispute /\ ruling' = ruling /\ payout' = payout
  BY WrittenNone DEF SubmitDecided, Applied, Parts, TypeOK
<1>4. QED
  BY <1>1, <1>2, <1>3 DEF SubmitDecided, SubmitMilestone

LEMMA ApproveApplied ==
  ASSUME TypeOK, NEW m \in Milestones, NEW w, ApproveDecided(m, w), Applied(w, ContractOf[m])
  PROVE  ApproveMilestone(m)
<1> DEFINE c == ContractOf[m]
<1>0. c \in Contracts /\ m \in MilestonesOf(c) /\ Amount[m] \in Int
  BY MilestonesAssumption DEF MilestonesOf
<1>1. Transfer(c, "escrow", "freelancer", Amount[m])
  BY <1>0, MovedTransfer DEF ApproveDecided, Applied, Parts, Accounts
<1>2. milestone' = [milestone EXCEPT ![m] = "approved"]
  <2>1. milestone' = Written(Only(m, "approved"), milestone)
    BY DEF ApproveDecided, Applied, Parts
  <2>2. QED
    BY <2>1, TablesWritten
<1>3. dispute' = dispute /\ ruling' = ruling /\ payout' = payout
  BY TablesWritten DEF ApproveDecided, Applied, Parts
<1>4. AllSettled(c)' <=> OthersSettled(c, {m})
  BY <1>0, <1>2 DEF AllSettled, OthersSettled, MilestonesOf, Settled, TypeOK
<1>5. contract' = [contract EXCEPT ![c] = IF AllSettled(c)' THEN "completed" ELSE @]
  <2>1. CASE OthersSettled(c, {m})
    <3>1. contract' = [contract EXCEPT ![c] = "completed"]
      <4>1. contract' = Written(Only(c, "completed"), contract)
        BY <2>1 DEF ApproveDecided, Applied, Parts
      <4>2. QED
        BY <1>0, <4>1, TablesWritten
    <3>2. QED
      BY <1>4, <2>1, <3>1
  <2>2. CASE ~OthersSettled(c, {m})
    <3>1. contract' = contract
      BY <1>0, <2>2, TablesWritten DEF ApproveDecided, Applied, Parts
    <3>2. QED
      BY <1>0, <1>4, <2>2, <3>1 DEF TypeOK
  <2>3. QED
    BY <2>1, <2>2
<1>6. QED
  BY <1>1, <1>2, <1>3, <1>5 DEF ApproveDecided, ApproveMilestone

LEMMA DisputeApplied ==
  ASSUME TypeOK, NEW t \in Targets, NEW c, c = IF t \in Contracts THEN t ELSE ContractOf[t],
         NEW w, DisputeDecided(t, c, w), Applied(w, c)
  PROVE  /\ t \in Milestones => OpenMilestoneDispute(t)
         /\ t \in Contracts => OpenContractDispute(t)
<1>0. c \in Contracts /\ (t \in Milestones => t \notin Contracts /\ c = ContractOf[t])
  BY MilestonesAssumption, ContractsAssumption DEF Targets
<1>1. CASE t \in Milestones
  <2>1. ledger' = ledger
    BY <1>0, <1>1, NoTransfer DEF DisputeDecided, Applied, Parts
  <2>2. milestone' = [milestone EXCEPT ![t] = "disputed"] /\ dispute' = [dispute EXCEPT ![t] = "open"]
    BY <1>1, TablesWritten, ContractsAssumption DEF DisputeDecided, Applied, Parts, Targets
  <2>3. contract' = contract /\ ruling' = ruling /\ payout' = payout
    BY <1>1, TablesWritten DEF DisputeDecided, Applied, Parts
  <2>4. QED
    BY <1>0, <1>1, <2>1, <2>2, <2>3 DEF DisputeDecided, OpenMilestoneDispute
<1>2. CASE t \in Contracts /\ t \notin Milestones
  <2>1. ledger' = ledger
    BY <1>0, <1>2, NoTransfer DEF DisputeDecided, Applied, Parts
  <2>2. contract' = [contract EXCEPT ![t] = "disputed"] /\ dispute' = [dispute EXCEPT ![t] = "open"]
    BY <1>2, TablesWritten, ContractsAssumption DEF DisputeDecided, Applied, Parts, Targets
  <2>3. milestone' = milestone /\ ruling' = ruling /\ payout' = payout
    BY <1>2, TablesWritten DEF DisputeDecided, Applied, Parts
  <2>4. QED
    BY <1>0, <1>2, <2>1, <2>2, <2>3 DEF DisputeDecided, OpenContractDispute
<1>3. QED
  BY <1>0, <1>1, <1>2 DEF Targets

LEMMA SettleApplied ==
  ASSUME TypeOK, NEW c \in Contracts, NEW S, S \subseteq Milestones, NEW p \in Percents, NEW w,
         w.milestone = [m \in S |-> "resolved"], w.ruling = ShareOf(S, p),
         w.ledger = Split(Sum(Amount, S), Sum(ShareOf(S, p), S)),
         ledger[c]["escrow"] >= Sum(Amount, S), Applied(w, c)
  PROVE  Settle(c, S, p)
<1>1. milestone' = [m \in Milestones |-> IF m \in S THEN "resolved" ELSE milestone[m]]
  <2>1. milestone' = Written([m \in S |-> "resolved"], milestone)
    BY DEF Applied
  <2>2. QED
    BY <2>1 DEF Written, TypeOK
<1>2. ruling' = [m \in Milestones |-> IF m \in S THEN FreelancerShare(m, p) ELSE ruling[m]]
  <2>1. ruling' = Written(ShareOf(S, p), ruling)
    BY DEF Applied
  <2>2. QED
    BY <2>1 DEF Written, ShareOf, TypeOK
<1>3. PICK A \in Nat : A = Sum(Amount, S)
  BY AmountSum
<1>4. PICK F \in Nat : F = Sum([m \in Milestones |-> FreelancerShare(m, p)], S)
  BY SharesSum
<1>5. PICK C \in Nat : C = Sum([m \in Milestones |-> ClientShare(m, p)], S)
  BY SharesSum
<1>6. A = F + C
  BY <1>3, <1>4, <1>5, SharesSum
<1>7. Sum(ShareOf(S, p), S) = F
  <2>1. \A m \in S : ShareOf(S, p)[m] = [n \in Milestones |-> FreelancerShare(n, p)][m]
    BY DEF ShareOf
  <2>2. QED
    BY <1>4, <2>1, SumSame
<1>8. PICK old \in [Accounts -> Int] : old = ledger[c]
  BY DEF TypeOK
<1>9. PICK L : L = Split(A, F)
  OBVIOUS
<1>10. L["escrow"] = -A /\ L["freelancer"] = F /\ L["client"] = C /\ L["payout"] = 0
  BY <1>6, <1>9 DEF Split, Moved, Accounts
<1>11. /\ old["escrow"] + L["escrow"] = old["escrow"] - A
       /\ old["freelancer"] + L["freelancer"] = old["freelancer"] + F
       /\ old["client"] + L["client"] = old["client"] + C
       /\ old["payout"] + L["payout"] = old["payout"]
  BY <1>8, <1>10 DEF Accounts
<1>12. [a \in Accounts |-> old[a] + L[a]]
         = [old EXCEPT !["escrow"] = @ - A, !["freelancer"] = @ + F, !["client"] = @ + C]
  BY <1>8, <1>11 DEF Accounts
<1>13. ledger' = [ledger EXCEPT ![c] = [a \in Accounts |-> old[a] + L[a]]]
  BY <1>3, <1>7, <1>8, <1>9 DEF Applied
<1>14. ledger' = [ledger EXCEPT ![c]["escrow"] = @ - A, ![c]["freelancer"] = @ + F,
                               ![c]["client"] = @ + C]
  BY <1>8, <1>12, <1>13 DEF TypeOK
<1>15. QED
  BY <1>1, <1>2, <1>3, <1>4, <1>5, <1>14 DEF Settle

LEMMA ResolveApplied ==
  ASSUME TypeOK, NEW t \in Targets, NEW c, c = IF t \in Contracts THEN t ELSE ContractOf[t],
         NEW p \in Percents, NEW w, NEW S, ResolveDecided(t, c, p, S, w), Applied(w, c)
  PROVE  /\ t \in Milestones => ResolveMilestoneDispute(t, p)
         /\ t \in Contracts => ResolveContractDispute(t, p)
<1>0. /\ c \in Contracts /\ S \subseteq MilestonesOf(c) /\ S \subseteq Milestones
      /\ t \in Milestones => t \notin Contracts /\ c = ContractOf[t] /\ S = {t} /\ t # c
      /\ t \in Contracts => t \notin Milestones /\ t = c
                            /\ S = {m \in MilestonesOf(t) : milestone[m] \in Unsettled}
  BY MilestonesAssumption, ContractsAssumption
     DEF Targets, ResolveDecided, RulingOn, MilestonesOf
<1>1. /\ w.milestone = [m \in S |-> "resolved"] /\ w.ruling = ShareOf(S, p)
      /\ w.dispute = Only(t, "resolved") /\ w.payout = <<>>
      /\ w.ledger = Split(Sum(Amount, S), Sum(ShareOf(S, p), S))
      /\ OthersSettled(c, S) => w.contract = Only(c, "completed")
      /\ ~OthersSettled(c, S) /\ t = c => w.contract = Only(c, "active")
      /\ ~OthersSettled(c, S) /\ t # c => w.contract = <<>>
      /\ dispute[t] = "open" /\ S # {} /\ ledger[c]["escrow"] >= Sum(Amount, S)
  BY DEF ResolveDecided, Parts
<1>2. Settle(c, S, p)
  BY <1>0, <1>1, SettleApplied
<1>3. dispute' = [dispute EXCEPT ![t] = "resolved"]
  <2>1. dispute' = Written(Only(t, "resolved"), dispute)
    BY <1>1 DEF Applied
  <2>2. QED
    BY <2>1, TablesWritten
<1>4. payout' = payout
  BY <1>1, TablesWritten DEF Applied
<1>5. AllSettled(c)' <=> OthersSettled(c, S)
  <2>1. \A m \in Milestones : milestone'[m] = IF m \in S THEN "resolved" ELSE milestone[m]
    BY <1>2 DEF Settle
  <2>2. QED
    BY <1>0, <2>1 DEF AllSettled, OthersSettled, MilestonesOf, Settled
<1>6. contract' = Written(w.contract, contract)
  BY DEF Applied
<1>7. OthersSettled(c, S) => contract' = [contract EXCEPT ![c] = "completed"]
  <2>1. OthersSettled(c, S) => contract' = Written(Only(c, "completed"), contract)
    BY <1>1, <1>6
  <2>2. Written(Only(c, "completed"), contract) = [contract EXCEPT ![c] = "completed"]
    BY <1>0, TablesWritten
  <2>3. QED
    BY <2>1, <2>2
<1>8. ~OthersSettled(c, S) /\ t = c => contract' = [contract EXCEPT ![c] = "active"]
  <2>1. ~OthersSettled(c, S) /\ t = c => contract' = Written(Only(c, "active"), contract)
    BY <1>1, <1>6
  <2>2. Written(Only(c, "active"), contract) = [contract EXCEPT ![c] = "active"]
    BY <1>0, TablesWritten
  <2>3. QED
    BY <2>1, <2>2
<1>9. ~OthersSettled(c, S) /\ t # c => contract' = [contract EXCEPT ![c] = contract[c]]
  BY <1>0, <1>1, <1>6, TablesWritten DEF TypeOK
<1>10. CASE t \in Milestones
  <2>1. contract' = [contract EXCEPT ![c] = IF AllSettled(c)' THEN "completed" ELSE @]
    BY <1>0, <1>5, <1>7, <1>9, <1>10
  <2>2. QED
    BY <1>0, <1>1, <1>2, <1>3, <1>4, <1>10, <2>1 DEF ResolveMilestoneDispute
<1>11. CASE t \in Contracts
  <2>1. contract' = [contract EXCEPT ![c] = IF AllSettled(c)' THEN "completed" ELSE "active"]
    BY <1>0, <1>5, <1>7, <1>8, <1>11
  <2>2. QED
    BY <1>0, <1>1, <1>2, <1>3, <1>4, <1>11, <2>1 DEF ResolveContractDispute
<1>12. QED
  BY <1>0, <1>10, <1>11 DEF Targets

LEMMA PayoutApplied ==
  ASSUME TypeOK, NEW m \in Milestones, NEW w, PayoutDecided(m, ContractOf[m], w),
         Applied(w, ContractOf[m])
  PROVE  RequestPayout(m)
<1> DEFINE c == ContractOf[m]
<1>0. c \in Contracts
  BY MilestonesAssumption
<1>1. PICK row : row = [status |-> "pending", amount |-> Payable(m)]
  OBVIOUS
<1>2. /\ w.contract = <<>> /\ w.milestone = <<>> /\ w.dispute = <<>> /\ w.ruling = <<>>
      /\ w.payout = Only(m, row) /\ w.ledger = NoEntries
      /\ Payable(m) > 0 /\ payout[m].status = "none"
      /\ ledger[c]["freelancer"] - PayoutSum(c, "pending") >= Payable(m)
  BY <1>1 DEF PayoutDecided, Parts
<1>3. contract' = contract /\ milestone' = milestone /\ dispute' = dispute /\ ruling' = ruling
  BY <1>2, TablesWritten DEF Applied
<1>4. ledger' = ledger
  BY <1>0, <1>2, NoTransfer DEF Applied
<1>5. payout' = [payout EXCEPT ![m] = row]
  <2>1. payout' = Written(Only(m, row), payout)
    BY <1>2 DEF Applied
  <2>2. QED
    BY <2>1, TablesWritten
<1>6. QED
  BY <1>1, <1>2, <1>3, <1>4, <1>5 DEF RequestPayout

LEMMA SentApplied ==
  ASSUME TypeOK, NEW m \in Milestones, NEW w, SentDecided(m, ContractOf[m], w),
         Applied(w, ContractOf[m])
  PROVE  MarkPayoutSent(m)
<1> DEFINE c == ContractOf[m]
<1>0. c \in Contracts /\ payout[m] \in [status : PayoutStatus, amount : Nat]
  BY MilestonesAssumption DEF TypeOK
<1>1. PICK amount \in Int : amount = payout[m].amount
  BY <1>0
<1>2. PICK row : row = [status |-> "sent", amount |-> amount]
  OBVIOUS
<1>3. /\ w.contract = <<>> /\ w.milestone = <<>> /\ w.dispute = <<>> /\ w.ruling = <<>>
      /\ w.payout = Only(m, row) /\ w.ledger = Moved("freelancer", "payout", amount)
      /\ payout[m].status = "pending" /\ ledger[c]["freelancer"] >= amount
  BY <1>1, <1>2 DEF SentDecided, Parts
<1>4. contract' = contract /\ milestone' = milestone /\ dispute' = dispute /\ ruling' = ruling
  BY <1>3, TablesWritten DEF Applied
<1>5. Transfer(c, "freelancer", "payout", amount)
  BY <1>0, <1>3, MovedTransfer DEF Applied, Accounts
<1>6. payout' = [payout EXCEPT ![m].status = "sent"]
  <2>1. payout' = Written(Only(m, row), payout)
    BY <1>3 DEF Applied
  <2>2. payout' = [payout EXCEPT ![m] = row]
    BY <2>1, TablesWritten
  <2>3. row = [payout[m] EXCEPT !.status = "sent"]
    BY <1>0, <1>1, <1>2
  <2>4. QED
    BY <2>2, <2>3
<1>7. QED
  BY <1>1, <1>3, <1>4, <1>5, <1>6 DEF MarkPayoutSent

-----------------------------------------------------------------------------
(***************************************************************************)
(* What a request relies on is about its own contract.                     *)
(***************************************************************************)

\* The data of contract c does not change.
SameOn(c) ==
  /\ contract'[c] = contract[c]
  /\ ledger'[c] = ledger[c]
  /\ \A m \in MilestonesOf(c) :
       milestone'[m] = milestone[m] /\ ruling'[m] = ruling[m] /\ payout'[m] = payout[m]
  /\ \A t \in {c} \cup MilestonesOf(c) : dispute'[t] = dispute[t]

LEMMA TrustedKept ==
  ASSUME NEW r \in Requests, NEW v, NEW n, Trusted(r, v, n), SameOn(ContractOn(r))
  PROVE  Trusted(r, v, n)'
<1>1. PICK c \in Contracts : c = ContractOn(r)
  BY RequestFacts
<1>2. /\ r.on \in Milestones => r.on \in MilestonesOf(c)
      /\ r.on \in Contracts => r.on = c
      /\ r.on \in Targets
      /\ r.type \in {"submit", "approve", "payout", "sent"} => r.on \in Milestones
  BY <1>1, RequestFacts DEF MilestonesOf
<1>3. /\ contract'[c] = contract[c]
      /\ dispute'[r.on] = dispute[r.on]
      /\ r.on \in Milestones =>
           milestone'[r.on] = milestone[r.on] /\ payout'[r.on] = payout[r.on]
  BY <1>1, <1>2 DEF SameOn, Targets
<1>4. QED
  BY <1>1, <1>2, <1>3 DEF Trusted

LEMMA DecidedKept ==
  ASSUME NEW r \in Requests, NEW w, Decided(r, w), SameOn(ContractOn(r))
  PROVE  Decided(r, w)'
<1>1. PICK c \in Contracts : c = ContractOn(r)
  BY RequestFacts
<1>2. /\ r.on \in Milestones => r.on \in MilestonesOf(c) /\ c = ContractOf[r.on]
      /\ r.on \in Contracts => r.on = c /\ r.on \notin Milestones
      /\ r.on \in Targets /\ r.type \in RequestTypes
      /\ r.type \in {"submit", "approve", "payout", "sent"} => r.on \in Milestones
  BY <1>1, RequestFacts DEF MilestonesOf
<1>3. /\ contract'[c] = contract[c] /\ ledger'[c] = ledger[c]
      /\ \A m \in MilestonesOf(c) :
           milestone'[m] = milestone[m] /\ ruling'[m] = ruling[m] /\ payout'[m] = payout[m]
      /\ \A t \in {c} \cup MilestonesOf(c) : dispute'[t] = dispute[t]
  BY <1>1 DEF SameOn
<1>4. dispute'[r.on] = dispute[r.on]
  BY <1>2, <1>3 DEF Targets
<1>5. \A S : OthersSettled(c, S)' <=> OthersSettled(c, S)
  BY <1>3 DEF OthersSettled, MilestonesOf
<1>6. CASE r.type = "fund"
  BY <1>1, <1>3, <1>6 DEF Decided, FundDecided
<1>7. CASE r.type = "webhook"
  BY <1>1, <1>3, <1>7 DEF Decided, FundDecided, NothingDecided
<1>8. CASE r.type = "submit"
  <2>1. SubmitDecided(r.on, w)
    BY <1>8 DEF Decided
  <2>2. SubmitDecided(r.on, w)'
    BY <1>2, <1>3, <1>8, <2>1 DEF SubmitDecided
  <2>3. QED
    BY <1>8, <2>2 DEF Decided
<1>9. CASE r.type = "approve"
  <2>1. ApproveDecided(r.on, w)
    BY <1>9 DEF Decided
  <2>2. ApproveDecided(r.on, w)'
    BY <1>2, <1>3, <1>5, <1>9, <2>1 DEF ApproveDecided
  <2>3. QED
    BY <1>9, <2>2 DEF Decided
<1>10. CASE r.type = "dispute"
  <2>1. DisputeDecided(r.on, c, w)
    BY <1>1, <1>10 DEF Decided
  <2>2. DisputeOpen(c)' <=> DisputeOpen(c)
    BY <1>3 DEF DisputeOpen, MilestonesOf
  <2>3. DisputeDecided(r.on, c, w)'
    BY <1>2, <1>3, <2>1, <2>2 DEF DisputeDecided, Targets
  <2>4. QED
    BY <1>1, <1>10, <2>3 DEF Decided
<1>11. CASE r.type = "resolve"
  <2>1. PICK S : S = RulingOn(r.on)
    OBVIOUS
  <2>2. RulingOn(r.on)' = S
    <3>1. CASE r.on \in Milestones
      BY <2>1, <3>1 DEF RulingOn
    <3>2. CASE r.on \notin Milestones
      <4>1. S = {m \in MilestonesOf(c) : milestone[m] \in Unsettled}
        BY <1>2, <2>1, <3>2 DEF RulingOn, Targets
      <4>2. RulingOn(r.on)' = {m \in MilestonesOf(c) : milestone'[m] \in Unsettled}
        BY <1>2, <3>2 DEF RulingOn, Targets, MilestonesOf
      <4>3. QED
        BY <1>3, <4>1, <4>2
    <3>3. QED
      BY <3>1, <3>2
  <2>3. ResolveDecided(r.on, c, r.arg, S, w)
    BY <1>1, <1>11, <2>1 DEF Decided
  <2>4. ResolveDecided(r.on, c, r.arg, S, w)'
    BY <1>3, <1>4, <1>5, <2>2, <2>3 DEF ResolveDecided
  <2>5. QED
    BY <1>1, <1>11, <2>2, <2>4 DEF Decided
<1>12. CASE r.type = "payout"
  <2>1. PayoutDecided(r.on, c, w)
    BY <1>1, <1>12 DEF Decided
  <2>2. PayoutSum(c, "pending")' = PayoutSum(c, "pending")
    BY <1>3, PayoutSumSame
  <2>3. Payable(r.on)' = Payable(r.on)
    BY <1>2, <1>3, <1>12 DEF Payable
  <2>4. PayoutDecided(r.on, c, w)'
    BY <1>2, <1>3, <1>12, <2>1, <2>2, <2>3 DEF PayoutDecided
  <2>5. QED
    BY <1>1, <1>12, <2>4 DEF Decided
<1>13. CASE r.type = "sent"
  <2>1. SentDecided(r.on, c, w)
    BY <1>1, <1>13 DEF Decided
  <2>2. SentDecided(r.on, c, w)'
    BY <1>2, <1>3, <1>13, <2>1 DEF SentDecided
  <2>3. QED
    BY <1>1, <1>13, <2>2 DEF Decided
<1>14. QED
  BY <1>2, <1>6, <1>7, <1>8, <1>9, <1>10, <1>11, <1>12, <1>13 DEF RequestTypes

\* A request that stands still while the data of its contract does.
LEMMA SoundKept ==
  ASSUME SlotTypes, NEW s \in Slots, Sound(s),
         Active(s) => SameOn(ContractOn(req[s])),
         req'[s] = req[s], pc'[s] = pc[s], locks'[s] = locks[s], view'[s] = view[s],
         writes'[s] = writes[s]
  PROVE  Sound(s)'
<1>1. CASE ~Active(s)
  BY <1>1 DEF Sound, Active
<1>2. CASE Active(s)
  <2>1. PICK r \in Requests : r = req[s]
    BY <1>2 DEF SlotTypes
  <2>2. PICK v : v = view[s]
    OBVIOUS
  <2>3. PICK w : w = writes[s]
    OBVIOUS
  <2>4. PICK n : n = locks[s]
    OBVIOUS
  <2>5. SameOn(ContractOn(r))
    BY <1>2, <2>1
  <2>6. Existing(s)' /\ Loaded(s)'
    BY <1>2, <2>1, <2>5 DEF Sound, Existing, Loaded, SameOn, Held, AllLocked
  <2>7. pc[s] \in {"running", "writing"} => Trusted(r, v, n)'
    BY <2>1, <2>2, <2>4, <2>5, TrustedKept DEF Sound
  <2>8. pc[s] = "writing" => Decided(r, w)'
    BY <2>1, <2>3, <2>5, DecidedKept DEF Sound
  <2>9. QED
    BY <2>1, <2>2, <2>3, <2>4, <2>6, <2>7, <2>8 DEF Sound
<1>3. QED
  BY <1>1, <1>2

\* A request that ends, or that is merely refused.
LEMMA SoundOver ==
  ASSUME SlotTypes, NEW s \in Slots, Sound(s), UNCHANGED db,
         \/ pc'[s] = "idle"
         \/ /\ Active(s) /\ pc'[s] = "refused"
            /\ req'[s] = req[s] /\ locks'[s] = locks[s] /\ view'[s] = view[s]
  PROVE  Sound(s)'
<1>1. UNCHANGED contract
  BY DEF db
<1>2. QED
  BY <1>1 DEF Sound, Active, Existing, Loaded, Held, AllLocked

-----------------------------------------------------------------------------
(***************************************************************************)
(* The steps of a request up to its decision.                              *)
(***************************************************************************)

LEMMA UnlockedFacts ==
  ASSUME NEW r \in Requests
  PROVE  /\ r.type \in {"submit", "payout"} => UnlockedReads(r) = {MilestoneRow(r.on)}
         /\ r.type = "webhook" => UnlockedReads(r) = {ContractRow(ContractOn(r))}
         /\ r.type \in {"fund", "approve", "dispute", "resolve", "sent"} => UnlockedReads(r) = {}
<1>1. r.type = "webhook" => ContractOn(r) = r.on
  BY RequestFacts
<1>2. QED
  BY <1>1 DEF UnlockedReads

LEMMA BeginSound ==
  ASSUME TxInv, NEW s \in Slots, NEW r \in Requests, Begin(s, r)
  PROVE  Sound(s)'
<1> USE DEF TxInv, LockInv, TxTypeInv
<1>1. PICK U : U = UnlockedReads(r)
  OBVIOUS
<1>2. PICK v : v = Load(<<>>, U)
  OBVIOUS
<1>3. /\ req'[s] = r /\ pc'[s] = "running" /\ locks'[s] = 0 /\ view'[s] = v
      /\ contract[ContractOn(r)] # "absent" /\ UNCHANGED db
  BY <1>1, <1>2 DEF Begin, Exists, SlotTypes, Active
<1>4. DOMAIN v = U /\ \A row \in U : v[row] = Status(row)
  BY <1>2, LoadFirst
<1>5. /\ r.type \in {"submit", "payout"} =>
           U = {MilestoneRow(r.on)} /\ v[MilestoneRow(r.on)] = milestone[r.on]
      /\ r.type = "webhook" =>
           /\ U = {ContractRow(ContractOn(r))}
           /\ v[ContractRow(ContractOn(r))] = contract[ContractOn(r)]
      /\ r.type \in {"fund", "approve", "dispute", "resolve", "sent"} => U = {}
  BY <1>1, <1>4, UnlockedFacts, StatusFacts
<1>6. r.type \in RequestTypes /\ Len(LockPlan(r)) # 0
  <2>1. Len(LockPlan(r)) \in {1, 2}
    BY PlanFacts
  <2>2. QED
    BY <2>1, RequestFacts
<1>7. UNCHANGED <<contract, milestone, dispute, payout>>
  BY <1>3 DEF db
<1>8. Trusted(r, v, 0)'
  BY <1>5, <1>6, <1>7 DEF Trusted
<1>9. Held(s)' = {}
  BY <1>3 DEF Held
<1>10. Loaded(s)'
  <2>1. UnlockedReads(r) = DOMAIN v
    BY <1>1, <1>4
  <2>2. \A m \in Milestones : MilestoneRow(m) \in DOMAIN v => m = r.on
    BY <1>4, <1>5, <1>6, RowsDiffer DEF RequestTypes
  <2>3. ContractRow(ContractOn(r)) \in DOMAIN v => r.type = "webhook"
    BY <1>4, <1>5, <1>6, RowsDiffer DEF RequestTypes
  <2>4. r.type \in {"approve", "resolve", "sent"} => DOMAIN v = {}
    BY <1>4, <1>5
  <2>5. QED
    BY <1>3, <1>9, <2>1, <2>2, <2>3, <2>4 DEF Loaded
<1>11. QED
  BY <1>3, <1>7, <1>8, <1>10 DEF Sound, Existing

LEMMA LockSound ==
  ASSUME TxInv, NEW s \in Slots, Lock(s)
  PROVE  Sound(s)'
<1> USE DEF TxInv, LockInv, TxTypeInv
<1>1. pc[s] = "running" /\ Active(s) /\ ~AllLocked(s)
  BY DEF Lock, Active
<1>2. PICK r \in Requests : r = req[s]
  BY <1>1 DEF SlotTypes
<1>3. PICK n \in Nat : n = locks[s]
  BY DEF SlotTypes
<1>4. PICK v : v = view[s]
  OBVIOUS
<1>5. PICK row : row = LockPlan(r)[n + 1]
  OBVIOUS
<1>6. PICK R : R = ReadsWith(row, r)
  OBVIOUS
<1>7. PICK u : u = Load(v, R)
  OBVIOUS
<1>8. PICK c \in Contracts : c = ContractOn(r)
  BY RequestFacts
<1>9. PICK k : k = Len(LockPlan(r))
  OBVIOUS
<1>10. /\ r.type \in RequestTypes
       /\ k = IF r.type \in {"approve", "resolve", "sent"} THEN 2 ELSE 1
       /\ n <= k /\ n # k
  BY <1>1, <1>2, <1>3, <1>9, RequestFacts, PlanFacts DEF SlotTypes, AllLocked
<1>11. n \in {0, 1} /\ (n = 1 => k = 2) /\ (n + 1 = k <=> k = 1 \/ n = 1)
  BY <1>10
<1>12. /\ n + 1 = k => row = ContractRow(c)
       /\ n = 0 /\ r.type = "approve" => row = MilestoneRow(r.on)
       /\ n = 0 /\ r.type = "resolve" => row = DisputeRow(r.on)
       /\ n = 0 /\ r.type = "sent" => row = PayoutRow(r.on)
  BY <1>5, <1>8, <1>9, PlanFacts
<1>13. /\ row \in R /\ (row # DisputeRow(r.on) => R = {row})
       /\ row = DisputeRow(r.on) =>
            R = {row, ContractRow(c)} \cup {MilestoneRow(m) : m \in Milestones \cap {r.on}}
  BY <1>6, <1>8 DEF ReadsWith
<1>14. /\ DOMAIN u = DOMAIN v \cup R
       /\ \A x \in DOMAIN v : u[x] = v[x]
       /\ \A x \in R \ DOMAIN v : u[x] = Status(x)
  BY <1>7, LoadFacts
<1>15. PICK over \in BOOLEAN :
         over <=> \/ row = DisputeRow(r.on) /\ dispute[r.on] # "open"
                  \/ row = PayoutRow(r.on) /\ payout[r.on].status # "pending"
  OBVIOUS
<1>16. /\ req' = req /\ locks' = [locks EXCEPT ![s] = n + 1] /\ view' = [view EXCEPT ![s] = u]
       /\ pc' = [pc EXCEPT ![s] = IF over THEN "refused" ELSE @]
       /\ UNCHANGED db
  BY <1>2, <1>3, <1>4, <1>5, <1>6, <1>7, <1>15 DEF Lock
<1>17. /\ req'[s] = r /\ locks'[s] = n + 1 /\ view'[s] = u
       /\ pc'[s] = IF over THEN "refused" ELSE "running"
       /\ UNCHANGED <<contract, milestone, dispute, payout>>
  BY <1>1, <1>2, <1>16 DEF SlotTypes, db
<1>18. /\ Held(s) \cup UnlockedReads(r) \subseteq DOMAIN v
       /\ \A m \in Milestones : MilestoneRow(m) \in DOMAIN v => m = r.on
       /\ ContractRow(c) \in DOMAIN v => r.type \in {"webhook", "resolve"}
       /\ r.type \in {"approve", "resolve", "sent"} /\ n = 0 => DOMAIN v = {}
       /\ Trusted(r, v, n) /\ contract[c] # "absent"
  BY <1>1, <1>2, <1>3, <1>4, <1>8 DEF Sound, Existing, Loaded
<1>19. Loaded(s)'
  <2>1. Held(s)' = Held(s) \cup {row}
    <3>1. 1 .. (n + 1) = (1 .. n) \cup {n + 1}
      OBVIOUS
    <3>2. QED
      BY <1>2, <1>3, <1>5, <1>17, <3>1 DEF Held
  <2>2. Held(s)' \cup UnlockedReads(r) \subseteq DOMAIN u
    BY <1>13, <1>14, <1>18, <2>1
  <2>3. \A m \in Milestones : MilestoneRow(m) \in DOMAIN u => m = r.on
    <3>1. SUFFICES ASSUME NEW m \in Milestones, MilestoneRow(m) \in R PROVE m = r.on
      BY <1>14, <1>18
    <3>2. CASE row = DisputeRow(r.on)
      BY <1>13, <3>1, <3>2, RowsDiffer
    <3>3. CASE row # DisputeRow(r.on)
      <4>1. row = MilestoneRow(m)
        BY <1>13, <3>1, <3>3
      <4>2. r.type = "approve" /\ n = 0
        BY <1>10, <1>11, <1>12, <4>1, RowsDiffer
      <4>3. QED
        BY <1>12, <4>1, <4>2, RowsDiffer
    <3>4. QED
      BY <3>2, <3>3
  <2>4. ContractRow(c) \in DOMAIN u => r.type \in {"webhook", "resolve"} \/ n + 1 = k
    <3>1. SUFFICES ASSUME ContractRow(c) \in R, n + 1 # k PROVE r.type = "resolve"
      BY <1>14, <1>18
    <3>2. QED
      BY <1>10, <1>11, <1>12, <1>13, <3>1, RowsDiffer
  <2>5. QED
    BY <1>8, <1>9, <1>17, <2>2, <2>3, <2>4 DEF Loaded, AllLocked
<1>20. ASSUME ~over PROVE Trusted(r, u, n + 1)'
  <2>1. /\ row \in DOMAIN v => u[row] = v[row]
        /\ row \notin DOMAIN v => u[row] = Status(row)
    BY <1>13, <1>14
  <2>2. r.type \in {"fund", "submit", "approve", "dispute", "payout"} /\ n + 1 = k =>
          u[ContractRow(c)] = contract[c]
    BY <1>12, <1>18, <2>1, StatusFacts
  <2>3. r.type = "approve" => u[MilestoneRow(r.on)] = milestone[r.on]
    <3>1. CASE n = 0
      BY <1>12, <1>18, <2>1, <3>1, StatusFacts
    <3>2. CASE n = 1
      <4>1. SUFFICES ASSUME r.type = "approve" PROVE u[MilestoneRow(r.on)] = milestone[r.on]
        OBVIOUS
      <4>2. MilestoneRow(r.on) \in Held(s)
        BY <1>2, <1>3, <3>2, <4>1, PlanFacts DEF Held
      <4>3. QED
        BY <1>14, <1>18, <3>2, <4>1, <4>2 DEF Trusted
    <3>3. QED
      BY <1>11, <3>1, <3>2
  <2>4. r.type = "resolve" => u[DisputeRow(r.on)] = "open" /\ dispute[r.on] = "open"
    <3>1. CASE n = 0
      BY <1>12, <1>15, <1>18, <1>20, <2>1, <3>1, StatusFacts
    <3>2. CASE n = 1
      <4>1. SUFFICES ASSUME r.type = "resolve"
                     PROVE  u[DisputeRow(r.on)] = "open" /\ dispute[r.on] = "open"
        OBVIOUS
      <4>2. DisputeRow(r.on) \in Held(s)
        BY <1>2, <1>3, <3>2, <4>1, PlanFacts DEF Held
      <4>3. QED
        BY <1>14, <1>18, <3>2, <4>1, <4>2 DEF Trusted
    <3>3. QED
      BY <1>11, <3>1, <3>2
  <2>5. r.type = "sent" => u[PayoutRow(r.on)] = "pending" /\ payout[r.on].status = "pending"
    <3>1. CASE n = 0
      BY <1>12, <1>15, <1>18, <1>20, <2>1, <3>1, StatusFacts
    <3>2. CASE n = 1
      <4>1. SUFFICES ASSUME r.type = "sent"
                     PROVE  u[PayoutRow(r.on)] = "pending" /\ payout[r.on].status = "pending"
        OBVIOUS
      <4>2. PayoutRow(r.on) \in Held(s)
        BY <1>2, <1>3, <3>2, <4>1, PlanFacts DEF Held
      <4>3. QED
        BY <1>14, <1>18, <3>2, <4>1, <4>2 DEF Trusted
    <3>3. QED
      BY <1>11, <3>1, <3>2
  <2>6. r.type \in {"submit", "payout"} => u[MilestoneRow(r.on)] = v[MilestoneRow(r.on)]
    BY <1>14, <1>18, UnlockedFacts
  <2>7. r.type = "webhook" => u[ContractRow(c)] = v[ContractRow(c)]
    BY <1>8, <1>14, <1>18, UnlockedFacts
  <2>8. QED
    BY <1>8, <1>9, <1>17, <1>18, <2>2, <2>3, <2>4, <2>5, <2>6, <2>7 DEF Trusted
<1>21. QED
  <2>1. Existing(s)'
    BY <1>8, <1>17, <1>18 DEF Existing
  <2>2. QED
    BY <1>15, <1>17, <1>19, <1>20, <2>1 DEF Sound

\* The milestones that a session has not loaded it reads afresh.
LEMMA FreshMilestones ==
  ASSUME NEW v, NEW m, MilestoneRow(m) \notin DOMAIN v
  PROVE  Load(v, {MilestoneRow(m)})[MilestoneRow(m)] = milestone[m]
<1>1. PICK row : row = MilestoneRow(m)
  OBVIOUS
<1>2. row \notin DOMAIN v /\ Status(row) = milestone[m]
  BY <1>1, StatusFacts
<1>3. Load(v, {row})[row] = Status(row)
  <2>1. \A x \in {row} \ DOMAIN v : Load(v, {row})[x] = Status(x)
    BY LoadFacts
  <2>2. QED
    BY <1>2, <2>1
<1>4. QED
  BY <1>1, <1>2, <1>3

LEMMA CompletesFresh ==
  ASSUME NEW v, NEW c, NEW S,
         \A m \in MilestonesOf(c) \ S : MilestoneRow(m) \notin DOMAIN v
  PROVE  Completes(v, c, S) <=> OthersSettled(c, S)
BY FreshMilestones DEF Completes, OthersSettled

LEMMA DecisionSound ==
  ASSUME TxInv, NEW s \in Slots, pc[s] = "running", AllLocked(s), May(s)
  PROVE  Decided(req[s], WritesOf(s))
<1> USE DEF TxInv, LockInv, TxTypeInv
<1>0. Active(s)
  BY DEF Active
<1>1. PICK r \in Requests : r = req[s]
  BY <1>0 DEF SlotTypes
<1>2. PICK c \in Contracts : c = ContractOn(r)
  BY RequestFacts
<1>3. PICK v : v = view[s]
  OBVIOUS
<1>4. PICK n : n = Len(LockPlan(r))
  OBVIOUS
<1>5. n = locks[s] /\ n \in {1, 2} /\ n > 0
  <2>1. n \in {1, 2}
    BY <1>4, PlanFacts
  <2>2. n = locks[s]
    BY <1>1, <1>4 DEF AllLocked
  <2>3. QED
    BY <2>1, <2>2
<1>6. /\ Trusted(r, v, n)
      /\ \A m \in Milestones : MilestoneRow(m) \in DOMAIN v => m = r.on
  BY <1>0, <1>1, <1>3, <1>5 DEF Sound, Loaded
<1>7. /\ r.type \in {"fund", "submit", "approve", "dispute", "payout"} =>
           v[ContractRow(c)] = contract[c]
      /\ r.type = "approve" => v[MilestoneRow(r.on)] = milestone[r.on]
      /\ r.type = "resolve" => v[DisputeRow(r.on)] = "open" /\ dispute[r.on] = "open"
      /\ r.type = "sent" => v[PayoutRow(r.on)] = "pending" /\ payout[r.on].status = "pending"
      /\ r.type = "submit" /\ v[MilestoneRow(r.on)] \in {"pending", "rejected"} =>
           milestone[r.on] = v[MilestoneRow(r.on)] \/ contract[c] = "completed"
      /\ r.type = "payout" /\ v[MilestoneRow(r.on)] \in Settled =>
           milestone[r.on] = v[MilestoneRow(r.on)]
      /\ r.type = "webhook" /\ v[ContractRow(c)] = "draft" => contract[c] = "draft"
  BY <1>2, <1>4, <1>5, <1>6 DEF Trusted
<1>8. /\ r.on \in Milestones => r.on \in MilestonesOf(c) /\ c = ContractOf[r.on]
      /\ r.on \in Contracts => r.on = c /\ r.on \notin Milestones
      /\ r.on \in Targets /\ r.type \in RequestTypes
      /\ r.type \in {"submit", "approve", "payout", "sent"} => r.on \in Milestones
  BY <1>2, RequestFacts DEF MilestonesOf
<1>9. CASE r.type = "fund"
  <2>1. WritesOf(s) = FundWrites(c, Total(c)) /\ MayFund(v, c)
    BY <1>1, <1>2, <1>3, <1>9 DEF WritesOf, May
  <2>2. Total(c) \in 1 .. MaxInt /\ FundDecided(c, Total(c), FundWrites(c, Total(c)))
    BY <1>7, <1>9, <2>1, FundParts DEF MayFund, FundDecided
  <2>3. QED
    BY <1>1, <1>2, <1>9, <2>1, <2>2 DEF Decided
<1>10. CASE r.type = "webhook"
  <2>1. WritesOf(s) = WebhookWrites(v, c, r.arg)
    BY <1>1, <1>2, <1>3, <1>10 DEF WritesOf
  <2>2. CASE v[ContractRow(c)] = "draft"
    <3>1. WritesOf(s) = FundWrites(c, r.arg)
      BY <2>1, <2>2 DEF WebhookWrites
    <3>2. FundDecided(c, r.arg, FundWrites(c, r.arg))
      BY <1>7, <1>10, <2>2, FundParts DEF FundDecided
    <3>3. QED
      BY <1>1, <1>2, <1>10, <3>1, <3>2 DEF Decided
  <2>3. CASE v[ContractRow(c)] # "draft"
    <3>1. WritesOf(s) = Nothing
      BY <2>1, <2>3 DEF WebhookWrites
    <3>2. NothingDecided(Nothing)
      BY NothingParts DEF NothingDecided, NoEntries
    <3>3. QED
      BY <1>1, <1>10, <3>1, <3>2 DEF Decided
  <2>4. QED
    BY <2>2, <2>3
<1>11. CASE r.type = "submit"
  <2>1. WritesOf(s) = SubmitWrites(r.on) /\ MaySubmit(v, r.on)
    BY <1>1, <1>3, <1>11 DEF WritesOf, May
  <2>2. contract[c] = "active" /\ milestone[r.on] \in {"pending", "rejected"}
    BY <1>7, <1>8, <1>11, <2>1 DEF MaySubmit
  <2>3. SubmitDecided(r.on, SubmitWrites(r.on))
    BY <1>8, <1>11, <2>2, SubmitParts DEF SubmitDecided, NoEntries
  <2>4. QED
    BY <1>1, <1>11, <2>1, <2>3 DEF Decided
<1>12. CASE r.type = "approve"
  <2>1. WritesOf(s) = ApproveWrites(v, r.on) /\ MayApprove(v, r.on)
    BY <1>1, <1>3, <1>12 DEF WritesOf, May
  <2>2. contract[c] = "active" /\ milestone[r.on] = "submitted" /\ ledger[c]["escrow"] >= Amount[r.on]
    BY <1>7, <1>8, <1>12, <2>1 DEF MayApprove
  <2>3. Completes(v, c, {r.on}) <=> OthersSettled(c, {r.on})
    BY <1>6, CompletesFresh DEF MilestonesOf
  <2>4. ApproveDecided(r.on, ApproveWrites(v, r.on))
    BY <1>8, <1>12, <2>2, <2>3, ApproveParts DEF ApproveDecided
  <2>5. QED
    BY <1>1, <1>12, <2>1, <2>4 DEF Decided
<1>13. CASE r.type = "dispute"
  <2>1. WritesOf(s) = DisputeWrites(r.on) /\ MayDispute(v, r.on, c)
    BY <1>1, <1>2, <1>3, <1>13 DEF WritesOf, May
  <2>2. /\ ~DisputeOpen(c)
        /\ r.on \in Milestones => milestone[r.on] = "submitted"
        /\ r.on \notin Milestones => contract[r.on] = "active"
    BY <1>7, <1>8, <1>13, <2>1 DEF MayDispute, Targets
  <2>3. DisputeDecided(r.on, c, DisputeWrites(r.on))
    BY <2>2, DisputeParts DEF DisputeDecided, NoEntries
  <2>4. QED
    BY <1>1, <1>2, <1>13, <2>1, <2>3 DEF Decided
<1>14. CASE r.type = "resolve"
  <2>1. WritesOf(s) = ResolveWrites(v, r.on, c, r.arg) /\ MayResolve(v, r.on, c)
    BY <1>1, <1>2, <1>3, <1>14 DEF WritesOf, May
  <2>2. PICK S : S = Ruled(v, r.on)
    OBVIOUS
  <2>3. S = RulingOn(r.on)
    <3>1. CASE r.on \in Milestones
      BY <2>2, <3>1 DEF Ruled, RulingOn
    <3>2. CASE r.on \notin Milestones
      <4>1. \A m \in MilestonesOf(r.on) : Load(v, {MilestoneRow(m)})[MilestoneRow(m)] = milestone[m]
        BY <1>6, <3>2, FreshMilestones DEF MilestonesOf
      <4>2. QED
        BY <2>2, <3>2, <4>1 DEF Ruled, RulingOn
    <3>3. QED
      BY <3>1, <3>2
  <2>4. Completes(v, c, S) <=> OthersSettled(c, S)
    <3>1. r.on \in Milestones => S = {r.on}
      BY <2>2 DEF Ruled
    <3>2. \A m \in MilestonesOf(c) \ S : MilestoneRow(m) \notin DOMAIN v
      BY <1>6, <3>1 DEF MilestonesOf
    <3>3. QED
      BY <3>2, CompletesFresh
  <2>5. PICK f : f = ShareOf(S, r.arg)
    OBVIOUS
  <2>6. Parts(ResolveWrites(v, r.on, c, r.arg),
              IF Completes(v, c, S) THEN Only(c, "completed")
                ELSE IF r.on = c THEN Only(c, "active") ELSE <<>>,
              [m \in S |-> "resolved"], Only(r.on, "resolved"), f, <<>>,
              Split(Sum(Amount, S), Sum(f, S)))
    BY <2>2, <2>5, ResolveParts DEF ShareOf
  <2>7. /\ dispute[r.on] = "open" /\ S # {} /\ ledger[c]["escrow"] >= Sum(Amount, S)
    BY <1>7, <1>14, <2>1, <2>2 DEF MayResolve
  <2>8. ResolveDecided(r.on, c, r.arg, S, ResolveWrites(v, r.on, c, r.arg))
    BY <2>3, <2>4, <2>5, <2>6, <2>7 DEF ResolveDecided
  <2>9. QED
    BY <1>1, <1>2, <1>14, <2>1, <2>3, <2>8 DEF Decided
<1>15. CASE r.type = "payout"
  <2>1. WritesOf(s) = PayoutWrites(v, r.on) /\ MayRequestPayout(v, r.on, c)
    BY <1>1, <1>2, <1>3, <1>15 DEF WritesOf, May
  <2>2. Owed(v, r.on) = Payable(r.on)
    <3>1. v[MilestoneRow(r.on)] \in Settled
      BY <2>1 DEF MayRequestPayout, Owed, Settled
    <3>2. milestone[r.on] = v[MilestoneRow(r.on)]
      BY <1>7, <1>15, <3>1
    <3>3. QED
      BY <3>2 DEF Owed, Payable
  <2>3. /\ Payable(r.on) > 0 /\ payout[r.on].status = "none"
        /\ ledger[c]["freelancer"] - PayoutSum(c, "pending") >= Payable(r.on)
    BY <2>1, <2>2 DEF MayRequestPayout
  <2>4. PayoutDecided(r.on, c, PayoutWrites(v, r.on))
    BY <2>2, <2>3, PayoutParts DEF PayoutDecided, NoEntries
  <2>5. QED
    BY <1>1, <1>2, <1>15, <2>1, <2>4 DEF Decided
<1>16. CASE r.type = "sent"
  <2>1. WritesOf(s) = SentWrites(r.on) /\ MayMarkSent(v, r.on, c)
    BY <1>1, <1>2, <1>3, <1>16 DEF WritesOf, May
  <2>2. payout[r.on].status = "pending" /\ ledger[c]["freelancer"] >= payout[r.on].amount
    BY <1>7, <1>16, <2>1 DEF MayMarkSent
  <2>3. SentDecided(r.on, c, SentWrites(r.on))
    BY <2>2, SentParts DEF SentDecided
  <2>4. QED
    BY <1>1, <1>2, <1>16, <2>1, <2>3 DEF Decided
<1>17. QED
  BY <1>8, <1>9, <1>10, <1>11, <1>12, <1>13, <1>14, <1>15, <1>16 DEF RequestTypes

LEMMA DataKept ==
  ASSUME NEW c, UNCHANGED db
  PROVE  SameOn(c)
BY DEF db, SameOn

LEMMA DecideSound ==
  ASSUME TxInv, NEW s \in Slots, Decide(s)
  PROVE  Sound(s)'
<1> USE DEF TxInv, LockInv, TxTypeInv
<1>1. /\ pc[s] = "running" /\ AllLocked(s) /\ May(s) /\ Active(s)
      /\ pc'[s] = "writing" /\ writes'[s] = WritesOf(s)
      /\ UNCHANGED <<req, locks, view>> /\ UNCHANGED db
  BY DEF Decide, SlotTypes, Active
<1>2. PICK r \in Requests : r = req[s]
  BY <1>1 DEF SlotTypes
<1>3. PICK w : w = WritesOf(s)
  OBVIOUS
<1>4. PICK v : v = view[s]
  OBVIOUS
<1>5. PICK n : n = locks[s]
  OBVIOUS
<1>6. Decided(r, w) /\ Trusted(r, v, n)
  BY <1>1, <1>2, <1>3, <1>4, <1>5, DecisionSound DEF Sound
<1>7. SameOn(ContractOn(r))
  BY <1>1, DataKept
<1>8. Decided(r, w)' /\ Trusted(r, v, n)'
  BY <1>6, <1>7, DecidedKept, TrustedKept
<1>9. Existing(s)' /\ Loaded(s)'
  BY <1>1 DEF Sound, Existing, Loaded, Held, AllLocked, db
<1>10. QED
  BY <1>1, <1>2, <1>3, <1>4, <1>5, <1>8, <1>9 DEF Sound

-----------------------------------------------------------------------------
(***************************************************************************)
(* Commits.                                                                *)
(***************************************************************************)

LEMMA CommitIsCall ==
  ASSUME TypeOK, NEW r \in Requests, NEW w, Decided(r, w), Applied(w, ContractOn(r))
  PROVE  [Next]_vars
<1>1. PICK c \in Contracts : c = ContractOn(r)
  BY RequestFacts
<1>2. /\ r.on \in Milestones => c = ContractOf[r.on] /\ r.on \notin Contracts
      /\ r.on \in Contracts => r.on = c
      /\ r.on \in Targets /\ r.type \in RequestTypes
      /\ r.type \in {"submit", "approve", "payout", "sent"} => r.on \in Milestones
      /\ r.type = "resolve" => r.arg \in Percents
      /\ r.type = "webhook" => r.arg \in PaidAmounts[c]
  BY <1>1, RequestFacts
<1>3. c = IF r.on \in Contracts THEN r.on ELSE ContractOf[r.on]
  BY <1>2 DEF Targets
<1>4. Applied(w, c)
  BY <1>1
<1>5. CASE r.type = "fund"
  <2>1. Total(c) \in 1 .. MaxInt /\ FundDecided(c, Total(c), w)
    BY <1>1, <1>5 DEF Decided
  <2>2. Total(c) \in Int
    BY MilestonesOfFinite, AmountSum DEF Total
  <2>3. FundContract(c)
    BY <1>4, <2>1, <2>2, FundApplied DEF FundContract, FundDecided
  <2>4. QED
    BY <2>3 DEF Next
<1>6. CASE r.type = "webhook"
  <2>1. r.arg \in Int /\ r.arg \in PaidAmounts[c]
    BY <1>2, <1>6, InputsAssumption
  <2>2. CASE FundDecided(c, r.arg, w)
    <3>1. ConfirmFunding(c, r.arg)
      BY <1>4, <2>1, <2>2, FundApplied DEF ConfirmFunding, FundDecided
    <3>2. QED
      BY <2>1, <3>1 DEF Next
  <2>3. CASE NothingDecided(w)
    BY <1>4, <2>3, NothingApplied
  <2>4. QED
    BY <1>1, <1>6, <2>2, <2>3 DEF Decided
<1>7. CASE r.type = "submit"
  <2>1. SubmitMilestone(r.on) /\ r.on \in Milestones
    BY <1>2, <1>4, <1>7, SubmitApplied DEF Decided
  <2>2. QED
    BY <2>1 DEF Next
<1>8. CASE r.type = "approve"
  <2>1. ApproveMilestone(r.on) /\ r.on \in Milestones
    BY <1>2, <1>4, <1>8, ApproveApplied DEF Decided
  <2>2. QED
    BY <2>1 DEF Next
<1>9. CASE r.type = "dispute"
  <2>1. DisputeDecided(r.on, c, w)
    BY <1>1, <1>9 DEF Decided
  <2>2. /\ r.on \in Milestones => OpenMilestoneDispute(r.on)
        /\ r.on \in Contracts => OpenContractDispute(r.on)
    BY <1>2, <1>3, <1>4, <2>1, DisputeApplied
  <2>3. QED
    BY <1>2, <2>2 DEF Next, Targets
<1>10. CASE r.type = "resolve"
  <2>1. PICK S : S = RulingOn(r.on)
    OBVIOUS
  <2>2. ResolveDecided(r.on, c, r.arg, S, w)
    BY <1>1, <1>10, <2>1 DEF Decided
  <2>3. /\ r.on \in Milestones => ResolveMilestoneDispute(r.on, r.arg)
        /\ r.on \in Contracts => ResolveContractDispute(r.on, r.arg)
    BY <1>2, <1>3, <1>4, <1>10, <2>2, ResolveApplied
  <2>4. r.arg \in Percents
    BY <1>2, <1>10
  <2>5. QED
    BY <1>2, <2>3, <2>4 DEF Next, Targets
<1>11. CASE r.type = "payout"
  <2>1. r.on \in Milestones /\ PayoutDecided(r.on, ContractOf[r.on], w)
    BY <1>1, <1>2, <1>11 DEF Decided
  <2>2. RequestPayout(r.on)
    BY <1>2, <1>4, <2>1, PayoutApplied
  <2>3. QED
    BY <2>1, <2>2 DEF Next
<1>12. CASE r.type = "sent"
  <2>1. r.on \in Milestones /\ SentDecided(r.on, ContractOf[r.on], w)
    BY <1>1, <1>2, <1>12 DEF Decided
  <2>2. MarkPayoutSent(r.on)
    BY <1>2, <1>4, <2>1, SentApplied
  <2>3. QED
    BY <2>1, <2>2 DEF Next
<1>13. QED
  BY <1>2, <1>5, <1>6, <1>7, <1>8, <1>9, <1>10, <1>11, <1>12 DEF RequestTypes

(***************************************************************************)
(* The rows a decision writes, all of its own contract, and which kinds of *)
(* request write what another request may rely on.                         *)
(***************************************************************************)
WriteScope(r, c, w) ==
  /\ DOMAIN w.contract \subseteq {c}
  /\ \A d \in DOMAIN w.contract : w.contract[d] # "absent"
  /\ contract[c] = "draft" /\ c \in DOMAIN w.contract => r.type \in {"fund", "webhook", "resolve"}
  /\ DOMAIN w.milestone \subseteq MilestonesOf(c)
  /\ \A m \in DOMAIN w.milestone : milestone[m] \in {"pending", "rejected"} =>
       r.type = "resolve" \/ (r.type = "submit" /\ m = r.on)
  /\ DOMAIN w.ruling \subseteq MilestonesOf(c)
  /\ \A t \in DOMAIN w.dispute :
       /\ t = r.on /\ t \in {c} \cup MilestonesOf(c)
       /\ r.type = "resolve" \/ (r.type = "dispute" /\ ~DisputeOpen(c))
  /\ \A m \in DOMAIN w.payout :
       /\ m = r.on /\ m \in MilestonesOf(c)
       /\ r.type = "sent" \/ (r.type = "payout" /\ payout[m].status = "none")

LEMMA DecidedScope ==
  ASSUME NEW r \in Requests, NEW w, Decided(r, w)
  PROVE  WriteScope(r, ContractOn(r), w)
<1>1. PICK c \in Contracts : c = ContractOn(r)
  BY RequestFacts
<1>2. /\ r.on \in Milestones => r.on \in MilestonesOf(c) /\ c = ContractOf[r.on]
      /\ r.on \in Contracts => r.on = c /\ r.on \notin Milestones
      /\ r.on \in Targets /\ r.type \in RequestTypes
      /\ r.type \in {"submit", "approve", "payout", "sent"} => r.on \in Milestones
  BY <1>1, RequestFacts DEF MilestonesOf
<1>3. DOMAIN <<>> = {}
  OBVIOUS
<1>4. /\ DOMAIN Only(c, "active") = {c} /\ Only(c, "active")[c] = "active"
      /\ DOMAIN Only(c, "completed") = {c} /\ Only(c, "completed")[c] = "completed"
      /\ DOMAIN Only(r.on, "disputed") = {r.on} /\ Only(r.on, "disputed")[r.on] = "disputed"
      /\ DOMAIN Only(r.on, "open") = {r.on} /\ DOMAIN Only(r.on, "resolved") = {r.on}
      /\ DOMAIN Only(r.on, "submitted") = {r.on} /\ DOMAIN Only(r.on, "approved") = {r.on}
  BY OnlyFacts
<1>5. ASSUME NEW amount, FundDecided(c, amount, w), r.type \in {"fund", "webhook"}
      PROVE  WriteScope(r, c, w)
  BY <1>3, <1>4, <1>5 DEF FundDecided, Parts, WriteScope
<1>6. CASE r.type = "fund"
  BY <1>1, <1>5, <1>6 DEF Decided
<1>7. CASE r.type = "webhook"
  <2>1. CASE NothingDecided(w)
    BY <1>1, <1>3, <2>1 DEF NothingDecided, Parts, WriteScope
  <2>2. QED
    BY <1>1, <1>5, <1>7, <2>1 DEF Decided
<1>8. CASE r.type = "submit"
  <2>1. SubmitDecided(r.on, w)
    BY <1>8 DEF Decided
  <2>2. QED
    BY <1>1, <1>2, <1>3, <1>4, <1>8, <2>1 DEF SubmitDecided, Parts, WriteScope
<1>9. CASE r.type = "approve"
  <2>1. ApproveDecided(r.on, w) /\ r.on \in MilestonesOf(c) /\ c = ContractOf[r.on]
    BY <1>2, <1>9 DEF Decided
  <2>2. /\ w.milestone = Only(r.on, "approved") /\ w.dispute = <<>> /\ w.ruling = <<>>
        /\ w.payout = <<>> /\ w.contract \in {Only(c, "completed"), <<>>}
        /\ milestone[r.on] = "submitted" /\ contract[c] = "active"
    BY <2>1 DEF ApproveDecided, Parts
  <2>3. QED
    BY <1>1, <1>3, <1>4, <2>1, <2>2 DEF WriteScope
<1>10. CASE r.type = "dispute"
  <2>1. DisputeDecided(r.on, c, w) /\ r.on \in {c} \cup MilestonesOf(c)
    BY <1>1, <1>2, <1>10 DEF Decided, Targets
  <2>2. CASE r.on \in Milestones
    BY <1>1, <1>2, <1>3, <1>4, <1>10, <2>1, <2>2 DEF DisputeDecided, Parts, WriteScope
  <2>3. CASE r.on \notin Milestones
    BY <1>1, <1>2, <1>3, <1>4, <1>10, <2>1, <2>3 DEF DisputeDecided, Parts, WriteScope, Targets
  <2>4. QED
    BY <2>2, <2>3
<1>11. CASE r.type = "resolve"
  <2>1. PICK S : S = RulingOn(r.on)
    OBVIOUS
  <2>2. ResolveDecided(r.on, c, r.arg, S, w) /\ r.on \in {c} \cup MilestonesOf(c)
    BY <1>1, <1>2, <1>11, <2>1 DEF Decided, Targets
  <2>3. S \subseteq MilestonesOf(c)
    BY <1>2, <2>1 DEF RulingOn, Targets
  <2>4. PICK f : f = ShareOf(S, r.arg)
    OBVIOUS
  <2>5. DOMAIN f = S
    BY <2>4 DEF ShareOf
  <2>6. /\ w.milestone = [m \in S |-> "resolved"] /\ w.dispute = Only(r.on, "resolved")
        /\ w.ruling = f /\ w.payout = <<>>
        /\ w.contract \in {Only(c, "completed"), Only(c, "active"), <<>>}
    BY <2>2, <2>4 DEF ResolveDecided, Parts
  <2>7. QED
    BY <1>1, <1>3, <1>4, <1>11, <2>2, <2>3, <2>5, <2>6 DEF WriteScope
<1>12. CASE r.type = "payout"
  <2>1. PayoutDecided(r.on, c, w) /\ r.on \in MilestonesOf(c)
    BY <1>1, <1>2, <1>12 DEF Decided
  <2>2. PICK row : row = [status |-> "pending", amount |-> Payable(r.on)]
    OBVIOUS
  <2>3. /\ w.contract = <<>> /\ w.milestone = <<>> /\ w.dispute = <<>> /\ w.ruling = <<>>
        /\ w.payout = Only(r.on, row) /\ payout[r.on].status = "none"
    BY <2>1, <2>2 DEF PayoutDecided, Parts
  <2>4. DOMAIN Only(r.on, row) = {r.on}
    BY OnlyFacts
  <2>5. QED
    BY <1>1, <1>3, <1>12, <2>1, <2>3, <2>4 DEF WriteScope
<1>13. CASE r.type = "sent"
  <2>1. SentDecided(r.on, c, w) /\ r.on \in MilestonesOf(c)
    BY <1>1, <1>2, <1>13 DEF Decided
  <2>2. PICK row : row = [status |-> "sent", amount |-> payout[r.on].amount]
    OBVIOUS
  <2>3. /\ w.contract = <<>> /\ w.milestone = <<>> /\ w.dispute = <<>> /\ w.ruling = <<>>
        /\ w.payout = Only(r.on, row)
    BY <2>1, <2>2 DEF SentDecided, Parts
  <2>4. DOMAIN Only(r.on, row) = {r.on}
    BY OnlyFacts
  <2>5. QED
    BY <1>1, <1>3, <1>13, <2>1, <2>3, <2>4 DEF WriteScope
<1>14. QED
  <2>1. WriteScope(r, c, w)
    BY <1>1, <1>2, <1>6, <1>7, <1>8, <1>9, <1>10, <1>11, <1>12, <1>13 DEF RequestTypes
  <2>2. QED
    BY <1>1, <2>1

\* What the tables hold after a commit.
LEMMA AppliedEffect ==
  ASSUME TypeOK, NEW c \in Contracts, NEW w, Applied(w, c)
  PROVE  /\ \A d \in Contracts :
              contract'[d] = IF d \in DOMAIN w.contract THEN w.contract[d] ELSE contract[d]
         /\ \A m \in Milestones :
              /\ m \notin DOMAIN w.milestone => milestone'[m] = milestone[m]
              /\ m \notin DOMAIN w.ruling => ruling'[m] = ruling[m]
              /\ m \notin DOMAIN w.payout => payout'[m] = payout[m]
         /\ \A t \in Targets : t \notin DOMAIN w.dispute => dispute'[t] = dispute[t]
         /\ \A d \in Contracts \ {c} : ledger'[d] = ledger[d]
BY DEF TypeOK, Applied, Written

LEMMA OtherContractKept ==
  ASSUME TypeOK, NEW c \in Contracts, NEW d \in Contracts, c # d,
         NEW r, NEW w, WriteScope(r, c, w), Applied(w, c)
  PROVE  SameOn(d)
<1>1. /\ MilestonesOf(d) \cap MilestonesOf(c) = {}
      /\ MilestonesOf(d) \subseteq Milestones
      /\ {d} \cup MilestonesOf(d) \subseteq Targets
      /\ ({d} \cup MilestonesOf(d)) \cap ({c} \cup MilestonesOf(c)) = {}
  BY ContractsAssumption DEF MilestonesOf, Targets
<1>2. /\ d \notin DOMAIN w.contract
      /\ \A m \in MilestonesOf(d) :
           m \notin DOMAIN w.milestone /\ m \notin DOMAIN w.ruling /\ m \notin DOMAIN w.payout
      /\ \A t \in {d} \cup MilestonesOf(d) : t \notin DOMAIN w.dispute
  BY <1>1 DEF WriteScope
<1>3. QED
  BY <1>1, <1>2, AppliedEffect DEF SameOn

\* A ruling on a whole contract leaves none of its milestones open.
LEMMA RulingCompletes ==
  ASSUME StatusInv, NEW c \in Contracts, dispute[c] = "open"
  PROVE  OthersSettled(c, {m \in MilestonesOf(c) : milestone[m] \in Unsettled})
<1>1. contract[c] = "disputed"
  BY DEF StatusInv, DisputesCoherent
<1>2. ASSUME NEW m \in MilestonesOf(c), milestone[m] \notin Unsettled
      PROVE  milestone[m] \in Settled
  <2>1. m \in Milestones /\ m # c
    BY ContractsAssumption DEF MilestonesOf
  <2>2. milestone[m] # "absent"
    BY <1>1 DEF StatusInv, CompletedIffSettled
  <2>3. milestone[m] # "disputed"
    BY <2>1 DEF StatusInv, DisputesCoherent
  <2>4. milestone[m] \in MilestoneStatus
    BY <2>1 DEF StatusInv, TypeOK
  <2>5. QED
    BY <1>2, <2>2, <2>3, <2>4 DEF MilestoneStatus, Unsettled, Settled
<1>3. QED
  BY <1>2 DEF OthersSettled

(***************************************************************************)
(* A submission that waits for the contract: a milestone it saw open is    *)
(* still as it was, or a ruling has closed the contract.                   *)
(***************************************************************************)
LEMMA SubmitWaits ==
  ASSUME StatusInv, NEW r \in Requests, NEW w, Decided(r, w),
         NEW c, c = ContractOn(r), Applied(w, c),
         NEW m \in MilestonesOf(c), milestone[m] \in {"pending", "rejected"},
         ~(r.type = "submit" /\ r.on = m)
  PROVE  milestone'[m] = milestone[m] \/ contract'[c] = "completed"
<1>1. /\ c \in Contracts /\ m \in Milestones /\ TypeOK
      /\ r.on \in Contracts => r.on = c /\ r.on \notin Milestones
      /\ r.on \in Targets
  BY RequestFacts DEF MilestonesOf, StatusInv
<1>2. CASE m \notin DOMAIN w.milestone
  BY <1>1, <1>2, AppliedEffect
<1>3. CASE m \in DOMAIN w.milestone
  <2>1. r.type = "resolve"
    BY <1>3, DecidedScope DEF WriteScope
  <2>2. PICK S : S = RulingOn(r.on)
    OBVIOUS
  <2>3. ResolveDecided(r.on, c, r.arg, S, w)
    BY <2>1, <2>2 DEF Decided
  <2>4. /\ w.milestone = [n \in S |-> "resolved"] /\ dispute[r.on] = "open"
        /\ OthersSettled(c, S) => w.contract = Only(c, "completed")
    BY <2>3 DEF ResolveDecided, Parts
  <2>5. m \in S
    BY <1>3, <2>4
  <2>6. r.on \notin Milestones
    <3>1. SUFFICES ASSUME r.on \in Milestones PROVE FALSE
      OBVIOUS
    <3>2. m = r.on
      BY <2>2, <2>5, <3>1 DEF RulingOn
    <3>3. milestone[m] = "disputed"
      BY <1>1, <2>4, <3>2 DEF StatusInv, DisputesCoherent
    <3>4. QED
      BY <3>3
  <2>7. r.on = c /\ S = {n \in MilestonesOf(c) : milestone[n] \in Unsettled}
    BY <1>1, <2>2, <2>6 DEF RulingOn, Targets
  <2>8. OthersSettled(c, S)
    BY <1>1, <2>4, <2>7, RulingCompletes
  <2>9. DOMAIN Only(c, "completed") = {c} /\ Only(c, "completed")[c] = "completed"
    BY OnlyFacts
  <2>10. QED
    BY <1>1, <2>4, <2>8, <2>9, AppliedEffect
<1>4. QED
  BY <1>2, <1>3

\* A contract that a webhook saw unfunded is funded by nobody but its rivals.
LEMMA WebhookWaits ==
  ASSUME StatusInv, NEW r \in Requests, NEW w, Decided(r, w),
         NEW c, c = ContractOn(r), Applied(w, c), contract[c] = "draft",
         r.type \notin {"fund", "webhook"}
  PROVE  contract'[c] = "draft"
<1>1. /\ c \in Contracts /\ TypeOK
      /\ r.on \in Contracts => r.on = c
      /\ r.on \in Milestones => r.on \in MilestonesOf(c)
      /\ r.on \in Targets
  BY RequestFacts DEF MilestonesOf, StatusInv
<1>2. CASE c \notin DOMAIN w.contract
  BY <1>1, <1>2, AppliedEffect
<1>3. CASE c \in DOMAIN w.contract
  <2>1. r.type = "resolve"
    BY <1>3, DecidedScope DEF WriteScope
  <2>2. dispute[r.on] = "open"
    BY <2>1 DEF Decided, ResolveDecided
  <2>3. r.on \in Contracts => contract[c] = "disputed"
    BY <1>1, <2>2 DEF StatusInv, DisputesCoherent
  <2>4. r.on \in Milestones => milestone[r.on] = "disputed" /\ milestone[r.on] = "pending"
    BY <1>1, <2>2 DEF StatusInv, DisputesCoherent, CompletedIffSettled
  <2>5. QED
    BY <1>1, <2>3, <2>4 DEF Targets
<1>4. QED
  BY <1>2, <1>3

LEMMA CommitFacts ==
  ASSUME TxInv, NEW s \in Slots, Commit(s)
  PROVE  /\ pc[s] = "writing" /\ Active(s) /\ AllLocked(s) /\ req[s] \in Requests
         /\ Decided(req[s], writes[s])
         /\ Applied(writes[s], ContractOn(req[s]))
         /\ Close({s}) /\ loop' \in [Processes -> Slots \cup {None}]
         /\ [Next]_vars
<1> USE DEF TxInv, LockInv, TxTypeInv
<1>1. pc[s] = "writing" /\ Active(s) /\ AllLocked(s) /\ req[s] \in Requests
  BY DEF Commit, Active, WritesTyped, SlotTypes
<1>2. Decided(req[s], writes[s])
  BY <1>1 DEF Sound
<1>3. Applied(writes[s], ContractOn(req[s])) /\ Close({s})
  BY DEF Commit, Applied
<1>4. loop' \in [Processes -> Slots \cup {None}]
  BY LeaveLoopType DEF Commit, SlotTypes
<1>5. PICK r \in Requests : r = req[s]
  BY <1>1
<1>6. PICK w : w = writes[s]
  OBVIOUS
<1>7. Decided(r, w) /\ Applied(w, ContractOn(r))
  BY <1>2, <1>3, <1>5, <1>6
<1>8. [Next]_vars
  BY <1>7, CommitIsCall
<1>9. QED
  BY <1>1, <1>2, <1>3, <1>4, <1>8

\* Sessions that are closed, and the others.
LEMMA Closed ==
  ASSUME TxInv, NEW S, Close(S), loop' \in [Processes -> Slots \cup {None}], NEW t \in Slots
  PROVE  IF t \in S
           THEN pc'[t] = "idle"
           ELSE /\ req'[t] = req[t] /\ pc'[t] = pc[t] /\ locks'[t] = locks[t]
                /\ view'[t] = view[t] /\ writes'[t] = writes[t]
<1>1. SlotTypes
  BY DEF TxInv, LockInv, TxTypeInv
<1>2. /\ \A u \in Slots \ S : /\ req'[u] = req[u] /\ pc'[u] = pc[u] /\ locks'[u] = locks[u]
                             /\ view'[u] = view[u] /\ writes'[u] = writes[u]
      /\ \A u \in Slots \cap S : pc'[u] = "idle" /\ req'[u] = None /\ locks'[u] = 0
  BY <1>1, CloseTypes
<1>3. QED
  BY <1>2

\* A request that waits for the contract that is being committed.
LEMMA WaiterSound ==
  ASSUME TxInv, NEW s \in Slots, Commit(s), NEW t \in Slots, t # s, Active(t),
         ContractOn(req[t]) = ContractOn(req[s])
  PROVE  Sound(t)'
<1> USE DEF TxInv, LockInv, TxTypeInv
<1>1. PICK r \in Requests : r = req[s]
  BY CommitFacts
<1>2. PICK w : w = writes[s]
  OBVIOUS
<1>3. PICK q \in Requests : q = req[t]
  BY DEF SlotTypes
<1>4. PICK c \in Contracts : c = ContractOn(r) /\ c = ContractOn(q)
  BY <1>1, <1>3, RequestFacts
<1>5. PICK v : v = view[t]
  OBVIOUS
<1>6. PICK n \in Nat : n = locks[t]
  BY DEF SlotTypes
<1>7. Decided(r, w) /\ Applied(w, c) /\ WriteScope(r, c, w)
  BY <1>1, <1>2, <1>4, CommitFacts, DecidedScope
<1>8. /\ req'[t] = q /\ pc'[t] = pc[t] /\ locks'[t] = n /\ view'[t] = v /\ writes'[t] = writes[t]
  <2>1. Close({s}) /\ loop' \in [Processes -> Slots \cup {None}] /\ t \notin {s}
    BY CommitFacts
  <2>2. QED
    BY <1>3, <1>5, <1>6, <2>1, Closed
<1>9. ContractRow(c) \in Held(s) /\ Held(s) \cap Held(t) = {}
  BY <1>1, <1>4, CommitFacts, HeldFacts DEF Exclusive
<1>10. ~AllLocked(t) /\ pc[t] # "writing"
  BY <1>3, <1>4, <1>9, HeldFacts DEF WritesTyped
<1>11. /\ q.on \in Milestones => q.on \in MilestonesOf(c)
       /\ q.on \in {c} \cup MilestonesOf(c) /\ q.on \in Targets
       /\ q.type \in {"submit", "approve", "payout", "sent"} => q.on \in Milestones
  BY <1>4, RequestFacts DEF MilestonesOf, Targets
<1>12. Existing(t)' /\ Loaded(t)'
  <2>1. Existing(t) /\ Loaded(t)
    BY DEF Sound
  <2>2. contract'[c] # "absent"
    BY <1>3, <1>4, <1>7, <2>1, AppliedEffect DEF Existing, WriteScope
  <2>3. req'[t] = req[t] /\ locks'[t] = locks[t] /\ view'[t] = view[t]
    BY <1>3, <1>5, <1>6, <1>8
  <2>4. Loaded(t)'
    BY <2>1, <2>3 DEF Loaded, Held, AllLocked
  <2>5. Existing(t)'
    BY <1>4, <1>8, <2>2 DEF Existing
  <2>6. QED
    BY <2>4, <2>5
<1>13. ASSUME pc[t] = "running" PROVE Trusted(q, v, n)'
  <2>0. Trusted(q, v, n)
    BY <1>3, <1>5, <1>6, <1>13 DEF Sound
  <2>1. n # Len(LockPlan(q))
    BY <1>3, <1>6, <1>10 DEF AllLocked
  <2>2. q.type = "approve" /\ n > 0 => milestone'[q.on] = milestone[q.on]
    <3>1. SUFFICES ASSUME q.type = "approve", n > 0, q.on \in DOMAIN w.milestone PROVE FALSE
      BY <1>4, <1>7, <1>11, AppliedEffect
    <3>2. MilestoneRow(q.on) \in Held(t)
      BY <1>3, <1>6, <3>1, PlanFacts, HeldFacts
    <3>3. MilestoneRow(q.on) \in Wanted(s)
      BY <1>2, <3>1, CommitFacts DEF Wanted, Touched
    <3>4. BlockedBy(s) = {}
      BY DEF Commit
    <3>5. QED
      BY <3>2, <3>3, <3>4 DEF BlockedBy
  <2>3. q.type = "resolve" /\ n > 0 => dispute'[q.on] = dispute[q.on]
    <3>1. SUFFICES ASSUME q.type = "resolve", n > 0, q.on \in DOMAIN w.dispute PROVE FALSE
      BY <1>4, <1>7, <1>11, AppliedEffect
    <3>2. DisputeRow(q.on) \in Held(t)
      BY <1>3, <1>6, <3>1, PlanFacts, HeldFacts
    <3>3. dispute[q.on] = "open"
      BY <2>0, <3>1 DEF Trusted
    <3>4. q.on = r.on /\ r.type = "resolve"
      BY <1>7, <1>11, <3>1, <3>3 DEF WriteScope, DisputeOpen
    <3>5. DisputeRow(r.on) \in Held(s)
      <4>1. Len(LockPlan(r)) = 2 /\ LockPlan(r)[1] = DisputeRow(r.on)
        BY <3>4, PlanFacts
      <4>2. locks[s] = 2
        BY <1>1, <4>1, CommitFacts DEF AllLocked
      <4>3. QED
        BY <1>1, <4>1, <4>2, HeldFacts
    <3>6. QED
      BY <1>9, <3>2, <3>4, <3>5
  <2>4. q.type = "sent" /\ n > 0 => payout'[q.on] = payout[q.on]
    <3>1. SUFFICES ASSUME q.type = "sent", n > 0, q.on \in DOMAIN w.payout PROVE FALSE
      BY <1>4, <1>7, <1>11, AppliedEffect
    <3>2. PayoutRow(q.on) \in Held(t)
      BY <1>3, <1>6, <3>1, PlanFacts, HeldFacts
    <3>3. payout[q.on].status = "pending"
      BY <2>0, <3>1 DEF Trusted
    <3>4. q.on = r.on /\ r.type = "sent"
      BY <1>7, <3>1, <3>3 DEF WriteScope
    <3>5. PayoutRow(r.on) \in Held(s)
      <4>1. Len(LockPlan(r)) = 2 /\ LockPlan(r)[1] = PayoutRow(r.on)
        BY <3>4, PlanFacts
      <4>2. locks[s] = 2
        BY <1>1, <4>1, CommitFacts DEF AllLocked
      <4>3. QED
        BY <1>1, <4>1, <4>2, HeldFacts
    <3>6. QED
      BY <1>9, <3>2, <3>4, <3>5
  <2>5. ~Rivals(q, r)
    BY <1>1, <1>3, CommitFacts DEF NoRivals
  <2>6. q.type = "submit" /\ v[MilestoneRow(q.on)] \in {"pending", "rejected"} =>
          milestone'[q.on] = v[MilestoneRow(q.on)] \/ contract'[c] = "completed"
    <3>1. SUFFICES ASSUME q.type = "submit", v[MilestoneRow(q.on)] \in {"pending", "rejected"}
                   PROVE  milestone'[q.on] = v[MilestoneRow(q.on)] \/ contract'[c] = "completed"
      OBVIOUS
    <3>2. milestone[q.on] = v[MilestoneRow(q.on)] \/ contract[c] = "completed"
      BY <1>4, <2>0, <3>1 DEF Trusted
    <3>3. contract[c] = "completed" => contract'[c] = "completed"
      BY CommitFacts, NextKeepsCompleted DEF CompletedKept
    <3>4. ~(r.type = "submit" /\ r.on = q.on) /\ q.on \in MilestonesOf(c)
      BY <1>11, <2>5, <3>1 DEF Rivals
    <3>5. milestone[q.on] \in {"pending", "rejected"} =>
            milestone'[q.on] = milestone[q.on] \/ contract'[c] = "completed"
      BY <1>4, <1>7, <3>4, SubmitWaits
    <3>6. QED
      BY <3>1, <3>2, <3>3, <3>5
  <2>7. q.type = "payout" /\ v[MilestoneRow(q.on)] \in Settled =>
          milestone'[q.on] = v[MilestoneRow(q.on)]
    BY <1>11, <2>0, CommitFacts, NextKeepsMilestones DEF Trusted, MilestonesKept
  <2>8. q.type = "webhook" /\ v[ContractRow(c)] = "draft" => contract'[c] = "draft"
    <3>1. SUFFICES ASSUME q.type = "webhook", v[ContractRow(c)] = "draft"
                   PROVE  contract'[c] = "draft"
      OBVIOUS
    <3>2. contract[c] = "draft"
      BY <1>4, <2>0, <3>1 DEF Trusted
    <3>3. r.type \notin {"fund", "webhook"}
      <4>1. SUFFICES ASSUME r.type \in {"fund", "webhook"} PROVE FALSE
        OBVIOUS
      <4>2. r.on = c /\ q.on = c
        BY <1>4, <3>1, <4>1, RequestFacts
      <4>3. QED
        BY <2>5, <3>1, <4>1, <4>2 DEF Rivals
    <3>4. QED
      BY <1>4, <1>7, <3>2, <3>3, WebhookWaits
  <2>9. QED
    BY <1>4, <2>0, <2>1, <2>2, <2>3, <2>4, <2>6, <2>7, <2>8 DEF Trusted
<1>14. QED
  BY <1>8, <1>10, <1>12, <1>13 DEF Sound

LEMMA CommitSound ==
  ASSUME TxInv, NEW s \in Slots, Commit(s), NEW t \in Slots
  PROVE  Sound(t)'
<1> USE DEF TxInv, LockInv, TxTypeInv
<1>1. /\ t = s => pc'[t] = "idle"
      /\ t # s => /\ req'[t] = req[t] /\ pc'[t] = pc[t] /\ locks'[t] = locks[t]
                  /\ view'[t] = view[t] /\ writes'[t] = writes[t]
  <2>1. Close({s}) /\ loop' \in [Processes -> Slots \cup {None}]
    BY CommitFacts
  <2>2. QED
    BY <2>1, Closed
<1>2. CASE t = s
  BY <1>1, <1>2 DEF Sound, Active
<1>3. CASE t # s /\ Active(t) /\ ContractOn(req[t]) = ContractOn(req[s])
  BY <1>3, WaiterSound
<1>4. CASE t # s /\ Active(t) /\ ContractOn(req[t]) # ContractOn(req[s])
  <2>1. PICK r \in Requests : r = req[s]
    BY CommitFacts
  <2>2. PICK w : w = writes[s]
    OBVIOUS
  <2>3. ContractOn(r) \in Contracts /\ ContractOn(req[t]) \in Contracts
    BY <1>4, RequestFacts DEF SlotTypes
  <2>4. PICK d \in Contracts : d = ContractOn(req[t])
    BY <2>3
  <2>5. WriteScope(r, ContractOn(r), w) /\ Applied(w, ContractOn(r))
    BY <2>1, <2>2, CommitFacts, DecidedScope
  <2>6. SameOn(d)
    BY <1>4, <2>1, <2>3, <2>4, <2>5, OtherContractKept
  <2>7. QED
    BY <1>1, <1>4, <2>4, <2>6, SoundKept
<1>5. CASE t # s /\ ~Active(t)
  BY <1>1, <1>5, SoundKept
<1>6. QED
  BY <1>2, <1>3, <1>4, <1>5

-----------------------------------------------------------------------------
(***************************************************************************)
(* Every step, and with it the theorem.                                    *)
(***************************************************************************)

\* Requests that go on, or end, where no new one begins.
LEMMA NoRivalsKept ==
  ASSUME NoRivals, \A t \in Slots : Active(t)' => Active(t) /\ req'[t] = req[t]
  PROVE  NoRivals'
BY DEF NoRivals, Rivals

\* A request that stands still while another one takes a step on its own.
LEMMA BystanderSound ==
  ASSUME TxInv, UNCHANGED db, NEW t \in Slots,
         req'[t] = req[t], pc'[t] = pc[t], locks'[t] = locks[t], view'[t] = view[t],
         writes'[t] = writes[t]
  PROVE  Sound(t)'
<1>1. SlotTypes /\ Sound(t)
  BY DEF TxInv, LockInv, TxTypeInv
<1>2. SameOn(ContractOn(req[t]))
  BY DataKept
<1>3. QED
  BY <1>1, <1>2, SoundKept

\* Sessions that are closed without a commit.
LEMMA CloseSound ==
  ASSUME TxInv, NEW S, Close(S), loop' \in [Processes -> Slots \cup {None}], UNCHANGED db
  PROVE  NoRivals' /\ \A t \in Slots : Sound(t)'
<1>1. SlotTypes /\ NoRivals /\ \A t \in Slots : Sound(t)
  BY DEF TxInv, LockInv, TxTypeInv
<1>2. ASSUME NEW t \in Slots, t \in S PROVE pc'[t] = "idle"
  BY <1>2, Closed
<1>3. ASSUME NEW t \in Slots, t \notin S
      PROVE  /\ req'[t] = req[t] /\ pc'[t] = pc[t] /\ locks'[t] = locks[t]
             /\ view'[t] = view[t] /\ writes'[t] = writes[t]
  BY <1>3, Closed
<1>4. ASSUME NEW t \in Slots PROVE Sound(t)'
  <2>1. CASE t \in S
    BY <1>1, <1>2, <2>1, SoundOver
  <2>2. CASE t \notin S
    BY <1>3, <2>2, BystanderSound
  <2>3. QED
    BY <2>1, <2>2
<1>5. \A t \in Slots : Active(t)' => Active(t) /\ req'[t] = req[t]
  BY <1>2, <1>3 DEF Active
<1>6. QED
  BY <1>1, <1>4, <1>5, NoRivalsKept

LEMMA CreateSound ==
  ASSUME TxInv, NEW c \in Contracts, Create(c)
  PROVE  NoRivals' /\ \A t \in Slots : Sound(t)'
<1>1. UNCHANGED <<req, pc, locks, view, writes, loop>> /\ CreateContract(c)
  BY DEF Create, session
<1>2. NoRivals'
  BY <1>1, NoRivalsKept DEF TxInv, Active
<1>3. ASSUME NEW t \in Slots PROVE Sound(t)'
  <2>1. SlotTypes /\ Sound(t) /\ TypeOK
    BY DEF TxInv, LockInv, TxTypeInv
  <2>2. ASSUME Active(t) PROVE SameOn(ContractOn(req[t]))
    <3>1. PICK d \in Contracts : d = ContractOn(req[t])
      BY <2>1, <2>2, RequestFacts DEF SlotTypes
    <3>2. contract[d] # "absent" /\ contract[c] = "absent"
      BY <1>1, <2>1, <2>2, <3>1 DEF Sound, Existing, CreateContract
    <3>3. contract'[d] = contract[d] /\ \A m \in MilestonesOf(d) : milestone'[m] = milestone[m]
      BY <1>1, <2>1, <3>2 DEF CreateContract, TypeOK, MilestonesOf
    <3>4. SameOn(d)
      BY <1>1, <3>3 DEF CreateContract, SameOn
    <3>5. QED
      BY <3>1, <3>4
  <2>3. QED
    BY <1>1, <2>1, <2>2, SoundKept
<1>4. QED
  BY <1>2, <1>3

LEMMA BeginKeeps ==
  ASSUME TxInv, Overlaps = {}, NEW s \in Slots, NEW r \in Requests, Begin(s, r)
  PROVE  NoRivals' /\ \A t \in Slots : Sound(t)'
<1>1. SlotTypes /\ NoRivals
  BY DEF TxInv, LockInv, TxTypeInv
<1>2. /\ req'[s] = r /\ Apart(r) /\ UNCHANGED db
      /\ \A t \in Slots \ {s} : /\ req'[t] = req[t] /\ pc'[t] = pc[t] /\ locks'[t] = locks[t]
                                /\ view'[t] = view[t] /\ writes'[t] = writes[t]
  BY <1>1 DEF Begin, SlotTypes
<1>3. ASSUME NEW t \in Slots \ {s}, Active(t)
      PROVE  ~Rivals(r, req[t]) /\ ~Rivals(req[t], r)
  BY <1>1, <1>2, <1>3, NobodyAssumption DEF Apart, SlotTypes
<1>4. ASSUME NEW t \in Slots, NEW u \in Slots, t # u, Active(t)', Active(u)'
      PROVE  ~Rivals(req'[t], req'[u])
  <2>1. CASE t = s
    BY <1>2, <1>3, <1>4, <2>1 DEF Active
  <2>2. CASE u = s
    BY <1>2, <1>3, <1>4, <2>2 DEF Active
  <2>3. CASE t # s /\ u # s
    BY <1>1, <1>2, <1>4, <2>3 DEF Active, NoRivals
  <2>4. QED
    BY <2>1, <2>2, <2>3
<1>5. NoRivals'
  BY <1>4 DEF NoRivals, Rivals
<1>6. ASSUME NEW t \in Slots PROVE Sound(t)'
  <2>1. CASE t = s
    BY <2>1, BeginSound
  <2>2. CASE t # s
    BY <1>2, <2>2, BystanderSound
  <2>3. QED
    BY <2>1, <2>2
<1>7. QED
  BY <1>5, <1>6

\* The steps of a request, its end included.
LEMMA StepSound ==
  ASSUME TxInv, NEW s \in Slots, Step(s)
  PROVE  NoRivals' /\ (\A t \in Slots : Sound(t)') /\ [Next]_vars
<1>1. SlotTypes /\ NoRivals /\ Sound(s)
  BY DEF TxInv, LockInv, TxTypeInv
<1>2. UNCHANGED db => [Next]_vars
  BY DEF db, vars
<1>3. CASE Lock(s) \/ Decide(s) \/ Refuse(s)
  <2>1. /\ UNCHANGED db /\ UNCHANGED req /\ Active(s)
        /\ \A t \in Slots \ {s} : /\ pc'[t] = pc[t] /\ locks'[t] = locks[t]
                                  /\ view'[t] = view[t] /\ writes'[t] = writes[t]
    BY <1>1, <1>3 DEF Lock, Decide, Refuse, SlotTypes, Active
  <2>2. NoRivals'
    BY <1>1, <2>1, NoRivalsKept DEF Active
  <2>3. Refuse(s) => Sound(s)'
    BY <1>1, <2>1, SoundOver DEF Refuse, SlotTypes
  <2>4. Sound(s)'
    BY <1>3, <2>3, LockSound, DecideSound
  <2>5. ASSUME NEW t \in Slots PROVE Sound(t)'
    BY <2>1, <2>4, BystanderSound
  <2>6. QED
    BY <1>2, <2>1, <2>2, <2>5
<1>4. CASE Cleanup(s)
  <2>1. Close({s}) /\ loop' \in [Processes -> Slots \cup {None}] /\ UNCHANGED db
    BY <1>1, <1>4 DEF Cleanup, SlotTypes
  <2>2. QED
    BY <1>2, <2>1, CloseSound
<1>5. CASE Commit(s)
  <2>1. Close({s}) /\ loop' \in [Processes -> Slots \cup {None}] /\ [Next]_vars
    BY <1>5, CommitFacts
  <2>2. ASSUME NEW t \in Slots PROVE Active(t)' => Active(t) /\ req'[t] = req[t]
    BY <2>1, Closed DEF Active
  <2>3. QED
    BY <1>1, <1>5, <2>1, <2>2, CommitSound, NoRivalsKept
<1>6. QED
  BY <1>3, <1>4, <1>5 DEF Step

LEMMA NextTx ==
  ASSUME Overlaps = {}
  PROVE  TxInv /\ [TxNext]_txvars => TxInv' /\ [Next]_vars
<1> SUFFICES ASSUME TxInv, [TxNext]_txvars PROVE TxInv' /\ [Next]_vars
  OBVIOUS
<1>1. LockInv' /\ SlotTypes
  BY NextLocks DEF TxInv, LockInv, TxTypeInv
<1>2. UNCHANGED db => [Next]_vars
  BY DEF db, vars
<1>3. NoRivals' /\ (\A t \in Slots : Sound(t)') /\ [Next]_vars
  <2>1. ASSUME NEW c \in Contracts, Create(c)
        PROVE  NoRivals' /\ (\A t \in Slots : Sound(t)') /\ [Next]_vars
    <3>1. [Next]_vars
      BY <2>1 DEF Create, Next
    <3>2. QED
      BY <2>1, <3>1, CreateSound
  <2>2. ASSUME NEW s \in Slots, NEW r \in Requests, Begin(s, r)
        PROVE  NoRivals' /\ (\A t \in Slots : Sound(t)') /\ [Next]_vars
    <3>1. UNCHANGED db
      BY <2>2 DEF Begin
    <3>2. QED
      BY <1>2, <2>2, <3>1, BeginKeeps
  <2>3. ASSUME NEW s \in Slots, Step(s)
        PROVE  NoRivals' /\ (\A t \in Slots : Sound(t)') /\ [Next]_vars
    BY <2>3, StepSound
  <2>4. ASSUME NEW s \in Slots, DeadlockAbort(s)
        PROVE  NoRivals' /\ (\A t \in Slots : Sound(t)') /\ [Next]_vars
    <3>1. Close({s}) /\ loop' \in [Processes -> Slots \cup {None}] /\ UNCHANGED db
      BY <1>1, <2>4, LeaveLoopType DEF DeadlockAbort, SlotTypes
    <3>2. QED
      BY <1>2, <3>1, CloseSound
  <2>5. ASSUME NEW p \in Processes, Crash(p)
        PROVE  NoRivals' /\ (\A t \in Slots : Sound(t)') /\ [Next]_vars
    <3>1. PICK S : Close(S) /\ UNCHANGED db
      BY <2>5 DEF Crash
    <3>2. loop' \in [Processes -> Slots \cup {None}]
      BY <1>1, <2>5 DEF Crash, SlotTypes
    <3>3. QED
      BY <1>2, <3>1, <3>2, CloseSound
  <2>6. CASE UNCHANGED txvars
    <3>1. UNCHANGED db /\ UNCHANGED <<req, pc, locks, view, writes, loop>>
      BY <2>6 DEF txvars, session
    <3>2. NoRivals'
      BY <3>1, NoRivalsKept DEF TxInv, Active
    <3>3. QED
      BY <1>2, <3>1, <3>2, BystanderSound
  <2>7. QED
    BY <2>1, <2>2, <2>3, <2>4, <2>5, <2>6 DEF TxNext
<1>4. StatusInv'
  BY <1>3, NextStatus DEF TxInv
<1>5. QED
  BY <1>1, <1>3, <1>4 DEF TxInv

LEMMA InitTx == TxInit => TxInv
<1> SUFFICES ASSUME TxInit PROVE TxInv
  OBVIOUS
<1>1. LockInv /\ StatusInv
  BY InitLocks, InitStatus DEF TxInit
<1>2. \A s \in Slots : pc[s] = "idle"
  BY DEF TxInit
<1>3. NoRivals /\ \A s \in Slots : Sound(s)
  BY <1>2 DEF NoRivals, Sound, Active
<1>4. QED
  BY <1>1, <1>3 DEF TxInv

LEMMA TxInvariant ==
  ASSUME Overlaps = {}
  PROVE  TxSpec => []TxInv
<1>1. TxInv /\ [TxNext]_txvars => TxInv'
  BY NextTx
<1>2. QED
  BY <1>1, InitTx, PTL DEF TxSpec

(***************************************************************************)
(* Requests that overlap have the effect of service calls made one after   *)
(* another, whatever their number, their processes and their crashes: the  *)
(* row locks of the money path make every commit one call of Escrow.  It   *)
(* is so as long as two submissions of a milestone, or two fundings of a   *)
(* contract of which one is a webhook, do not overlap.                     *)
(***************************************************************************)
THEOREM OverlapsSerialize ==
  ASSUME Overlaps = {}
  PROVE  TxSpec => OneAtATime
<1>1. TxInit => Init
  BY DEF TxInit
<1>2. TxInv /\ [TxNext]_txvars => [Next]_vars
  BY NextTx
<1>3. QED
  BY <1>1, <1>2, TxInvariant, PTL DEF TxSpec, OneAtATime, Spec

-----------------------------------------------------------------------------
(***************************************************************************)
(* What follows for the money, from what is proved of the calls one by     *)
(* one.                                                                    *)
(***************************************************************************)

(***************************************************************************)
(* Every ledger is balanced, the freelancer has been credited what was     *)
(* awarded, the pending payouts are covered and the disputes coherent,     *)
(* also when requests overlap and processes die.                           *)
(***************************************************************************)
THEOREM OverlapsKeepMoney ==
  ASSUME Overlaps = {}
  PROVE  TxSpec => [](LedgerBalanced /\ FreelancerOwed /\ PayoutsCovered /\ DisputesCoherent)
BY OverlapsSerialize, MoneyConserved, FreelancerCreditedOnce, PayoutsCorrect, DisputesCorrect,
   PTL DEF OneAtATime

(***************************************************************************)
(* With payments of exactly the total, escrow holds what the open          *)
(* milestones are worth and every dispute can be ruled on, also when       *)
(* requests overlap and processes die.                                     *)
(***************************************************************************)
THEOREM OverlapsKeepEscrow ==
  ASSUME Overlaps = {}, ExactPayments
  PROVE  TxSpec => [](EscrowCoversUnsettled /\ RulingAlwaysPossible)
BY OverlapsSerialize, EscrowExact, RulingNeverBlocked, PTL DEF OneAtATime

\* A ruling awards no more than the milestone is worth.
RulingsBounded == \A m \in Milestones : ruling[m] <= Amount[m]

LEMMA NextRulings == RulingsBounded /\ [Next]_vars => RulingsBounded'
<1> SUFFICES ASSUME RulingsBounded, [Next]_vars PROVE RulingsBounded'
  OBVIOUS
<1>1. ASSUME NEW c, NEW S, NEW p \in Percents, Settle(c, S, p) PROVE RulingsBounded'
  <2>1. \A m \in Milestones : FreelancerShare(m, p) <= Amount[m]
    <3>1. ASSUME NEW m \in Milestones PROVE FreelancerShare(m, p) <= Amount[m]
      <4>1. PICK x \in Nat : x = FreelancerShare(m, p)
        BY SharesType
      <4>2. PICK y \in Nat : y = ClientShare(m, p)
        BY SharesType
      <4>3. Amount[m] = x + y
        BY <4>1, <4>2, SharesType
      <4>4. QED
        BY <4>1, <4>3
    <3>2. QED
      BY <3>1
  <2>2. QED
    BY <1>1, <2>1 DEF Settle, RulingsBounded
<1>2. UNCHANGED ruling => RulingsBounded'
  BY DEF RulingsBounded
<1>3. QED
  BY <1>1, <1>2
     DEF Next, vars, CreateContract, FundContract, ConfirmFunding, OpenContractDispute,
         ResolveContractDispute, SubmitMilestone, ApproveMilestone, OpenMilestoneDispute,
         ResolveMilestoneDispute, RequestPayout, MarkPayoutSent

LEMMA InitRulings == Init => RulingsBounded
BY MilestonesAssumption DEF Init, RulingsBounded

\* The freelancer has been awarded no more than the settled milestones are worth.
LEMMA AwardsBounded ==
  ASSUME TypeOK, FreelancerOwed, RulingsBounded, NEW c \in Contracts,
         NEW S, S = {m \in MilestonesOf(c) : milestone[m] \in Settled}
  PROVE  ledger[c]["freelancer"] + ledger[c]["payout"] <= Sum(Amount, S)
<1>1. PICK M : M = MilestonesOf(c) /\ M \subseteq Milestones /\ IsFiniteSet(M)
  BY MilestonesOfFinite
<1>2. PICK P : P = PayableOf
  OBVIOUS
<1>3. \A m \in Milestones : P[m] = Payable(m) /\ P[m] \in Nat
  BY <1>2, PayableType
<1>4. \A m \in S : P[m] \in Nat /\ Amount[m] \in Nat /\ P[m] <= Amount[m]
  BY <1>1, <1>3, MilestonesAssumption DEF Payable, RulingsBounded
<1>5. \A m \in M \ S : P[m] = 0
  BY <1>1, <1>3 DEF Payable, Settled
<1>6. S \subseteq M /\ IsFiniteSet(S)
  BY <1>1, FS_Subset
<1>7. Sum(P, M) = Sum(P, S) + Sum(P, M \ S)
  BY <1>1, <1>3, <1>6, SumSubset
<1>8. Sum(P, M \ S) = 0
  BY <1>5, SumZero
<1>9. Sum(P, S) <= Sum(Amount, S) /\ Sum(P, S) \in Nat
  BY <1>4, <1>6, SumAtMost, SumType
<1>10. ledger[c]["freelancer"] + ledger[c]["payout"] = Sum(P, M)
  BY <1>1, <1>2 DEF FreelancerOwed
<1>11. QED
  BY <1>7, <1>8, <1>9, <1>10

LEMMA AwardsHandedIn == TypeOK /\ FreelancerOwed /\ RulingsBounded => NeverPaidTwice
<1> SUFFICES ASSUME TypeOK, FreelancerOwed, RulingsBounded, NEW c \in Contracts
             PROVE  ledger[c]["freelancer"] + ledger[c]["payout"]
                      <= Sum(Amount, {m \in MilestonesOf(c) : milestone[m] # "pending"})
  BY DEF NeverPaidTwice
<1>1. PICK S : S = {m \in MilestonesOf(c) : milestone[m] \in Settled}
  OBVIOUS
<1>2. PICK T : T = {m \in MilestonesOf(c) : milestone[m] # "pending"}
  OBVIOUS
<1>3. S \subseteq T /\ T \subseteq Milestones /\ IsFiniteSet(T)
  <2>1. S \subseteq T /\ T \subseteq MilestonesOf(c)
    BY <1>1, <1>2 DEF Settled
  <2>2. QED
    BY <2>1, MilestonesOfFinite, FS_Subset
<1>4. Sum(Amount, T) = Sum(Amount, S) + Sum(Amount, T \ S)
  BY <1>3, SumSubset, MilestonesAssumption
<1>5. Sum(Amount, S) \in Nat /\ Sum(Amount, T \ S) \in Nat
  <2>1. S \subseteq Milestones /\ T \ S \subseteq Milestones
    BY <1>3
  <2>2. QED
    BY <2>1, AmountSum
<1>6. ledger[c]["freelancer"] + ledger[c]["payout"] <= Sum(Amount, S)
  BY <1>1, AwardsBounded
<1>7. ledger[c]["freelancer"] + ledger[c]["payout"] \in Int
  BY DEF TypeOK, Accounts
<1>8. QED
  BY <1>2, <1>4, <1>5, <1>6, <1>7

(***************************************************************************)
(* No milestone is paid for twice, however approvals, rulings and payouts  *)
(* overlap: what the freelancer has and has had never exceeds the worth of *)
(* what was handed in.                                                     *)
(***************************************************************************)
THEOREM PaidOnce ==
  ASSUME Overlaps = {}
  PROVE  TxSpec => []NeverPaidTwice
<1>1. Spec => []RulingsBounded
  BY InitRulings, NextRulings, PTL DEF Spec
<1>2. QED
  BY <1>1, OverlapsSerialize, TypeCorrect, FreelancerCreditedOnce, AwardsHandedIn, PTL
     DEF OneAtATime

\* What the client was charged and not given back is in the other accounts.
LEMMA ChargeCovered ==
  EscrowInv /\ LedgerBalanced /\ FreelancerOwed /\ RulingsBounded => ChargedOnce
<1> SUFFICES ASSUME EscrowInv, LedgerBalanced, FreelancerOwed, RulingsBounded,
                    NEW c \in Contracts
             PROVE  ledger[c]["client"] >= -Total(c)
  BY DEF ChargedOnce
<1>1. TypeOK
  BY DEF EscrowInv, StatusInv
<1>2. PICK M : M = MilestonesOf(c) /\ M \subseteq Milestones /\ IsFiniteSet(M)
  BY MilestonesOfFinite
<1>3. PICK S : S = {m \in MilestonesOf(c) : milestone[m] \in Settled}
  OBVIOUS
<1>4. PICK O : O = M \ S
  OBVIOUS
<1>5. O = {m \in MilestonesOf(c) : milestone[m] \notin Settled}
  BY <1>2, <1>3, <1>4
<1>6. Total(c) = Sum(Amount, S) + Sum(Amount, O)
  <2>1. S \subseteq M
    BY <1>2, <1>3
  <2>2. QED
    BY <1>2, <1>4, <2>1, SumSubset, MilestonesAssumption DEF Total
<1>7. Sum(Amount, S) \in Nat /\ Sum(Amount, O) \in Nat
  <2>1. S \subseteq Milestones /\ O \subseteq Milestones
    BY <1>2, <1>3, <1>4
  <2>2. QED
    BY <2>1, AmountSum
<1>8. ledger[c]["escrow"] <= Sum(Amount, O)
  BY <1>5, <1>7 DEF EscrowInv, EscrowEmptyUnfunded, EscrowCoversUnsettled
<1>9. ledger[c]["freelancer"] + ledger[c]["payout"] <= Sum(Amount, S)
  BY <1>1, <1>3, AwardsBounded
<1>10. \A a \in Accounts : ledger[c][a] \in Int
  BY <1>1 DEF TypeOK
<1>11. ledger[c]["client"] + ledger[c]["escrow"] + ledger[c]["freelancer"]
         + ledger[c]["payout"] = 0
  BY DEF LedgerBalanced
<1>12. QED
  BY <1>6, <1>7, <1>8, <1>9, <1>10, <1>11 DEF Accounts

(***************************************************************************)
(* The client is charged at most once for a contract, where every payment  *)
(* event is for exactly its total.                                         *)
(***************************************************************************)
THEOREM ChargedAtMostOnce ==
  ASSUME Overlaps = {}, ExactPayments
  PROVE  TxSpec => []ChargedOnce
<1>1. Spec => []RulingsBounded
  BY InitRulings, NextRulings, PTL DEF Spec
<1>2. QED
  BY <1>1, OverlapsSerialize, EscrowInvariant, MoneyConserved, FreelancerCreditedOnce,
     ChargeCovered, PTL DEF OneAtATime

-----------------------------------------------------------------------------
(***************************************************************************)
(* What holds of the books whichever requests race: they balance, and      *)
(* neither escrow nor the freelancer's account is overdrawn by a milestone *)
(* that is approved twice or a contract that is funded twice.  Whoever     *)
(* takes money from an account sums it up under the contract's lock        *)
(* (release_milestone, split_milestone, record_payout) and keeps the lock  *)
(* until the entries are committed, so that nobody else books meanwhile    *)
(* and what is about to be committed stays covered.                        *)
(***************************************************************************)

FreelancerNotOverdrawn == \A c \in Contracts : ledger[c]["freelancer"] >= 0

BooksHold == LedgerBalanced /\ EscrowNotOverdrawn /\ FreelancerNotOverdrawn

Booked(w, c) ==
  /\ w.ledger["client"] + w.ledger["escrow"] + w.ledger["freelancer"] + w.ledger["payout"] = 0
  /\ ledger[c]["escrow"] + w.ledger["escrow"] >= 0
  /\ ledger[c]["freelancer"] + w.ledger["freelancer"] >= 0

WritesBooked == \A s \in Slots : pc[s] = "writing" => Booked(writes[s], ContractOn(req[s]))

BookInv == LockInv /\ BooksHold /\ WritesBooked

\* Entries, account by account.
LEMMA EntryFacts ==
  ASSUME NEW x \in Int, NEW y \in Int
  PROVE  /\ Moved("client", "escrow", x) =
              [a \in Accounts |-> IF a = "client" THEN -x ELSE IF a = "escrow" THEN x ELSE 0]
         /\ Moved("escrow", "freelancer", x) =
              [a \in Accounts |-> IF a = "escrow" THEN -x ELSE IF a = "freelancer" THEN x ELSE 0]
         /\ Moved("freelancer", "payout", x) =
              [a \in Accounts |-> IF a = "freelancer" THEN -x ELSE IF a = "payout" THEN x ELSE 0]
         /\ Split(x, y) =
              [a \in Accounts |-> IF a = "escrow" THEN -x ELSE IF a = "freelancer" THEN y
                                  ELSE IF a = "client" THEN x - y ELSE 0]
BY DEF Moved, Split, Accounts

\* Nothing booked, or something paid in.
LEMMA PaidInBooked ==
  ASSUME TypeOK, BooksHold, NEW c \in Contracts, NEW w, NEW x \in Nat,
         w.ledger = [a \in Accounts |-> 0] \/ w.ledger = Moved("client", "escrow", x)
  PROVE  Booked(w, c)
<1>1. ledger[c]["escrow"] \in Int /\ ledger[c]["freelancer"] \in Int
  BY DEF TypeOK, Accounts
<1>2. ledger[c]["escrow"] >= 0 /\ ledger[c]["freelancer"] >= 0
  BY DEF BooksHold, EscrowNotOverdrawn, FreelancerNotOverdrawn
<1>3. CASE w.ledger = [a \in Accounts |-> 0]
  BY <1>1, <1>2, <1>3 DEF Booked, Accounts
<1>4. CASE w.ledger = Moved("client", "escrow", x)
  <2>1. w.ledger = [a \in Accounts |-> IF a = "client" THEN -x ELSE IF a = "escrow" THEN x ELSE 0]
    BY <1>4, EntryFacts
  <2>2. QED
    BY <1>1, <1>2, <2>1 DEF Booked, Accounts
<1>5. QED
  BY <1>3, <1>4

\* Something taken from an account that covers it.
LEMMA TakenBooked ==
  ASSUME TypeOK, BooksHold, NEW c \in Contracts, NEW w, NEW x \in Nat, NEW y \in Nat,
         \/ w.ledger = Moved("escrow", "freelancer", x) /\ ledger[c]["escrow"] >= x
         \/ w.ledger = Split(x, y) /\ ledger[c]["escrow"] >= x
         \/ w.ledger = Moved("freelancer", "payout", x) /\ ledger[c]["freelancer"] >= x
  PROVE  Booked(w, c)
<1>1. ledger[c]["escrow"] \in Int /\ ledger[c]["freelancer"] \in Int
  BY DEF TypeOK, Accounts
<1>2. ledger[c]["escrow"] >= 0 /\ ledger[c]["freelancer"] >= 0
  BY DEF BooksHold, EscrowNotOverdrawn, FreelancerNotOverdrawn
<1>3. CASE w.ledger = Moved("escrow", "freelancer", x) /\ ledger[c]["escrow"] >= x
  <2>1. w.ledger =
          [a \in Accounts |-> IF a = "escrow" THEN -x ELSE IF a = "freelancer" THEN x ELSE 0]
    BY <1>3, EntryFacts
  <2>2. QED
    BY <1>1, <1>2, <1>3, <2>1 DEF Booked, Accounts
<1>4. CASE w.ledger = Split(x, y) /\ ledger[c]["escrow"] >= x
  <2>1. w.ledger =
          [a \in Accounts |-> IF a = "escrow" THEN -x ELSE IF a = "freelancer" THEN y
                              ELSE IF a = "client" THEN x - y ELSE 0]
    BY <1>4, EntryFacts
  <2>2. QED
    BY <1>1, <1>2, <1>4, <2>1 DEF Booked, Accounts
<1>5. CASE w.ledger = Moved("freelancer", "payout", x) /\ ledger[c]["freelancer"] >= x
  <2>1. w.ledger =
          [a \in Accounts |-> IF a = "freelancer" THEN -x ELSE IF a = "payout" THEN x ELSE 0]
    BY <1>5, EntryFacts
  <2>2. QED
    BY <1>1, <1>2, <1>5, <2>1 DEF Booked, Accounts
<1>6. QED
  BY <1>3, <1>4, <1>5

\* Every call looks at the balance it takes from.
LEMMA DecisionBooked ==
  ASSUME TypeOK, BooksHold, NEW s \in Slots, req[s] \in Requests, May(s)
  PROVE  Booked(WritesOf(s), ContractOn(req[s]))
<1>1. PICK r \in Requests : r = req[s]
  OBVIOUS
<1>2. PICK c \in Contracts : c = ContractOn(r)
  BY RequestFacts
<1>3. PICK v : v = view[s]
  OBVIOUS
<1>4. /\ r.type \in RequestTypes /\ r.on \in Targets
      /\ r.on \in Milestones => c = ContractOf[r.on]
      /\ r.type \in {"submit", "approve", "payout", "sent"} => r.on \in Milestones
  BY <1>2, RequestFacts
<1>5. SUFFICES Booked(WritesOf(s), c)
  BY <1>1, <1>2
<1>6. CASE r.type = "fund"
  <2>1. Total(c) \in Nat
    BY MilestonesOfFinite, AmountSum DEF Total
  <2>2. WritesOf(s) = FundWrites(c, Total(c))
    BY <1>1, <1>2, <1>6 DEF WritesOf
  <2>3. FundWrites(c, Total(c)).ledger = Moved("client", "escrow", Total(c))
    BY FundParts DEF Parts
  <2>4. QED
    BY <2>1, <2>2, <2>3, PaidInBooked
<1>7. CASE r.type = "webhook"
  <2>1. r.arg \in Nat
    BY <1>7, RequestFacts, InputsAssumption
  <2>2. WritesOf(s) = WebhookWrites(v, c, r.arg)
    BY <1>1, <1>2, <1>3, <1>7 DEF WritesOf
  <2>3. /\ FundWrites(c, r.arg).ledger = Moved("client", "escrow", r.arg)
        /\ Nothing.ledger = [a \in Accounts |-> 0]
    BY FundParts, NothingParts DEF Parts
  <2>4. \/ WritesOf(s).ledger = Moved("client", "escrow", r.arg)
        \/ WritesOf(s).ledger = [a \in Accounts |-> 0]
    BY <2>2, <2>3 DEF WebhookWrites
  <2>5. QED
    BY <2>1, <2>4, PaidInBooked
<1>8. CASE r.type = "submit"
  <2>1. WritesOf(s).ledger = [a \in Accounts |-> 0]
    BY <1>1, <1>8, SubmitParts DEF WritesOf, Parts
  <2>2. QED
    BY <2>1, PaidInBooked
<1>9. CASE r.type = "approve"
  <2>1. WritesOf(s) = ApproveWrites(v, r.on) /\ MayApprove(v, r.on)
    BY <1>1, <1>3, <1>9 DEF WritesOf, May
  <2>2. ApproveWrites(v, r.on).ledger = Moved("escrow", "freelancer", Amount[r.on])
    BY ApproveParts DEF Parts
  <2>3. Amount[r.on] \in Nat /\ ledger[c]["escrow"] >= Amount[r.on]
    BY <1>4, <1>9, <2>1, MilestonesAssumption DEF MayApprove
  <2>4. QED
    BY <2>1, <2>2, <2>3, TakenBooked
<1>10. CASE r.type = "dispute"
  <2>1. WritesOf(s) = DisputeWrites(r.on)
    BY <1>1, <1>10 DEF WritesOf
  <2>2. DisputeWrites(r.on).ledger = [a \in Accounts |-> 0]
    BY DisputeParts DEF Parts
  <2>3. QED
    BY <2>1, <2>2, PaidInBooked
<1>11. CASE r.type = "resolve"
  <2>1. WritesOf(s) = ResolveWrites(v, r.on, c, r.arg) /\ MayResolve(v, r.on, c)
    BY <1>1, <1>2, <1>3, <1>11 DEF WritesOf, May
  <2>2. PICK S : S = Ruled(v, r.on)
    OBVIOUS
  <2>3. S \subseteq Milestones
    BY <1>4, <2>2 DEF Ruled, MilestonesOf, Targets
  <2>4. PICK share : share = [m \in S |-> FreelancerShare(m, r.arg)]
    OBVIOUS
  <2>5. r.arg \in Percents
    BY <1>11, RequestFacts
  <2>6. \A m \in S : share[m] \in Nat
    BY <2>3, <2>4, <2>5, SharesType
  <2>7. Sum(share, S) \in Nat /\ Sum(Amount, S) \in Nat
    BY <2>3, <2>6, FinitelyMany, SumType, AmountSum
  <2>8. ResolveWrites(v, r.on, c, r.arg).ledger = Split(Sum(Amount, S), Sum(share, S))
    <3>1. Parts(ResolveWrites(v, r.on, c, r.arg),
                IF Completes(v, c, S) THEN Only(c, "completed")
                  ELSE IF r.on = c THEN Only(c, "active") ELSE <<>>,
                [m \in S |-> "resolved"], Only(r.on, "resolved"), share, <<>>,
                Split(Sum(Amount, S), Sum(share, S)))
      BY <2>2, <2>4, ResolveParts
    <3>2. QED
      BY <3>1 DEF Parts
  <2>9. ledger[c]["escrow"] >= Sum(Amount, S)
    BY <2>1, <2>2 DEF MayResolve
  <2>10. QED
    BY <2>1, <2>7, <2>8, <2>9, TakenBooked
<1>12. CASE r.type = "payout"
  <2>1. WritesOf(s) = PayoutWrites(v, r.on)
    BY <1>1, <1>3, <1>12 DEF WritesOf
  <2>2. PayoutWrites(v, r.on).ledger = [a \in Accounts |-> 0]
    BY PayoutParts DEF Parts
  <2>3. QED
    BY <2>1, <2>2, PaidInBooked
<1>13. CASE r.type = "sent"
  <2>1. WritesOf(s) = SentWrites(r.on) /\ MayMarkSent(v, r.on, c)
    BY <1>1, <1>2, <1>3, <1>13 DEF WritesOf, May
  <2>2. SentWrites(r.on).ledger = Moved("freelancer", "payout", payout[r.on].amount)
    BY SentParts DEF Parts
  <2>3. payout[r.on].amount \in Nat /\ ledger[c]["freelancer"] >= payout[r.on].amount
    BY <1>4, <1>13, <2>1 DEF MayMarkSent, TypeOK
  <2>4. QED
    BY <2>1, <2>2, <2>3, TakenBooked
<1>14. QED
  BY <1>4, <1>6, <1>7, <1>8, <1>9, <1>10, <1>11, <1>12, <1>13 DEF RequestTypes

\* Requests that go on while the ledger stands still.
LEMMA BooksKept ==
  ASSUME BookInv, UNCHANGED ledger,
         \A t \in Slots : pc'[t] = "writing" =>
           pc[t] = "writing" /\ req'[t] = req[t] /\ writes'[t] = writes[t]
  PROVE  BooksHold' /\ WritesBooked'
BY DEF BookInv, BooksHold, EscrowNotOverdrawn, FreelancerNotOverdrawn, LedgerBalanced, WritesBooked, Booked

LEMMA CommitBooks ==
  ASSUME BookInv, NEW s \in Slots, Commit(s)
  PROVE  BooksHold' /\ WritesBooked'
<1> USE DEF BookInv, LockInv, TxTypeInv
<1>1. /\ pc[s] = "writing" /\ Active(s) /\ AllLocked(s) /\ req[s] \in Requests
      /\ Typed(writes[s])
  BY DEF Commit, Active, WritesTyped, SlotTypes
<1>2. PICK c \in Contracts : c = ContractOn(req[s])
  BY <1>1, RequestFacts
<1>3. PICK w : w = writes[s]
  OBVIOUS
<1>4. PICK L : L = w.ledger /\ L \in [Accounts -> Int]
  BY <1>1, <1>3 DEF Typed
<1>5. /\ ledger' = [ledger EXCEPT ![c] = [a \in Accounts |-> ledger[c][a] + L[a]]]
      /\ LeaveLoop(s) /\ Close({s})
  BY <1>2, <1>3, <1>4 DEF Commit
<1>6. /\ L["client"] + L["escrow"] + L["freelancer"] + L["payout"] = 0
      /\ ledger[c]["escrow"] + L["escrow"] >= 0
      /\ ledger[c]["freelancer"] + L["freelancer"] >= 0
  BY <1>1, <1>2, <1>3, <1>4 DEF WritesBooked, Booked
<1>7. /\ \A a \in Accounts : ledger'[c][a] = ledger[c][a] + L[a]
      /\ \A d \in Contracts \ {c} : ledger'[d] = ledger[d]
  BY <1>5 DEF TypeOK
<1>8. \A a \in Accounts : ledger[c][a] \in Int /\ L[a] \in Int
  BY <1>4 DEF TypeOK
<1>9. ledger[c]["client"] + ledger[c]["escrow"] + ledger[c]["freelancer"]
        + ledger[c]["payout"] = 0
  BY DEF BooksHold, EscrowNotOverdrawn, FreelancerNotOverdrawn, LedgerBalanced
<1>10. /\ ledger'[c]["client"] + ledger'[c]["escrow"] + ledger'[c]["freelancer"]
            + ledger'[c]["payout"] = 0
       /\ ledger'[c]["escrow"] >= 0 /\ ledger'[c]["freelancer"] >= 0
  BY <1>6, <1>7, <1>8, <1>9 DEF Accounts
<1>11. BooksHold'
  BY <1>7, <1>10 DEF BooksHold, EscrowNotOverdrawn, FreelancerNotOverdrawn, LedgerBalanced
<1>12. ASSUME NEW t \in Slots, pc'[t] = "writing"
       PROVE  Booked(writes[t], ContractOn(req[t]))'
  <2>1. loop' \in [Processes -> Slots \cup {None}]
    BY <1>5, LeaveLoopType DEF SlotTypes
  <2>2. /\ \A u \in Slots \ {s} : req'[u] = req[u] /\ pc'[u] = pc[u] /\ writes'[u] = writes[u]
        /\ \A u \in Slots \cap {s} : pc'[u] = "idle"
    BY <1>5, <2>1, CloseTypes
  <2>3. t # s /\ req'[t] = req[t] /\ pc[t] = "writing" /\ writes'[t] = writes[t]
    BY <1>12, <2>2
  <2>4. Active(t) /\ AllLocked(t) /\ req[t] \in Requests
    BY <2>3 DEF Active, WritesTyped, SlotTypes
  <2>5. ContractRow(ContractOn(req[t])) \in Held(t) /\ ContractRow(c) \in Held(s)
    BY <1>1, <1>2, <2>4, HeldFacts
  <2>6. ContractOn(req[t]) \in Contracts \ {c}
    BY <2>3, <2>4, <2>5, RequestFacts DEF Exclusive
  <2>7. QED
    BY <1>7, <2>3, <2>6 DEF WritesBooked, Booked
<1>13. QED
  BY <1>11, <1>12 DEF WritesBooked

LEMMA NextBooks == BookInv /\ [TxNext]_txvars => BookInv'
<1> SUFFICES ASSUME BookInv, [TxNext]_txvars PROVE BookInv'
  OBVIOUS
<1>1. LockInv' /\ SlotTypes /\ TypeOK /\ BooksHold
  BY NextLocks DEF BookInv, LockInv, TxTypeInv
<1>2. ASSUME UNCHANGED <<ledger, req, pc, writes>> PROVE BooksHold' /\ WritesBooked'
  BY <1>2, BooksKept
<1>3. ASSUME NEW S, Close(S), UNCHANGED ledger PROVE BooksHold' /\ WritesBooked'
  <2>1. ASSUME NEW t \in Slots, pc'[t] = "writing"
        PROVE  pc[t] = "writing" /\ req'[t] = req[t] /\ writes'[t] = writes[t]
    BY <1>3, <2>1 DEF Close
  <2>2. QED
    BY <1>3, <2>1, BooksKept
<1>4. ASSUME NEW c \in Contracts, Create(c) PROVE BooksHold' /\ WritesBooked'
  BY <1>2, <1>4 DEF Create, CreateContract, session
<1>5. ASSUME NEW s \in Slots, NEW r \in Requests, Begin(s, r)
      PROVE  BooksHold' /\ WritesBooked'
  BY <1>1, <1>5, BooksKept DEF Begin, SlotTypes, db
<1>6. ASSUME NEW s \in Slots, Lock(s) \/ Refuse(s) PROVE BooksHold' /\ WritesBooked'
  BY <1>1, <1>6, BooksKept DEF Lock, Refuse, SlotTypes, db
<1>7. ASSUME NEW s \in Slots, Decide(s) PROVE BooksHold' /\ WritesBooked'
  <2>1. /\ UNCHANGED <<ledger, req>> /\ pc[s] = "running" /\ May(s)
        /\ writes'[s] = WritesOf(s)
        /\ \A t \in Slots \ {s} : pc'[t] = pc[t] /\ writes'[t] = writes[t]
    BY <1>1, <1>7 DEF Decide, SlotTypes, db
  <2>2. PICK w : w = WritesOf(s)
    OBVIOUS
  <2>3. req[s] \in Requests
    BY <1>1, <2>1 DEF SlotTypes, Active
  <2>4. Booked(w, ContractOn(req[s]))
    BY <1>1, <2>1, <2>2, <2>3, DecisionBooked
  <2>5. BooksHold'
    BY <1>1, <2>1 DEF BooksHold, EscrowNotOverdrawn, FreelancerNotOverdrawn, LedgerBalanced
  <2>6. ASSUME NEW t \in Slots, pc'[t] = "writing"
        PROVE  Booked(writes[t], ContractOn(req[t]))'
    <3>1. CASE t = s
      BY <2>1, <2>2, <2>4, <3>1 DEF Booked
    <3>2. CASE t # s
      BY <2>1, <2>6, <3>2 DEF BookInv, WritesBooked, Booked
    <3>3. QED
      BY <3>1, <3>2
  <2>7. QED
    BY <2>5, <2>6 DEF WritesBooked
<1>8. ASSUME NEW s \in Slots, Commit(s) PROVE BooksHold' /\ WritesBooked'
  BY <1>8, CommitBooks
<1>9. ASSUME NEW s \in Slots, Cleanup(s) \/ DeadlockAbort(s) PROVE BooksHold' /\ WritesBooked'
  BY <1>3, <1>9 DEF Cleanup, DeadlockAbort, db
<1>10. ASSUME NEW p \in Processes, Crash(p) PROVE BooksHold' /\ WritesBooked'
  BY <1>3, <1>10 DEF Crash, db
<1>11. ASSUME UNCHANGED txvars PROVE BooksHold' /\ WritesBooked'
  BY <1>2, <1>11 DEF txvars, db, session
<1>12. BooksHold' /\ WritesBooked'
  BY <1>4, <1>5, <1>6, <1>7, <1>8, <1>9, <1>10, <1>11 DEF TxNext, Step
<1>13. QED
  BY <1>1, <1>12 DEF BookInv

(***************************************************************************)
(* The books balance and no account is overdrawn, whatever requests race,  *)
(* for any number of them: also those races that approve a milestone twice *)
(* or fund a contract twice cannot take from escrow what is not there.     *)
(***************************************************************************)
THEOREM BooksAlwaysHold ==
  TxSpec => [](LedgerBalanced /\ EscrowNotOverdrawn /\ FreelancerNotOverdrawn)
<1>1. TxInit => BookInv
  <2> SUFFICES ASSUME TxInit PROVE BookInv
    OBVIOUS
  <2>1. LockInv
    BY InitLocks
  <2>2. BooksHold
    BY DEF TxInit, Init, BooksHold, EscrowNotOverdrawn, FreelancerNotOverdrawn, LedgerBalanced, Accounts
  <2>3. WritesBooked
    BY DEF TxInit, WritesBooked
  <2>4. QED
    BY <2>1, <2>2, <2>3 DEF BookInv
<1>2. BookInv => LedgerBalanced /\ EscrowNotOverdrawn /\ FreelancerNotOverdrawn
  BY DEF BookInv, BooksHold
<1>3. QED
  BY <1>1, <1>2, NextBooks, PTL DEF TxSpec

=============================================================================
