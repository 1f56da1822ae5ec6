------------------------------ MODULE EscrowTx ------------------------------
(***************************************************************************)
(* The service calls of Escrow as database transactions that overlap.      *)
(*                                                                         *)
(* A request runs in one SQLAlchemy session: it reads rows, takes row      *)
(* locks (SELECT ... FOR UPDATE) in the order its service function does,   *)
(* decides, writes, and commits.  Four things outside the service code     *)
(* decide what an overlap can do, and are modelled here:                   *)
(*   - READ COMMITTED: a statement sees the latest commits, and a lock     *)
(*     that was waited for returns the committed row;                      *)
(*   - the session's identity map: the first load of a row is what the     *)
(*     session goes on seeing; selecting the row again FOR UPDATE locks it *)
(*     and does not refresh the object;                                    *)
(*   - Postgres breaks a cycle of lock waits by aborting one transaction;  *)
(*   - a route declared async runs on the event loop of its process and    *)
(*     blocks it; a request that was refused keeps its row locks until the *)
(*     loop gets to close its session.                                     *)
(***************************************************************************)
EXTENDS Escrow, Sequences

CONSTANTS
  Slots,          \* requests that can be in progress at a time
  Processes,      \* server processes
  ProcessOf,      \* the process that serves a slot
  Overlaps,       \* request types that may overlap their rivals
  None            \* no request, nobody

ASSUME SlotsAssumption ==
  /\ ProcessOf \in [Slots -> Processes]
  /\ Overlaps \subseteq {"submit", "webhook"}
  /\ None \notin Slots

VARIABLES
  req,            \* the request of a slot
  pc,             \* how far it has come
  locks,          \* how many rows of its lock plan it holds
  view,           \* its session's identity map: row -> status first loaded
  writes,         \* what it has decided to write
  loop            \* the request that runs on the event loop of a process

db == <<contract, milestone, ledger, dispute, ruling, payout>>
session == <<req, pc, locks, view, writes>>
txvars == <<db, session, loop>>

-----------------------------------------------------------------------------
(***************************************************************************)
(* Requests.  "on" is the contract or milestone, "arg" the percentage of a *)
(* ruling or the amount of a payment event.                                *)
(***************************************************************************)
Request(type, on, arg) == [type |-> type, on |-> on, arg |-> arg]

Requests ==
  {Request("fund", c, 0) : c \in Contracts}
    \cup (UNION {{Request("webhook", c, a) : a \in PaidAmounts[c]} : c \in Contracts})
    \cup {Request(t, m, 0) : t \in {"submit", "approve", "payout", "sent"}, m \in Milestones}
    \cup {Request("dispute", t, 0) : t \in Targets}
    \cup {Request("resolve", t, p) : t \in Targets, p \in Percents}

ASSUME NobodyAssumption == None \notin Requests

ContractOn(r) == IF r.on \in Contracts THEN r.on ELSE ContractOf[r.on]

(***************************************************************************)
(* The routes declared async that call their service function directly.    *)
(* The others are run in a thread of the pool.                             *)
(***************************************************************************)
OnLoop == {"fund", "webhook", "dispute", "resolve", "payout", "sent"}

(***************************************************************************)
(* Rows, and the status a SELECT finds in them.                            *)
(***************************************************************************)
ContractRow(c) == <<"contract", c>>
MilestoneRow(m) == <<"milestone", m>>
DisputeRow(t) == <<"dispute", t>>
PayoutRow(m) == <<"payout", m>>

Rows == {ContractRow(c) : c \in Contracts} \cup {MilestoneRow(m) : m \in Milestones}
          \cup {DisputeRow(t) : t \in Targets} \cup {PayoutRow(m) : m \in Milestones}

Status(row) ==
  CASE row[1] = "contract" -> contract[row[2]]
    [] row[1] = "milestone" -> milestone[row[2]]
    [] row[1] = "dispute" -> dispute[row[2]]
    [] row[1] = "payout" -> payout[row[2]].status

\* Loads rows into an identity map: what it has already loaded stays.
Load(map, rows) ==
  [row \in DOMAIN map \cup rows |-> IF row \in DOMAIN map THEN map[row] ELSE Status(row)]

\* Faulty: submission locks the milestone first, as approval does.
LockPlanMilestoneFirst(r) ==
  LET C == ContractRow(ContractOn(r)) IN
  CASE r.type \in {"fund", "webhook", "dispute", "payout"} -> <<C>>
    [] r.type \in {"approve", "submit"} -> <<MilestoneRow(r.on), C>>
    [] r.type = "resolve" -> <<DisputeRow(r.on), C>>
    [] r.type = "sent" -> <<PayoutRow(r.on), C>>

(***************************************************************************)
(* The rows a request locks, in order, and those it loads before the first *)
(* lock and while it holds only the first.                                 *)
(***************************************************************************)
LockPlan(r) ==
  LET C == ContractRow(ContractOn(r)) IN
  CASE r.type \in {"fund", "webhook", "submit", "dispute", "payout"} -> <<C>>
    [] r.type = "approve" -> <<MilestoneRow(r.on), C>>
    [] r.type = "resolve" -> <<DisputeRow(r.on), C>>
    [] r.type = "sent" -> <<PayoutRow(r.on), C>>

\* Faulty: approval reads the milestone before it locks it.
UnlockedApproval(r) ==
  CASE r.type \in {"submit", "payout", "approve"} -> {MilestoneRow(r.on)}
    [] r.type = "webhook" -> {ContractRow(r.on)}
    [] OTHER -> {}

\* Faulty: approval reads the contract before it locks it.
UnlockedContract(r) ==
  CASE r.type \in {"submit", "payout"} -> {MilestoneRow(r.on)}
    [] r.type \in {"webhook", "approve"} -> {ContractRow(ContractOn(r))}
    [] OTHER -> {}

\* Faulty: funding reads the contract before it locks it.
UnlockedFunding(r) ==
  CASE r.type \in {"submit", "payout"} -> {MilestoneRow(r.on)}
    [] r.type \in {"webhook", "fund"} -> {ContractRow(r.on)}
    [] OTHER -> {}

UnlockedReads(r) ==
  CASE r.type \in {"submit", "payout"} -> {MilestoneRow(r.on)}
    [] r.type = "webhook" -> {ContractRow(r.on)}
    [] OTHER -> {}

\* resolve_dispute loads the contract and the milestone with the dispute.
ReadsWith(row, r) ==
  IF row = DisputeRow(r.on)
    THEN {row, ContractRow(ContractOn(r))}
           \cup {MilestoneRow(m) : m \in Milestones \cap {r.on}}
    ELSE {row}

\* The row is there: otherwise the answer is 404 and nothing is locked.
Exists(r) ==
  /\ contract[ContractOn(r)] # "absent"
  /\ r.type = "resolve" => dispute[r.on] # "none"
  /\ r.type = "sent" => payout[r.on].status # "none"

(***************************************************************************)
(* Requests whose first read the code does not protect from each other.    *)
(***************************************************************************)
Rivals(r, q) ==
  \/ r.type = "submit" /\ q.type = "submit" /\ r.on = q.on
  \/ r.type = "webhook" /\ q.type \in {"webhook", "fund"} /\ r.on = q.on

Apart(r) ==
  \A t \in Slots : req[t] # None =>
    /\ Rivals(r, req[t]) => r.type \in Overlaps
    /\ Rivals(req[t], r) => req[t].type \in Overlaps

-----------------------------------------------------------------------------
(***************************************************************************)
(* Locks and waits.                                                        *)
(***************************************************************************)
Active(s) == pc[s] # "idle"
Held(s) == {LockPlan(req[s])[i] : i \in 1 .. locks[s]}
AllLocked(s) == locks[s] = Len(LockPlan(req[s]))

\* The rows of milestones that the writes update, or that a new payout
\* refers to: the flush waits for whoever has locked them.
Touched(s) ==
  {MilestoneRow(m) : m \in DOMAIN writes[s].milestone}
    \cup {MilestoneRow(m) : m \in {n \in DOMAIN writes[s].payout : payout[n].status = "none"}}

Wanted(s) ==
  CASE pc[s] = "running" /\ ~AllLocked(s) -> {LockPlan(req[s])[locks[s] + 1]}
    [] pc[s] = "writing" -> Touched(s)
    [] OTHER -> {}

BlockedBy(s) == {t \in Slots \ {s} : Active(t) /\ Wanted(s) \cap Held(t) # {}}

\* None of S can go on before another one of S; a cycle has nobody in it who
\* merely waits behind the others.
Stuck(S) == S # {} /\ \A s \in S : BlockedBy(s) \cap S # {}
LockCycle(S) == Stuck(S) /\ \A T \in SUBSET S : Stuck(T) => T = S

\* A refused request waits for the loop, which may be blocked itself.
LoopBlocks(s) ==
  IF pc[s] = "refused" THEN {loop[ProcessOf[s]]} \ {None} ELSE {}

Hung ==
  \E S \in SUBSET {s \in Slots : Active(s)} :
    /\ S # {}
    /\ \A s \in S : (BlockedBy(s) \cup LoopBlocks(s)) \cap S # {}
    /\ ~ \E T \in SUBSET S : Stuck(T)

-----------------------------------------------------------------------------
(***************************************************************************)
(* What a request decides when it holds all its locks: May... are the      *)
(* conditions, ...Writes what it then writes.  v is its identity map; what *)
(* it does not take from v it gets from a fresh statement (a sum, a query  *)
(* on a status).                                                           *)
(***************************************************************************)
Only(row, value) == [x \in {row} |-> value]

Nothing ==
  [contract |-> <<>>, milestone |-> <<>>, dispute |-> <<>>, ruling |-> <<>>,
   payout |-> <<>>, ledger |-> [a \in Accounts |-> 0]]

Moved(from, to, amount) ==
  [[a \in Accounts |-> 0] EXCEPT ![from] = -amount, ![to] = amount]

\* complete_contract_if_all_milestones_approved, after the milestones of S
\* were settled in this session.
Completes(v, c, S) ==
  \A m \in MilestonesOf(c) \ S : Load(v, {MilestoneRow(m)})[MilestoneRow(m)] \in Settled

MayFund(v, c) == v[ContractRow(c)] = "draft" /\ Total(c) \in 1 .. MaxInt
FundWrites(c, amount) ==
  [Nothing EXCEPT !.contract = Only(c, "active"), !.ledger = Moved("client", "escrow", amount)]

\* confirm_funding does nothing on a contract that it sees funded.
WebhookWrites(v, c, amount) ==
  IF v[ContractRow(c)] = "draft" THEN FundWrites(c, amount) ELSE Nothing

\* Faulty: does not look at the milestone's status.
MaySubmitAnyStatus(v, m) == v[ContractRow(ContractOf[m])] = "active"

MaySubmit(v, m) ==
  /\ v[ContractRow(ContractOf[m])] = "active"
  /\ v[MilestoneRow(m)] \in {"pending", "rejected"}
SubmitWrites(m) == [Nothing EXCEPT !.milestone = Only(m, "submitted")]

MayApprove(v, m) ==
  /\ v[ContractRow(ContractOf[m])] = "active"
  /\ v[MilestoneRow(m)] = "submitted"
  /\ ledger[ContractOf[m]]["escrow"] >= Amount[m]
ApproveWrites(v, m) ==
  [Nothing EXCEPT
     !.milestone = Only(m, "approved"),
     !.ledger = Moved("escrow", "freelancer", Amount[m]),
     !.contract = IF Completes(v, ContractOf[m], {m})
                    THEN Only(ContractOf[m], "completed") ELSE <<>>]

MayDispute(v, t, c) ==
  /\ ~DisputeOpen(c)
  /\ IF t \in Milestones THEN milestone[t] = "submitted"
                         ELSE v[ContractRow(t)] = "active"
DisputeWrites(t) ==
  IF t \in Milestones
    THEN [Nothing EXCEPT !.dispute = Only(t, "open"), !.milestone = Only(t, "disputed")]
    ELSE [Nothing EXCEPT !.dispute = Only(t, "open"), !.contract = Only(t, "disputed")]

\* The milestones a ruling splits.
Ruled(v, t) ==
  IF t \in Milestones THEN {t}
    ELSE {m \in MilestonesOf(t) : Load(v, {MilestoneRow(m)})[MilestoneRow(m)] \in Unsettled}
MayResolve(v, t, c) ==
  /\ v[DisputeRow(t)] = "open"
  /\ Ruled(v, t) # {}
  /\ ledger[c]["escrow"] >= Sum(Amount, Ruled(v, t))
ResolveWrites(v, t, c, p) ==
  LET S == Ruled(v, t)
      share == [m \in S |-> FreelancerShare(m, p)] IN
  [Nothing EXCEPT
     !.dispute = Only(t, "resolved"),
     !.milestone = [m \in S |-> "resolved"],
     !.ruling = share,
     !.ledger = [Moved("escrow", "freelancer", Sum(share, S)) EXCEPT
                   !["escrow"] = -Sum(Amount, S),
                   !["client"] = Sum(Amount, S) - Sum(share, S)],
     !.contract = IF Completes(v, c, S) THEN Only(c, "completed")
                  ELSE IF t = c THEN Only(c, "active") ELSE <<>>]

\* _payable_amount: of a milestone that is not settled there is nothing.
Owed(v, m) ==
  CASE v[MilestoneRow(m)] = "approved" -> Amount[m]
    [] v[MilestoneRow(m)] = "resolved" -> ruling[m]
    [] OTHER -> 0
MayRequestPayout(v, m, c) ==
  /\ Owed(v, m) > 0
  /\ payout[m].status = "none"
  /\ ledger[c]["freelancer"] - PayoutSum(c, "pending") >= Owed(v, m)
PayoutWrites(v, m) ==
  [Nothing EXCEPT !.payout = Only(m, [status |-> "pending", amount |-> Owed(v, m)])]

MayMarkSent(v, m, c) ==
  /\ v[PayoutRow(m)] = "pending"
  /\ ledger[c]["freelancer"] >= payout[m].amount
SentWrites(m) ==
  [Nothing EXCEPT
     !.payout = Only(m, [status |-> "sent", amount |-> payout[m].amount]),
     !.ledger = Moved("freelancer", "payout", payout[m].amount)]

-----------------------------------------------------------------------------

TxInit ==
  /\ Init
  /\ req = [s \in Slots |-> None]
  /\ pc = [s \in Slots |-> "idle"]
  /\ locks = [s \in Slots |-> 0]
  /\ view = [s \in Slots |-> <<>>]
  /\ writes = [s \in Slots |-> Nothing]
  /\ loop = [p \in Processes |-> None]

\* Faulty: the handler never gives the loop back.
KeepLoop(s) == UNCHANGED loop
LeaveLoop(s) == loop' = [p \in Processes |-> IF loop[p] = s THEN None ELSE loop[p]]

\* Faulty: keeps the locks.
CloseKeepingLocks(S) ==
  /\ req' = [s \in Slots |-> IF s \in S THEN None ELSE req[s]]
  /\ pc' = [s \in Slots |-> IF s \in S THEN "idle" ELSE pc[s]]
  /\ view' = [s \in Slots |-> IF s \in S THEN <<>> ELSE view[s]]
  /\ writes' = [s \in Slots |-> IF s \in S THEN Nothing ELSE writes[s]]
  /\ UNCHANGED locks

\* The sessions of S are closed, their transactions over, their locks free.
Close(S) ==
  /\ req' = [s \in Slots |-> IF s \in S THEN None ELSE req[s]]
  /\ pc' = [s \in Slots |-> IF s \in S THEN "idle" ELSE pc[s]]
  /\ locks' = [s \in Slots |-> IF s \in S THEN 0 ELSE locks[s]]
  /\ view' = [s \in Slots |-> IF s \in S THEN <<>> ELSE view[s]]
  /\ writes' = [s \in Slots |-> IF s \in S THEN Nothing ELSE writes[s]]

\* A new contract and its milestones are rows nobody can have locked.
Create(c) == CreateContract(c) /\ UNCHANGED <<session, loop>>

Begin(s, r) ==
  /\ pc[s] = "idle"
  /\ Exists(r)
  /\ Apart(r)
  /\ IF r.type \in OnLoop
       THEN /\ loop[ProcessOf[s]] = None
            /\ loop' = [loop EXCEPT ![ProcessOf[s]] = s]
       ELSE UNCHANGED loop
  /\ req' = [req EXCEPT ![s] = r]
  /\ pc' = [pc EXCEPT ![s] = "running"]
  /\ view' = [view EXCEPT ![s] = Load(<<>>, UnlockedReads(r))]
  /\ UNCHANGED <<db, locks, writes>>

(***************************************************************************)
(* The next FOR UPDATE, once nobody else holds the row.  A dispute or a    *)
(* payout that is no longer open ends the request there.                   *)
(***************************************************************************)
Lock(s) ==
  /\ pc[s] = "running"
  /\ ~AllLocked(s)
  /\ BlockedBy(s) = {}
  /\ LET r == req[s]
         row == LockPlan(r)[locks[s] + 1]
         over == \/ row = DisputeRow(r.on) /\ dispute[r.on] # "open"
                 \/ row = PayoutRow(r.on) /\ payout[r.on].status # "pending" IN
     /\ locks' = [locks EXCEPT ![s] = @ + 1]
     /\ view' = [view EXCEPT ![s] = Load(@, ReadsWith(row, r))]
     /\ pc' = [pc EXCEPT ![s] = IF over THEN "refused" ELSE @]
     /\ IF over THEN LeaveLoop(s) ELSE UNCHANGED loop
  /\ UNCHANGED <<db, req, writes>>

\* Conditions and writes of the request of s, as it sees the data.
May(s) ==
  LET r == req[s]
      c == ContractOn(r) IN
  CASE r.type = "fund" -> MayFund(view[s], c)
    [] r.type = "webhook" -> TRUE
    [] r.type = "submit" -> MaySubmit(view[s], r.on)
    [] r.type = "approve" -> MayApprove(view[s], r.on)
    [] r.type = "dispute" -> MayDispute(view[s], r.on, c)
    [] r.type = "resolve" -> MayResolve(view[s], r.on, c)
    [] r.type = "payout" -> MayRequestPayout(view[s], r.on, c)
    [] r.type = "sent" -> MayMarkSent(view[s], r.on, c)

WritesOf(s) ==
  LET r == req[s]
      c == ContractOn(r) IN
  CASE r.type = "fund" -> FundWrites(c, Total(c))
    [] r.type = "webhook" -> WebhookWrites(view[s], c, r.arg)
    [] r.type = "submit" -> SubmitWrites(r.on)
    [] r.type = "approve" -> ApproveWrites(view[s], r.on)
    [] r.type = "dispute" -> DisputeWrites(r.on)
    [] r.type = "resolve" -> ResolveWrites(view[s], r.on, c, r.arg)
    [] r.type = "payout" -> PayoutWrites(view[s], r.on)
    [] r.type = "sent" -> SentWrites(r.on)

Decide(s) ==
  /\ pc[s] = "running"
  /\ AllLocked(s)
  /\ May(s)
  /\ writes' = [writes EXCEPT ![s] = WritesOf(s)]
  /\ pc' = [pc EXCEPT ![s] = "writing"]
  /\ UNCHANGED <<db, req, locks, view, loop>>

(***************************************************************************)
(* A service exception.  Nothing has been written, but the session and its *)
(* row locks live on until the dependency that opened it is unwound.       *)
(***************************************************************************)
Refuse(s) ==
  /\ pc[s] = "running"
  /\ AllLocked(s)
  /\ ~May(s)
  /\ pc' = [pc EXCEPT ![s] = "refused"]
  /\ LeaveLoop(s)
  /\ UNCHANGED <<db, req, locks, view, writes>>

\* The unwinding is scheduled by the event loop.
Cleanup(s) ==
  /\ pc[s] = "refused"
  /\ loop[ProcessOf[s]] = None
  /\ Close({s})
  /\ UNCHANGED <<db, loop>>

\* A table after the rows that were written.
Written(rows, table) ==
  [x \in DOMAIN table |-> IF x \in DOMAIN rows THEN rows[x] ELSE table[x]]

\* The flush, once nobody else holds a row it touches, and the commit.
Commit(s) ==
  /\ pc[s] = "writing"
  /\ BlockedBy(s) = {}
  /\ LET w == writes[s]
         c == ContractOn(req[s]) IN
     /\ contract' = Written(w.contract, contract)
     /\ milestone' = Written(w.milestone, milestone)
     /\ dispute' = Written(w.dispute, dispute)
     /\ ruling' = Written(w.ruling, ruling)
     /\ payout' = Written(w.payout, payout)
     /\ ledger' = [ledger EXCEPT ![c] = [a \in Accounts |-> ledger[c][a] + w.ledger[a]]]
  /\ LeaveLoop(s)
  /\ Close({s})

\* Postgres aborts one transaction of a cycle, whichever notices first; its
\* locks are free at once.
DeadlockAbort(s) ==
  /\ \E S \in SUBSET {t \in Slots : Active(t)} : s \in S /\ LockCycle(S)
  /\ LeaveLoop(s)
  /\ Close({s})
  /\ UNCHANGED db

\* A process dies: its connections drop and Postgres rolls back.
Crash(p) ==
  LET S == {s \in Slots : ProcessOf[s] = p /\ Active(s)} IN
  /\ S # {}
  /\ Close(S)
  /\ loop' = [loop EXCEPT ![p] = None]
  /\ UNCHANGED db

Step(s) == Lock(s) \/ Decide(s) \/ Refuse(s) \/ Cleanup(s) \/ Commit(s)

TxNext ==
  \/ \E c \in Contracts : Create(c)
  \/ \E s \in Slots, r \in Requests : Begin(s, r)
  \/ \E s \in Slots : Step(s) \/ DeadlockAbort(s)
  \/ \E p \in Processes : Crash(p)

(***************************************************************************)
(* A lock wait queue is first come first served, so a lock, and a flush    *)
(* that waits for one, is not passed over for ever; nor is a callback of   *)
(* the event loop.  Postgres breaks every cycle.  Nobody is obliged to     *)
(* send a request and no process is obliged to die.                        *)
(***************************************************************************)
TxFairness ==
  /\ \A s \in Slots : SF_txvars(Step(s))
  /\ WF_txvars(\E s \in Slots : DeadlockAbort(s))

TxSpec == TxInit /\ [][TxNext]_txvars /\ TxFairness

-----------------------------------------------------------------------------
(***************************************************************************)
(* Properties.                                                             *)
(***************************************************************************)

TxTypeOK ==
  /\ TypeOK
  /\ \A s \in Slots :
       /\ pc[s] \in {"idle", "running", "writing", "refused"}
       /\ IF Active(s) THEN req[s] \in Requests /\ locks[s] \in 0 .. Len(LockPlan(req[s]))
                       ELSE req[s] = None /\ locks[s] = 0
       /\ DOMAIN view[s] \subseteq Rows
  /\ loop \in [Processes -> Slots \cup {None}]

(***************************************************************************)
(* Overlapping requests have the effect of the same calls made one after   *)
(* another: every commit is one step of Escrow, and nothing else changes   *)
(* the data (the row locks of every service function of the money path).   *)
(***************************************************************************)
OneAtATime == Spec

(***************************************************************************)
(* The freelancer is never paid more than what has been handed in is       *)
(* worth, so no milestone is paid for twice (README.md, "Idempotency").    *)
(***************************************************************************)
NeverPaidTwice ==
  \A c \in Contracts :
    ledger[c]["freelancer"] + ledger[c]["payout"]
      <= Sum(Amount, {m \in MilestonesOf(c) : milestone[m] # "pending"})

(***************************************************************************)
(* The client is charged for a contract at most once (README.md,           *)
(* "Idempotency"; for payments of exactly the contract's total).           *)
(***************************************************************************)
ChargedOnce == \A c \in Contracts : ledger[c]["client"] >= -Total(c)

(***************************************************************************)
(* README.md, "Idempotency": "payment webhooks and retried requests must   *)
(* never double-charge or double-pay".  The weakest form of the sentence:  *)
(* not both.  A behaviour that violates it charges a client twice and pays *)
(* a milestone twice.                                                      *)
(***************************************************************************)
ChargedOrPaidOnce == ChargedOnce \/ NeverPaidTwice

(***************************************************************************)
(* Every cycle of lock waits has an approval in it, which locks its        *)
(* milestone before the contract; all other calls take the contract's lock *)
(* before they touch a milestone.                                          *)
(***************************************************************************)
CyclesNeedApproval ==
  \A S \in SUBSET {s \in Slots : Active(s)} :
    LockCycle(S) => \E s \in S : req[s].type = "approve" /\ locks[s] = 1

(***************************************************************************)
(* Every request is answered.                                              *)
(***************************************************************************)
RequestsFinish == \A s \in Slots : Active(s) ~> ~Active(s)

(***************************************************************************)
(* The only request that is never answered is one behind a blocked event   *)
(* loop: lock waits and lock cycles alone keep nobody waiting for ever.    *)
(***************************************************************************)
FinishUnlessHung == \A s \in Slots : Active(s) ~> (~Active(s) \/ Hung)

=============================================================================
