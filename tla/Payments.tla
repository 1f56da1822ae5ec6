------------------------------ MODULE Payments ------------------------------
(***************************************************************************)
(* How a contract comes to be funded, and stays funded once: requests that *)
(* are retried with an idempotency key, payment events that are lost,      *)
(* redelivered and overlap, the two commits of the Paystack handler with a *)
(* crash between them, and the sweep that looks after lost events.         *)
(*                                                                         *)
(* payments/services.py and platform/tasks/scheduled.py under src/app.     *)
(* The data is that of Escrow; of a contract only "draft" or not matters   *)
(* to the code here, so contracts stay active once they are funded.        *)
(*                                                                         *)
(* A pending transaction is written by no function of today's code.  The   *)
(* funding flow of an earlier version did (src/Log.md, Day 6), and the     *)
(* handler and the sweep are there for what it left: Checkout stands for   *)
(* it.                                                                     *)
(***************************************************************************)
EXTENDS Escrow, Sequences

CONSTANTS
  Keys,           \* Idempotency-Key values
  Refs,           \* references of transactions of the earlier version
  RefContract,    \* the contract of such a transaction
  Foreign,        \* references that no transaction has
  Events,         \* event ids of the standard provider
  EventOf,        \* what such an event says: reference, type, amount
  Outcomes,       \* how a payment at Paystack may end
  Handlers,       \* handlers of requests and events
  Sweepers,       \* sweep threads
  Overlaps,       \* whether a standard event on a draft contract may overlap
                  \* another funding of it
  MaxCrashes,     \* bound on crashes
  None            \* no job, no contract

ASSUME PaymentIdsAssumption ==
  /\ RefContract \in [Refs -> Contracts]
  /\ EventOf \in [Events -> [on : Contracts \cup Refs \cup Foreign,
                             type : {"payment.succeeded", "payment.failed"},
                             amount : Nat]]
  /\ Outcomes \subseteq {"success", "short", "failed"}
  /\ Overlaps \in BOOLEAN
  /\ MaxCrashes \in Nat

(***************************************************************************)
(* Contract ids, references, event ids and keys have a table each, and a   *)
(* Paystack event's id is made from its reference: nothing is two of them. *)
(***************************************************************************)
ASSUME NamesAssumption ==
  /\ Contracts \cap (Refs \cup Foreign) = {}
  /\ Refs \cap Foreign = {}
  /\ Events \cap (Contracts \cup Refs \cup Foreign) = {}
  /\ Keys \cap (Events \cup Refs \cup Foreign) = {}

(***************************************************************************)
(* Jobs.  "id" is what makes a repetition recognisable, "on" the contract  *)
(* or the reference.                                                       *)
(***************************************************************************)
Job(type, id, on) == [type |-> type, id |-> id, on |-> on]

Jobs ==
  [type : {"fund"}, id : Keys, on : Contracts]
    \cup {Job("event", e, EventOf[e].on) : e \in Events}
    \cup {Job("paystack", r, r) : r \in Refs \cup Foreign}
    \cup {Job("sweep", r, r) : r \in Refs}

ASSUME NoneAssumption == None \notin Contracts \cup Jobs

VARIABLES
  charges,        \* who charged the contract's client, in order (history)
  keys,           \* idempotency_keys: the contract a key was stored for
  tx,             \* status of a transaction of Refs
  processed,      \* processed_events; a Paystack event has its reference's id
  outcome,        \* the payment's status at Paystack
  unanswered,     \* references whose event was believed unverified (history)
  answer,         \* the last answer to a funding request
  job,            \* what a handler or a sweep is busy with
  pc,             \* how far it has come
  seen,           \* contract status that a standard event's handler has read
  locked,         \* rows its transaction has locked or inserted
  crashes

untouched == <<milestone, dispute, ruling, payout>>
books == <<charges, keys, tx, processed, answer>>
session == <<job, pc, seen, locked>>
pvars == <<vars, books, outcome, unanswered, session, crashes>>

Slots == Handlers \cup Sweepers

-----------------------------------------------------------------------------
\* The contract of a contract id or of a transaction's reference.
Charged(x) == IF x \in Contracts THEN x ELSE RefContract[x]

\* Another job for the contract that j is about; copies of one event exclude
\* each other by its id.
Rival(j, i) ==
  /\ i # None
  /\ j.id # i.id
  /\ j.on \notin Foreign /\ i.on \notin Foreign
  /\ Charged(j.on) = Charged(i.on)

Apart(j) ==
  Overlaps \/ \A t \in Slots :
    Rival(j, job[t]) /\ contract[Charged(j.on)] = "draft" =>
      j.type # "event" /\ job[t].type # "event"

Busy(s) == pc[s] # "idle"
At(s, types, label) == job[s] # None /\ job[s].type \in types /\ pc[s] = label

\* Faulty: takes no locks.
FreeAlways(s, row) == TRUE
Free(s, row) == \A t \in Slots \ {s} : row \notin locked[t]

\* The row that the next step of s has to lock or to insert.
Wanted(s) ==
  CASE pc[s] = "touch" -> {job[s].on}
    [] pc[s] = "confirm" -> {Charged(job[s].on)}
    [] pc[s] \in {"success", "failed"} -> {job[s].on}
    [] OTHER -> {}

InCycle(s) ==
  \E t \in Slots : Wanted(s) \cap locked[t] # {} /\ Wanted(t) \cap locked[s] # {}

\* The pair of ledger entries, the status and the commit that all share.
Charge(c, amount, by) ==
  /\ Transfer(c, "client", "escrow", amount)
  /\ contract' = [contract EXCEPT ![c] = "active"]
  /\ charges' = [charges EXCEPT ![c] = Append(@, by)]

NoCharge == UNCHANGED <<contract, ledger, charges>>

\* Faulty: charges whatever the status.
MayChargeAgain(status) == status # "absent"
MayCharge(status) == status = "draft"

Close(s) ==
  /\ job' = [job EXCEPT ![s] = None]
  /\ pc' = [pc EXCEPT ![s] = "idle"]
  /\ seen' = [seen EXCEPT ![s] = "absent"]
  /\ locked' = [locked EXCEPT ![s] = {}]

Goto(s, label) == pc' = [pc EXCEPT ![s] = label]

Answered(j, a) == answer' = [answer EXCEPT ![j.id][j.on] = a]

-----------------------------------------------------------------------------

PayInit ==
  /\ Init
  /\ charges = [c \in Contracts |-> <<>>]
  /\ keys = [k \in Keys |-> None]
  /\ tx = [r \in Refs |-> "absent"]
  /\ processed = {}
  /\ outcome = [r \in Refs |-> "pending"]
  /\ unanswered = {}
  /\ answer = [k \in Keys |-> [c \in Contracts |-> "none"]]
  /\ job = [s \in Slots |-> None]
  /\ pc = [s \in Slots |-> "idle"]
  /\ seen = [s \in Slots |-> "absent"]
  /\ locked = [s \in Slots |-> {}]
  /\ crashes = 0

Create(c) ==
  /\ CreateContract(c)
  /\ UNCHANGED <<books, outcome, unanswered, session, crashes>>

\* The earlier version opens a checkout of the contract's total at Paystack.
Checkout(r) ==
  /\ contract[RefContract[r]] = "draft"
  /\ tx[r] = "absent"
  /\ tx' = [tx EXCEPT ![r] = "pending"]
  /\ UNCHANGED <<vars, charges, keys, processed, answer, outcome, unanswered, session, crashes>>

\* The client pays, pays another amount, or does not pay.
Pay(r, o) ==
  /\ tx[r] # "absent"
  /\ outcome[r] = "pending"
  /\ outcome' = [outcome EXCEPT ![r] = o]
  /\ UNCHANGED <<vars, books, unanswered, session, crashes>>

Begin(s, j) ==
  /\ ~Busy(s)
  /\ Apart(j)
  /\ job' = [job EXCEPT ![s] = j]
  /\ Goto(s, "start")
  /\ UNCHANGED <<vars, books, outcome, unanswered, seen, locked, crashes>>

BeginFund(s, k, c) ==
  /\ contract[c] # "absent"
  /\ Begin(s, Job("fund", k, c))

\* An event id that is already recorded is answered without further ado.
BeginEvent(s, e) ==
  LET on == EventOf[e].on IN
  /\ e \notin processed
  /\ on \in Contracts => contract[on] # "absent"
  /\ on \in Refs => tx[on] # "absent"
  /\ Begin(s, Job("event", e, on))

\* Paystack sends charge.success, and sends it again.
BeginPaystack(s, r) ==
  /\ r \notin processed
  /\ r \in Refs => outcome[r] \in {"success", "short"}
  /\ Begin(s, Job("paystack", r, r))

\* The sweep goes through the pending transactions that it has loaded.
BeginSweep(s, r) ==
  /\ tx[r] = "pending"
  /\ Begin(s, Job("sweep", r, r))

-----------------------------------------------------------------------------
(***************************************************************************)
(* POST /contracts/{id}/fund.                                              *)
(***************************************************************************)

\* Faulty: looks at the status before the key.
FundAnswerStatusFirst(k, c) ==
  CASE contract[c] # "draft" -> "refused"
    [] keys[k] = c -> "replayed"
    [] keys[k] # None \/ Total(c) \notin 1 .. MaxInt -> "refused"
    [] OTHER -> "created"

\* Faulty: does not look at the status.
FundAnswerAnyStatus(k, c) ==
  CASE keys[k] = c -> "replayed"
    [] keys[k] # None \/ Total(c) \notin 1 .. MaxInt -> "refused"
    [] OTHER -> "created"

\* What a request is answered with, should it come to its commit.
FundAnswer(k, c) ==
  CASE keys[k] = c -> "replayed"
    [] keys[k] # None /\ keys[k] # c -> "refused"
    [] keys[k] = None ->
         IF MayCharge(contract[c]) /\ Total(c) \in 1 .. MaxInt THEN "created" ELSE "refused"

\* Locks the contract, then looks at the key and the status.
FundLock(s) ==
  LET j == job[s]
      a == FundAnswer(j.id, j.on) IN
  /\ At(s, {"fund"}, "start")
  /\ Free(s, j.on)
  /\ IF a = "created"
       THEN /\ locked' = [locked EXCEPT ![s] = {j.on}]
            /\ Goto(s, "commit")
            /\ UNCHANGED <<job, seen, answer>>
       ELSE Answered(j, a) /\ Close(s)
  /\ UNCHANGED <<vars, charges, keys, tx, processed, outcome, unanswered, crashes>>

\* Faulty: forgets the key.
StoreNothing(k, c) == UNCHANGED keys
StoreKey(k, c) == keys' = [keys EXCEPT ![k] = c]

\* The primary key refuses a key that another contract's request has stored
\* in the meantime, and everything is rolled back.
FundCommit(s) ==
  LET j == job[s] IN
  /\ At(s, {"fund"}, "commit")
  /\ IF keys[j.id] = None
       THEN Charge(j.on, Total(j.on), j.id) /\ StoreKey(j.id, j.on) /\ Answered(j, "created")
       ELSE NoCharge /\ UNCHANGED keys /\ Answered(j, "refused")
  /\ Close(s)
  /\ UNCHANGED <<untouched, tx, processed, outcome, unanswered, crashes>>

-----------------------------------------------------------------------------
(***************************************************************************)
(* POST /webhooks/payment from the standard provider.  What the event's    *)
(* type says is read and not used.                                         *)
(***************************************************************************)

\* The event id is inserted, waiting for and failing on a duplicate; then the
\* contract is read.  An unknown reference is recorded and left at that.
EventInsert(s) ==
  LET j == job[s] IN
  /\ At(s, {"event"}, "start")
  /\ Free(s, j.id)
  /\ \/ /\ j.id \in processed
        /\ Close(s)
        /\ UNCHANGED processed
     \/ /\ j.id \notin processed /\ j.on \in Foreign
        /\ processed' = processed \cup {j.id}
        /\ Close(s)
     \/ /\ j.id \notin processed /\ j.on \notin Foreign
        /\ locked' = [locked EXCEPT ![s] = {j.id}]
        /\ seen' = [seen EXCEPT ![s] = contract[Charged(j.on)]]
        /\ Goto(s, IF j.on \in Refs THEN "touch" ELSE "confirm")
        /\ UNCHANGED <<job, processed>>
  /\ UNCHANGED <<vars, charges, keys, tx, answer, outcome, unanswered, crashes>>

\* The update of the transaction is flushed before the contract is locked.
EventTouch(s) ==
  LET j == job[s] IN
  /\ At(s, {"event"}, "touch")
  /\ Free(s, j.on)
  /\ locked' = [locked EXCEPT ![s] = @ \cup {j.on}]
  /\ Goto(s, "confirm")
  /\ UNCHANGED <<vars, books, outcome, unanswered, job, seen, crashes>>

\* confirm_funding: one commit for the entries, the event and the transaction.
EventConfirm(s) ==
  LET j == job[s]
      c == Charged(j.on)
      amount == EventOf[j.id].amount IN
  /\ At(s, {"event"}, "confirm")
  /\ Free(s, c)
  /\ IF MayCharge(seen[s])
       THEN Charge(c, IF amount > 0 THEN amount ELSE Total(c), j.id)
       ELSE NoCharge
  /\ processed' = processed \cup {j.id}
  /\ tx' = [r \in Refs |-> IF r = j.on THEN "success" ELSE tx[r]]
  /\ Close(s)
  /\ UNCHANGED <<untouched, keys, answer, outcome, unanswered, crashes>>

-----------------------------------------------------------------------------
(***************************************************************************)
(* charge.success from Paystack, and the sweep.  Both ask Paystack for the *)
(* payment's status; a handler that gets no answer believes the event, the *)
(* sweep tries again another time.                                         *)
(***************************************************************************)

\* Faulty: believes the event, whatever Paystack answers.
BelieveAll(type, status) == "confirm"

\* Faulty: the sweep gives up on a payment when Paystack does not answer.
VerdictHasty(type, status) ==
  CASE status = "success" -> "confirm"
    [] type = "paystack" /\ status = "unreachable" -> "confirm"
    [] OTHER -> "failed"

\* Faulty: the sweep knows only success.
VerdictPatient(type, status) ==
  CASE status = "success" -> "confirm"
    [] type = "paystack" /\ status = "unreachable" -> "confirm"
    [] type = "paystack" /\ status \in {"short", "failed"} -> "failed"
    [] OTHER -> "leave"

\* What becomes of a transaction whose payment has the given status.
Verdict(type, status) ==
  CASE status = "success" -> "confirm"
    [] type = "paystack" /\ status = "unreachable" -> "confirm"
    [] type = "paystack" /\ status \in {"short", "failed"} -> "failed"
    [] type = "sweep" /\ status = "failed" -> "failed"
    [] OTHER -> "leave"

Remember(j, status) ==
  unanswered' = IF status = "unreachable" /\ j.type = "paystack" /\ j.on \in Refs
                  THEN unanswered \cup {j.on} ELSE unanswered

\* Faulty: records the event before the money has moved.
VerifyRecording(s, status) ==
  LET j == job[s]
      v == Verdict(j.type, status) IN
  /\ At(s, {"paystack", "sweep"}, "start")
  /\ processed' = IF j.type = "paystack" THEN processed \cup {j.on} ELSE processed
  /\ Remember(j, status)
  /\ IF j.on \in Foreign \/ v = "leave"
       THEN Close(s)
       ELSE Goto(s, v) /\ UNCHANGED <<job, seen, locked>>
  /\ UNCHANGED <<vars, charges, keys, tx, answer, outcome, crashes>>

\* An event for an unknown reference is recorded and left at that.
Verify(s, status) ==
  LET j == job[s]
      v == Verdict(j.type, status) IN
  /\ At(s, {"paystack", "sweep"}, "start")
  /\ processed' = IF j.on \in Foreign THEN processed \cup {j.on} ELSE processed
  /\ Remember(j, status)
  /\ IF j.on \in Foreign \/ v = "leave"
       THEN Close(s)
       ELSE Goto(s, v) /\ UNCHANGED <<job, seen, locked>>
  /\ UNCHANGED <<vars, charges, keys, tx, answer, outcome, crashes>>

VerifyAnswered(s) ==
  LET j == job[s] IN
  j # None /\ Verify(s, IF j.on \in Refs THEN outcome[j.on] ELSE "success")

VerifyUnreachable(s) == Verify(s, "unreachable")

\* confirm_funding: commits if it charges, else keeps the lock to the end.
Confirm(s) ==
  LET j == job[s]
      c == Charged(j.on) IN
  /\ At(s, {"paystack", "sweep"}, "confirm")
  /\ Free(s, c)
  /\ IF MayCharge(contract[c])
       THEN Charge(c, Total(c), j.id) /\ UNCHANGED locked
       ELSE NoCharge /\ locked' = [locked EXCEPT ![s] = {c}]
  /\ Goto(s, "success")
  /\ UNCHANGED <<untouched, keys, tx, processed, answer, outcome, unanswered, job, seen, crashes>>

\* The transaction's status and, for an event, its id: the second commit.
\* A duplicate that was quicker makes it fail.
Record(s) ==
  LET j == job[s] IN
  /\ At(s, {"paystack", "sweep"}, "success") \/ At(s, {"paystack", "sweep"}, "failed")
  /\ Free(s, j.on)
  /\ IF j.type = "paystack" /\ j.on \in processed
       THEN UNCHANGED <<tx, processed>>
       ELSE /\ tx' = [tx EXCEPT ![j.on] = pc[s]]
            /\ processed' = IF j.type = "paystack" THEN processed \cup {j.on} ELSE processed
  /\ Close(s)
  /\ UNCHANGED <<vars, charges, keys, answer, outcome, unanswered, crashes>>

-----------------------------------------------------------------------------

\* Postgres aborts one of two transactions that wait for each other.
DeadlockAbort(s) ==
  /\ InCycle(s)
  /\ Close(s)
  /\ UNCHANGED <<vars, books, outcome, unanswered, crashes>>

\* The process dies, or the answer and the rest of the work are lost.
Crash(s) ==
  /\ Busy(s)
  /\ crashes < MaxCrashes
  /\ crashes' = crashes + 1
  /\ Close(s)
  /\ UNCHANGED <<vars, books, outcome, unanswered>>

Step(s) ==
  \/ FundLock(s) \/ FundCommit(s)
  \/ EventInsert(s) \/ EventTouch(s) \/ EventConfirm(s)
  \/ VerifyAnswered(s) \/ VerifyUnreachable(s)
  \/ Confirm(s) \/ Record(s)

PayNext ==
  \/ \E c \in Contracts : Create(c)
  \/ \E r \in Refs : Checkout(r) \/ \E o \in Outcomes : Pay(r, o)
  \/ \E s \in Handlers :
       \/ \E k \in Keys, c \in Contracts : BeginFund(s, k, c)
       \/ \E e \in Events : BeginEvent(s, e)
       \/ \E r \in Refs \cup Foreign : BeginPaystack(s, r)
  \/ \E s \in Sweepers, r \in Refs : BeginSweep(s, r)
  \/ \E s \in Slots : Step(s) \/ DeadlockAbort(s) \/ Crash(s)

(***************************************************************************)
(* The sweep comes round every SWEEP_INTERVAL_SECONDS and takes every      *)
(* pending transaction; Paystack is not unreachable each time; whoever     *)
(* waits for a row gets it before those who come later, and lock cycles    *)
(* are broken.  No event need be delivered and no request made.            *)
(***************************************************************************)
PayFairness ==
  /\ \A s \in Slots :
       /\ WF_pvars(Step(s))
       /\ SF_pvars(EventConfirm(s))
       /\ SF_pvars(VerifyAnswered(s))
       /\ SF_pvars(Confirm(s))
       /\ SF_pvars(Record(s))
  /\ WF_pvars(\E s \in Slots : DeadlockAbort(s))
  /\ \A r \in Refs : SF_pvars(\E s \in Sweepers : BeginSweep(s, r))

PaySpec == PayInit /\ [][PayNext]_pvars /\ PayFairness

-----------------------------------------------------------------------------
(***************************************************************************)
(* Properties.                                                             *)
(***************************************************************************)

PayTypeOK ==
  /\ TypeOK
  /\ \A c \in Contracts :
       charges[c] \in Seq(Keys \cup Events \cup Refs)
  /\ keys \in [Keys -> Contracts \cup {None}]
  /\ tx \in [Refs -> {"absent", "pending", "success", "failed"}]
  /\ processed \subseteq Events \cup Refs \cup Foreign
  /\ job \in [Slots -> Jobs \cup {None}]
  /\ \A s \in Slots : Busy(s) <=> job[s] # None
  /\ \A s, t \in Slots : s # t => locked[s] \cap locked[t] = {}

Sources(c) == {charges[c][i] : i \in 1 .. Len(charges[c])}

(***************************************************************************)
(* However requests are retried and events redelivered, overlap and crash, *)
(* a contract is charged once, and is draft until then (README.md,         *)
(* "Idempotency").                                                         *)
(***************************************************************************)
ChargedIffFunded ==
  \A c \in Contracts :
    Len(charges[c]) = IF contract[c] \in {"absent", "draft"} THEN 0 ELSE 1

(***************************************************************************)
(* A key is stored for the contract that its request has charged and for   *)
(* no other: a replay reports a charge that was made, and a charge that    *)
(* was made is replayed (the key is saved in the commit of the charge).    *)
(***************************************************************************)
KeyIffCharged ==
  \A k \in Keys, c \in Contracts : keys[k] = c <=> k \in Sources(c)

(***************************************************************************)
(* A client is never told that a request was refused when a request with   *)
(* that key has charged the contract, also when the first answer was lost  *)
(* or the two ran at once (fund_contract looks at the key, under the lock, *)
(* before the status).                                                     *)
(***************************************************************************)
RefusedNotCharged ==
  \A k \in Keys, c \in Contracts :
    answer[k][c] = "refused" => k \notin Sources(c)

(***************************************************************************)
(* What is recorded as done is done: an event that is recorded, and so     *)
(* will be ignored from now on, has had its effect, and a transaction that *)
(* is marked a success is in escrow.  In every state, so after every crash *)
(* too (the order of the commits of _handle_paystack_webhook, and the      *)
(* single commit of _handle_standard_webhook).                             *)
(***************************************************************************)
RecordedMeansDone ==
  /\ \A e \in Events \cap processed :
       EventOf[e].on \notin Foreign => charges[Charged(EventOf[e].on)] # <<>>
  /\ \A r \in Refs \cap processed : tx[r] \in {"success", "failed"}
  /\ \A r \in Refs : tx[r] = "success" => charges[RefContract[r]] # <<>>

(***************************************************************************)
(* A transaction is marked failed only if its payment has not succeeded in *)
(* full, whatever event, sweep and redelivery said of it before and in     *)
(* whichever order they commit; and if it has charged the contract all the *)
(* same, then because Paystack could not be asked when its event came, and *)
(* another amount had been paid (_handle_paystack_webhook believes an      *)
(* event that it cannot verify, _reconcile_one does not).                  *)
(***************************************************************************)
FailedNotCharged ==
  \A r \in Refs : tx[r] = "failed" =>
    /\ outcome[r] \in {"short", "failed"}
    /\ r \in Sources(RefContract[r]) => outcome[r] = "short" /\ r \in unanswered

(***************************************************************************)
(* Every charge on a report has the report behind it: an event that        *)
(* charged is recorded and named this contract, so that its redelivery     *)
(* cannot charge again; a transaction that charged has been paid in full,  *)
(* or in part while Paystack could not be asked.  In every state, so       *)
(* between the commits of a handler and after a crash there.  That an      *)
(* event's type is of no account is another matter (EitherConfirms).       *)
(***************************************************************************)
ChargesVouched ==
  \A c \in Contracts :
    /\ \A e \in Events \cap Sources(c) :
         e \in processed /\ EventOf[e].on \notin Foreign /\ c = Charged(EventOf[e].on)
    /\ \A r \in Refs \cap Sources(c) :
         /\ c = RefContract[r]
         /\ outcome[r] = "success" \/ (outcome[r] = "short" /\ r \in unanswered)

(***************************************************************************)
(* Log.md, Day 6: "The actual ledger movement only happens once POST       *)
(* /webhooks/payment confirms the payment really succeeded".  The webhook  *)
(* has two adapters, and this is the weakest form of the sentence: at      *)
(* least one of them keeps to it.  The standard adapter would move money   *)
(* for events of a success only; the one for Paystack would not have moved *)
(* any for a transaction that it then marks as failed.                     *)
(***************************************************************************)
StandardConfirms ==
  \A c \in Contracts : \A e \in Events \cap Sources(c) :
    EventOf[e].type = "payment.succeeded"

PaystackConfirms ==
  \A r \in Refs : tx[r] = "failed" => r \notin Sources(RefContract[r])

EitherConfirms == StandardConfirms \/ PaystackConfirms

(***************************************************************************)
(* Every commit is a step of Escrow: a whole funding of a draft contract,  *)
(* or nothing.                                                             *)
(***************************************************************************)
FundsAsEscrow == Spec

(***************************************************************************)
(* Although no event need ever arrive, a payment that succeeded is in      *)
(* escrow and marked so some day, and one that failed is marked (the       *)
(* sweep, which leaves a success of another amount where it is).           *)
(***************************************************************************)
PaymentsSettle ==
  \A r \in Refs :
    /\ outcome[r] = "success" ~> tx[r] = "success" /\ charges[RefContract[r]] # <<>>
    /\ outcome[r] = "failed" ~> tx[r] # "pending"

=============================================================================
