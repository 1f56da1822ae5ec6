--------------------------- MODULE PaymentsProofs ---------------------------
(***************************************************************************)
(* Theorems about Payments, for any contracts, keys, references, events,   *)
(* handlers and sweeps, and any number of crashes.                         *)
(*                                                                         *)
(* The invariant has four layers, each proved from the ones before it:     *)
(* types and locks; what a session relies on while it is under way; that   *)
(* standard events which do not overlap another funding have a current     *)
(* view of the contract; what is known of a payment's outcome.  Only the   *)
(* third needs a hypothesis on how jobs overlap; the fourth does without.  *)
(***************************************************************************)
EXTENDS Payments, EscrowProofs, SequenceTheorems

-----------------------------------------------------------------------------
(***************************************************************************)
(* First layer: types, how far each kind of job can be, and the locks it   *)
(* holds there.                                                            *)
(***************************************************************************)
Labels == {"idle", "start", "commit", "touch", "confirm", "success", "failed"}
Rows == Contracts \cup Refs \cup Events
Chargers == Keys \cup Events \cup Refs

BooksType ==
  /\ charges \in [Contracts -> Seq(Chargers)]
  /\ keys \in [Keys -> Contracts \cup {None}]
  /\ tx \in [Refs -> {"absent", "pending", "success", "failed"}]
  /\ processed \subseteq Events \cup Refs \cup Foreign
  /\ answer \in [Keys -> [Contracts -> {"none", "created", "replayed", "refused"}]]
  /\ outcome \in [Refs -> {"pending"} \cup Outcomes]
  /\ unanswered \subseteq Refs

SessionType ==
  /\ job \in [Slots -> Jobs \cup {None}]
  /\ pc \in [Slots -> Labels]
  /\ seen \in [Slots -> ContractStatus]
  /\ locked \in [Slots -> SUBSET Rows]

\* A session with job j, at label l, that holds the rows L.
Fits(j, l, L) ==
  /\ j = None <=> l = "idle"
  /\ l \in {"idle", "start"} => L = {}
  /\ j # None =>
       /\ j.type = "fund" =>
            l \in {"start", "commit"} /\ (l = "commit" => L = {j.on})
       /\ j.type = "event" /\ l # "start" =>
            l \in {"touch", "confirm"} /\ j.on \notin Foreign /\ j.id \in L
       /\ j.type \in {"paystack", "sweep"} =>
            l \in {"start", "confirm", "success", "failed"} /\ (l # "start" => j.on \in Refs)

SessionsFit == \A s \in Slots : Fits(job[s], pc[s], locked[s])
LocksExclude == \A s, t \in Slots : s # t => locked[s] \cap locked[t] = {}

SessionInv ==
  /\ TypeOK /\ BooksType /\ SessionType
  /\ SessionsFit
  /\ LocksExclude

-----------------------------------------------------------------------------
(***************************************************************************)
(* Second layer: what a session relies on while it is under way, and what  *)
(* the books say of one another.  It holds however the jobs overlap.       *)
(***************************************************************************)
Unfunded(c) == contract[c] \in {"absent", "draft"}

ChargedUnlessUnfunded == \A c \in Contracts : Unfunded(c) <=> charges[c] = <<>>

RefusedNotStored ==
  \A k \in Keys, c \in Contracts : answer[k][c] = "refused" => keys[k] # c

\* Transactions are about contracts that exist.
RefsKnown ==
  \A r \in Refs : /\ tx[r] # "absent" => contract[RefContract[r]] # "absent"
                  /\ outcome[r] # "pending" => tx[r] # "absent"

\* Whoever is about to commit a funding still may.
CommitReady(s) ==
  At(s, {"fund"}, "commit") =>
    /\ contract[job[s].on] = "draft"
    /\ Total(job[s].on) \in 1 .. MaxInt
    /\ keys[job[s].id] # job[s].on

AboutExisting(s) ==
  job[s] # None /\ job[s].on \notin Foreign => contract[Charged(job[s].on)] # "absent"

\* An event that found its contract funded, and a payment that has been
\* confirmed, leave it to what has charged the contract.
Reading(s) == At(s, {"event"}, "touch") \/ At(s, {"event"}, "confirm")
ChargedBefore(s) ==
  /\ Reading(s) => seen[s] = "draft" \/ ~Unfunded(Charged(job[s].on))
  /\ At(s, {"paystack", "sweep"}, "success") => ~Unfunded(Charged(job[s].on))

Sound(s) == CommitReady(s) /\ AboutExisting(s) /\ ChargedBefore(s)

BooksInv ==
  /\ ChargedUnlessUnfunded
  /\ KeyIffCharged
  /\ RefusedNotStored
  /\ RefsKnown
  /\ \A s \in Slots : Sound(s)
  /\ RecordedMeansDone

-----------------------------------------------------------------------------
(***************************************************************************)
(* Third layer, when no standard event on a draft contract overlaps        *)
(* another funding of it: what the event's handler has read is still so.   *)
(***************************************************************************)
JobsApart ==
  \A s, t \in Slots :
    job[s] # None /\ Rival(job[s], job[t]) /\ contract[Charged(job[s].on)] = "draft" =>
      job[s].type # "event" /\ job[t].type # "event"

SeenCurrent ==
  \A s \in Slots : Reading(s) /\ seen[s] = "draft" =>
    contract[Charged(job[s].on)] = "draft"

ApartInv == JobsApart /\ SeenCurrent /\ ChargedIffFunded

-----------------------------------------------------------------------------
(***************************************************************************)
(* Fourth layer, however the jobs overlap: what is known of an outcome.    *)
(***************************************************************************)
\* A payment that may charge: made in full, or believed to have been.
Vouched(r, o, u) == o[r] = "success" \/ (o[r] = "short" /\ r \in u)

\* A job that has been told the outcome, and one that was begun by it.
Told(j, l, o, u) ==
  j # None /\ j.on \in Refs /\ j.type \in {"paystack", "sweep"} =>
    /\ j.type = "paystack" => o[j.on] \in {"success", "short"}
    /\ l \in {"confirm", "success"} => Vouched(j.on, o, u)
    /\ l = "failed" => o[j.on] \in {"short", "failed"}

OutcomesKnown ==
  /\ \A s \in Slots : Told(job[s], pc[s], outcome, unanswered)
  /\ \A r \in Refs : tx[r] = "failed" => outcome[r] \in {"short", "failed"}
  /\ ChargesVouched

-----------------------------------------------------------------------------
(***************************************************************************)
(* What a job is, by its type.                                             *)
(***************************************************************************)
LEMMA JobFacts ==
  ASSUME NEW j \in Jobs
  PROVE  /\ j # None
         /\ j.type \in {"fund", "event", "paystack", "sweep"}
         /\ j.type = "fund" => j.id \in Keys /\ j.on \in Contracts
         /\ j.type = "event" => /\ j.id \in Events
                                /\ j.on = EventOf[j.id].on
                                /\ j.on \in Contracts \cup Refs \cup Foreign
         /\ j.type = "paystack" => j.id = j.on /\ j.on \in Refs \cup Foreign
         /\ j.type = "sweep" => j.id = j.on /\ j.on \in Refs
<1>1. j # None
  BY NoneAssumption
<1>2. CASE j \in [type : {"fund"}, id : Keys, on : Contracts]
  BY <1>1, <1>2
<1>3. CASE \E e \in Events : j = Job("event", e, EventOf[e].on)
  BY <1>1, <1>3, PaymentIdsAssumption DEF Job
<1>4. CASE \E r \in Refs \cup Foreign : j = Job("paystack", r, r)
  BY <1>1, <1>4 DEF Job
<1>5. CASE \E r \in Refs : j = Job("sweep", r, r)
  BY <1>1, <1>5 DEF Job
<1> QED
  BY <1>2, <1>3, <1>4, <1>5 DEF Jobs

(***************************************************************************)
(* A contract or a transaction has a contract to charge.                   *)
(***************************************************************************)
LEMMA ChargedType ==
  /\ \A c \in Contracts : Charged(c) = c
  /\ \A r \in Refs : Charged(r) = RefContract[r] /\ RefContract[r] \in Contracts
BY PaymentIdsAssumption, NamesAssumption DEF Charged

LEMMA TotalType ==
  ASSUME NEW c
  PROVE  Total(c) \in Nat
BY AmountSum, MilestonesOfFinite DEF Total

(***************************************************************************)
(* A charge keeps the types, and adds its source at the end.               *)
(***************************************************************************)
LEMMA ChargeType ==
  ASSUME TypeOK, charges \in [Contracts -> Seq(Chargers)],
         NEW c \in Contracts, NEW amount \in Nat, NEW by \in Chargers,
         Charge(c, amount, by), UNCHANGED untouched
  PROVE  TypeOK' /\ charges' \in [Contracts -> Seq(Chargers)]
<1>1. Append(charges[c], by) \in Seq(Chargers)
  BY AppendProperties
<1>2. charges' \in [Contracts -> Seq(Chargers)]
  BY <1>1 DEF Charge
<1>3. ledger' \in [Contracts -> [Accounts -> Int]]
  <2>1. Transfer(c, "client", "escrow", amount)
    BY DEF Charge
  <2> QED
    BY <2>1, TransferType DEF Accounts
<1> QED
  BY <1>2, <1>3 DEF TypeOK, Charge, untouched, ContractStatus

(***************************************************************************)
(* A session that moves to a place that fits, and to rows that no other    *)
(* session holds.                                                          *)
(***************************************************************************)
LEMMA SlotMoves ==
  ASSUME SessionType, SessionsFit, LocksExclude,
         NEW s \in Slots, NEW j \in Jobs \cup {None}, NEW l \in Labels,
         NEW v \in ContractStatus, NEW L \in SUBSET Rows,
         job' = [job EXCEPT ![s] = j], pc' = [pc EXCEPT ![s] = l],
         seen' = [seen EXCEPT ![s] = v], locked' = [locked EXCEPT ![s] = L],
         Fits(j, l, L),
         \A t \in Slots \ {s} : L \cap locked[t] = {}
  PROVE  SessionType' /\ SessionsFit' /\ LocksExclude'
<1>1. SessionType'
  BY DEF SessionType
<1>2. SessionsFit'
  <2> SUFFICES ASSUME NEW t \in Slots PROVE Fits(job'[t], pc'[t], locked'[t])
    BY DEF SessionsFit
  <2>1. CASE t = s
    BY <2>1 DEF SessionType
  <2>2. CASE t # s
    <3>1. job'[t] = job[t] /\ pc'[t] = pc[t] /\ locked'[t] = locked[t]
      BY <2>2 DEF SessionType
    <3> QED
      BY <3>1 DEF SessionsFit
  <2> QED
    BY <2>1, <2>2
<1>3. LocksExclude'
  BY DEF SessionType, LocksExclude
<1> QED
  BY <1>1, <1>2, <1>3

LEMMA SlotCloses ==
  ASSUME SessionType, SessionsFit, LocksExclude, NEW s \in Slots, Close(s)
  PROVE  SessionType' /\ SessionsFit' /\ LocksExclude'
<1>1. Fits(None, "idle", {})
  BY DEF Fits
<1>2. None \in Jobs \cup {None} /\ {} \in SUBSET Rows
  OBVIOUS
<1>3. "idle" \in Labels /\ "absent" \in ContractStatus
  BY DEF Labels, ContractStatus
<1>4. /\ job' = [job EXCEPT ![s] = None] /\ pc' = [pc EXCEPT ![s] = "idle"]
      /\ seen' = [seen EXCEPT ![s] = "absent"] /\ locked' = [locked EXCEPT ![s] = {}]
  BY DEF Close
<1>5. \A t \in Slots \ {s} : {} \cap locked[t] = {}
  OBVIOUS
<1> QED
  BY <1>1, <1>2, <1>3, <1>4, <1>5, SlotMoves

LEMMA SlotStays ==
  ASSUME SessionType, SessionsFit, LocksExclude, UNCHANGED session
  PROVE  SessionType' /\ SessionsFit' /\ LocksExclude'
BY DEF SessionType, SessionsFit, LocksExclude, session

(***************************************************************************)
(* A session that starts a job.                                            *)
(***************************************************************************)
LEMMA BeginFits ==
  ASSUME SessionInv, NEW s \in Slots, NEW j \in Jobs, Begin(s, j)
  PROVE  SessionInv'
<1>1. j # None
  BY JobFacts
<1>2. pc[s] = "idle" /\ locked[s] = {}
  BY DEF SessionInv, SessionsFit, Fits, Begin, Busy
<1>3. Fits(j, "start", {})
  BY <1>1 DEF Fits
<1>4. /\ job' = [job EXCEPT ![s] = j] /\ pc' = [pc EXCEPT ![s] = "start"]
      /\ seen' = [seen EXCEPT ![s] = seen[s]] /\ locked' = [locked EXCEPT ![s] = {}]
  BY <1>2 DEF SessionInv, SessionType, Begin, Goto
<1>5. "start" \in Labels /\ seen[s] \in ContractStatus
  BY DEF Labels, SessionInv, SessionType
<1>6. SessionType' /\ SessionsFit' /\ LocksExclude'
  <2>1. {} \in SUBSET Rows /\ \A t \in Slots \ {s} : {} \cap locked[t] = {}
    OBVIOUS
  <2> QED
    BY <1>3, <1>4, <1>5, <2>1, SlotMoves DEF SessionInv
<1>7. TypeOK' /\ BooksType'
  BY DEF SessionInv, TypeOK, BooksType, Begin, vars, books
<1> QED
  BY <1>6, <1>7 DEF SessionInv

LEMMA FundLockFits ==
  ASSUME SessionInv, NEW s \in Slots, FundLock(s)
  PROVE  SessionInv'
<1> DEFINE j == job[s]
           a == FundAnswer(j.id, j.on)
<1>1. /\ j \in Jobs /\ j.type = "fund" /\ j.id \in Keys /\ j.on \in Contracts
      /\ Free(s, j.on)
  BY JobFacts DEF SessionInv, SessionType, FundLock, At
<1>2. CASE a = "created"
  <2>1. Fits(j, "commit", {j.on})
    BY <1>1, NoneAssumption DEF Fits
  <2>2. /\ job' = [job EXCEPT ![s] = j] /\ pc' = [pc EXCEPT ![s] = "commit"]
        /\ seen' = [seen EXCEPT ![s] = seen[s]]
        /\ locked' = [locked EXCEPT ![s] = {j.on}]
    BY <1>2 DEF SessionInv, SessionType, FundLock, Goto
  <2>3. "commit" \in Labels /\ seen[s] \in ContractStatus /\ {j.on} \in SUBSET Rows
    BY <1>1 DEF Labels, SessionInv, SessionType, Rows
  <2>4. \A t \in Slots \ {s} : {j.on} \cap locked[t] = {}
    BY <1>1 DEF Free
  <2>5. SessionType' /\ SessionsFit' /\ LocksExclude'
    <3> HIDE DEF j
    <3> QED
      BY <1>1, <2>1, <2>2, <2>3, <2>4, SlotMoves DEF SessionInv
  <2>6. TypeOK' /\ BooksType'
    BY <1>2 DEF SessionInv, TypeOK, BooksType, FundLock, vars
  <2> QED
    BY <2>5, <2>6 DEF SessionInv
<1>3. CASE a # "created"
  <2>1. Close(s) /\ Answered(j, a)
    BY <1>3 DEF FundLock
  <2>2. a \in {"none", "created", "replayed", "refused"}
    <3>1. keys[j.id] \in Contracts \cup {None}
      BY <1>1 DEF SessionInv, BooksType
    <3> QED
      BY <3>1 DEF FundAnswer
  <2>3. answer' \in [Keys -> [Contracts -> {"none", "created", "replayed", "refused"}]]
    <3> HIDE DEF j, a
    <3> QED
      BY <1>1, <2>1, <2>2 DEF SessionInv, BooksType, Answered
  <2>4. TypeOK' /\ BooksType'
    BY <2>3 DEF SessionInv, TypeOK, BooksType, FundLock, vars
  <2> QED
    BY <2>1, <2>4, SlotCloses DEF SessionInv
<1> QED
  BY <1>2, <1>3

LEMMA FundCommitFits ==
  ASSUME SessionInv, NEW s \in Slots, FundCommit(s)
  PROVE  SessionInv'
<1> DEFINE j == job[s]
<1>1. j \in Jobs /\ j.type = "fund" /\ j.id \in Keys /\ j.on \in Contracts
  BY JobFacts DEF SessionInv, SessionType, FundCommit, At
<1>2. SessionType' /\ SessionsFit' /\ LocksExclude'
  BY SlotCloses DEF SessionInv, FundCommit
<1>3. TypeOK' /\ charges' \in [Contracts -> Seq(Chargers)]
  <2>1. CASE keys[j.id] = None
    <3>1. Charge(j.on, Total(j.on), j.id) /\ UNCHANGED untouched
      BY <2>1 DEF FundCommit
    <3>2. Total(j.on) \in Nat /\ j.id \in Chargers
      BY <1>1, TotalType DEF Chargers
    <3> HIDE DEF j
    <3> QED
      BY <1>1, <3>1, <3>2, ChargeType DEF SessionInv, BooksType
  <2>2. CASE keys[j.id] # None
    BY <2>2 DEF SessionInv, TypeOK, BooksType, FundCommit, NoCharge, untouched
  <2> QED
    BY <2>1, <2>2
<1>4. keys' \in [Keys -> Contracts \cup {None}]
  BY <1>1 DEF SessionInv, BooksType, FundCommit, StoreKey
<1>5. answer' \in [Keys -> [Contracts -> {"none", "created", "replayed", "refused"}]]
  <2>1. PICK a \in {"created", "refused"} : Answered(j, a)
    BY DEF FundCommit
  <2> HIDE DEF j
  <2> QED
    BY <1>1, <2>1 DEF SessionInv, BooksType, Answered
<1>6. BooksType'
  BY <1>3, <1>4, <1>5 DEF SessionInv, BooksType, FundCommit
<1> QED
  BY <1>2, <1>3, <1>6 DEF SessionInv

LEMMA EventInsertFits ==
  ASSUME SessionInv, NEW s \in Slots, EventInsert(s)
  PROVE  SessionInv'
<1> DEFINE j == job[s]
           l == IF j.on \in Refs THEN "touch" ELSE "confirm"
           v == contract[Charged(j.on)]
<1>1. /\ j \in Jobs /\ j.type = "event" /\ j.id \in Events
      /\ j.on \in Contracts \cup Refs \cup Foreign
      /\ pc[s] = "start" /\ Free(s, j.id)
  BY JobFacts DEF SessionInv, SessionType, EventInsert, At
<1>2. TypeOK' /\ BooksType'
  BY <1>1 DEF SessionInv, TypeOK, BooksType, EventInsert, vars
<1>3. CASE Close(s)
  BY <1>2, <1>3, SlotCloses DEF SessionInv
<1>4. CASE ~Close(s)
  <2>1. /\ j.on \notin Foreign
        /\ job' = [job EXCEPT ![s] = j] /\ pc' = [pc EXCEPT ![s] = l]
        /\ seen' = [seen EXCEPT ![s] = v] /\ locked' = [locked EXCEPT ![s] = {j.id}]
    BY <1>4 DEF SessionInv, SessionType, EventInsert, Goto
  <2>2. Fits(j, l, {j.id})
    BY <1>1, <2>1, NoneAssumption DEF Fits
  <2>3. l \in Labels /\ v \in ContractStatus /\ {j.id} \in SUBSET Rows
    <3>1. Charged(j.on) \in Contracts
      BY <1>1, <2>1, ChargedType
    <3> QED
      BY <1>1, <3>1 DEF Labels, SessionInv, TypeOK, Rows
  <2>4. \A t \in Slots \ {s} : {j.id} \cap locked[t] = {}
    BY <1>1 DEF Free
  <2>5. SessionType' /\ SessionsFit' /\ LocksExclude'
    <3> HIDE DEF j, l, v
    <3> QED
      BY <1>1, <2>1, <2>2, <2>3, <2>4, SlotMoves DEF SessionInv
  <2> QED
    BY <1>2, <2>5 DEF SessionInv
<1> QED
  BY <1>3, <1>4

LEMMA EventTouchFits ==
  ASSUME SessionInv, NEW s \in Slots, EventTouch(s)
  PROVE  SessionInv'
<1> DEFINE j == job[s]
           L == locked[s] \cup {j.on}
<1>1. /\ j \in Jobs /\ j.type = "event" /\ j.on \in Contracts \cup Refs \cup Foreign
      /\ pc[s] = "touch" /\ Free(s, j.on)
  BY JobFacts DEF SessionInv, SessionType, EventTouch, At
<1>2. j.on \notin Foreign /\ j.id \in locked[s]
  BY <1>1 DEF SessionInv, SessionsFit, Fits
<1>3. Fits(j, "confirm", L)
  BY <1>1, <1>2, NoneAssumption DEF Fits
<1>4. /\ job' = [job EXCEPT ![s] = j] /\ pc' = [pc EXCEPT ![s] = "confirm"]
      /\ seen' = [seen EXCEPT ![s] = seen[s]] /\ locked' = [locked EXCEPT ![s] = L]
  BY DEF SessionInv, SessionType, EventTouch, Goto
<1>5. "confirm" \in Labels /\ seen[s] \in ContractStatus /\ L \in SUBSET Rows
  BY <1>1, <1>2 DEF Labels, SessionInv, SessionType, Rows
<1>6. \A t \in Slots \ {s} : L \cap locked[t] = {}
  BY <1>1 DEF Free, SessionInv, LocksExclude
<1>7. SessionType' /\ SessionsFit' /\ LocksExclude'
  <2> HIDE DEF j, L
  <2> QED
    BY <1>1, <1>3, <1>4, <1>5, <1>6, SlotMoves DEF SessionInv
<1>8. TypeOK' /\ BooksType'
  BY DEF SessionInv, TypeOK, BooksType, EventTouch, vars, books
<1> QED
  BY <1>7, <1>8 DEF SessionInv

LEMMA EventConfirmFits ==
  ASSUME SessionInv, NEW s \in Slots, EventConfirm(s)
  PROVE  SessionInv'
<1> DEFINE j == job[s]
           c == Charged(j.on)
           amount == IF EventOf[j.id].amount > 0 THEN EventOf[j.id].amount ELSE Total(c)
<1>1. /\ j \in Jobs /\ j.type = "event" /\ j.id \in Events
      /\ j.on \in Contracts \cup Refs \cup Foreign /\ pc[s] = "confirm"
  BY JobFacts DEF SessionInv, SessionType, EventConfirm, At
<1>2. c \in Contracts
  <2>1. j.on \notin Foreign
    BY <1>1 DEF SessionInv, SessionsFit, Fits
  <2> QED
    BY <1>1, <2>1, ChargedType
<1>3. SessionType' /\ SessionsFit' /\ LocksExclude'
  BY SlotCloses DEF SessionInv, EventConfirm
<1>4. TypeOK' /\ charges' \in [Contracts -> Seq(Chargers)]
  <2>1. CASE MayCharge(seen[s])
    <3>1. Charge(c, amount, j.id) /\ UNCHANGED untouched
      BY <2>1 DEF EventConfirm
    <3>2. amount \in Nat /\ j.id \in Chargers
      BY <1>1, TotalType, PaymentIdsAssumption DEF Chargers
    <3> HIDE DEF c, j, amount
    <3> QED
      BY <1>2, <3>1, <3>2, ChargeType DEF SessionInv, BooksType
  <2>2. CASE ~MayCharge(seen[s])
    BY <2>2 DEF SessionInv, TypeOK, BooksType, EventConfirm, NoCharge, untouched
  <2> QED
    BY <2>1, <2>2
<1>5. tx' \in [Refs -> {"absent", "pending", "success", "failed"}]
  BY DEF SessionInv, BooksType, EventConfirm
<1>6. processed' \subseteq Events \cup Refs \cup Foreign
  BY <1>1 DEF SessionInv, BooksType, EventConfirm
<1>7. BooksType'
  BY <1>4, <1>5, <1>6 DEF SessionInv, BooksType, EventConfirm
<1> QED
  BY <1>3, <1>4, <1>7 DEF SessionInv

LEMMA VerifyFits ==
  ASSUME SessionInv, NEW s \in Slots, NEW status, Verify(s, status)
  PROVE  SessionInv'
<1> DEFINE j == job[s]
           l == Verdict(j.type, status)
<1>1. /\ j \in Jobs /\ j.type \in {"paystack", "sweep"} /\ j.on \in Refs \cup Foreign
      /\ pc[s] = "start"
  BY JobFacts DEF SessionInv, SessionType, Verify, At
<1>2. TypeOK' /\ BooksType'
  BY <1>1 DEF SessionInv, TypeOK, BooksType, Verify, Remember, vars
<1>3. CASE Close(s)
  BY <1>2, <1>3, SlotCloses DEF SessionInv
<1>4. CASE ~Close(s)
  <2>1. locked[s] = {}
    BY <1>1 DEF SessionInv, SessionsFit, Fits
  <2>2. /\ j.on \in Refs /\ l # "leave"
        /\ job' = [job EXCEPT ![s] = j] /\ pc' = [pc EXCEPT ![s] = l]
        /\ seen' = [seen EXCEPT ![s] = seen[s]] /\ locked' = [locked EXCEPT ![s] = {}]
    BY <1>1, <1>4, <2>1 DEF SessionInv, SessionType, Verify, Goto
  <2>3. l \in {"confirm", "failed"}
    BY <2>2 DEF Verdict
  <2>4. Fits(j, l, {})
    BY <1>1, <2>2, <2>3, NoneAssumption DEF Fits
  <2>5. l \in Labels /\ seen[s] \in ContractStatus /\ {} \in SUBSET Rows
    BY <2>3 DEF Labels, SessionInv, SessionType
  <2>6. SessionType' /\ SessionsFit' /\ LocksExclude'
    <3>1. \A t \in Slots \ {s} : {} \cap locked[t] = {}
      OBVIOUS
    <3> HIDE DEF j, l
    <3> QED
      BY <1>1, <2>2, <2>4, <2>5, <3>1, SlotMoves DEF SessionInv
  <2> QED
    BY <1>2, <2>6 DEF SessionInv
<1> QED
  BY <1>3, <1>4

LEMMA ConfirmFits ==
  ASSUME SessionInv, NEW s \in Slots, Confirm(s)
  PROVE  SessionInv'
<1> DEFINE j == job[s]
           c == Charged(j.on)
<1>1. /\ j \in Jobs /\ j.type \in {"paystack", "sweep"}
      /\ pc[s] = "confirm" /\ Free(s, c)
  BY JobFacts DEF SessionInv, SessionType, Confirm, At
<1>2. /\ j.on \in Refs /\ j.id \in Refs
  BY <1>1, JobFacts DEF SessionInv, SessionsFit, Fits
<1>3. c \in Contracts
  BY <1>2, ChargedType
<1>4. CASE MayCharge(contract[c])
  <2>1. /\ job' = [job EXCEPT ![s] = j] /\ pc' = [pc EXCEPT ![s] = "success"]
        /\ seen' = [seen EXCEPT ![s] = seen[s]]
        /\ locked' = [locked EXCEPT ![s] = locked[s]]
    BY <1>4 DEF SessionInv, SessionType, Confirm, Goto
  <2>2. Fits(j, "success", locked[s])
    BY <1>1, <1>2, NoneAssumption DEF Fits
  <2>3. "success" \in Labels /\ seen[s] \in ContractStatus /\ locked[s] \in SUBSET Rows
    BY DEF Labels, SessionInv, SessionType
  <2>4. \A t \in Slots \ {s} : locked[s] \cap locked[t] = {}
    BY DEF SessionInv, LocksExclude
  <2>5. SessionType' /\ SessionsFit' /\ LocksExclude'
    <3> HIDE DEF j
    <3> QED
      BY <1>1, <2>1, <2>2, <2>3, <2>4, SlotMoves DEF SessionInv
  <2>6. TypeOK' /\ charges' \in [Contracts -> Seq(Chargers)]
    <3>1. Charge(c, Total(c), j.id) /\ UNCHANGED untouched
      BY <1>4 DEF Confirm
    <3>2. Total(c) \in Nat /\ j.id \in Chargers
      BY <1>2, TotalType DEF Chargers
    <3> HIDE DEF c, j
    <3> QED
      BY <1>3, <3>1, <3>2, ChargeType DEF SessionInv, BooksType
  <2>7. BooksType'
    BY <2>6 DEF SessionInv, BooksType, Confirm
  <2> QED
    BY <2>5, <2>6, <2>7 DEF SessionInv
<1>5. CASE ~MayCharge(contract[c])
  <2>1. /\ job' = [job EXCEPT ![s] = j] /\ pc' = [pc EXCEPT ![s] = "success"]
        /\ seen' = [seen EXCEPT ![s] = seen[s]] /\ locked' = [locked EXCEPT ![s] = {c}]
    BY <1>5 DEF SessionInv, SessionType, Confirm, Goto
  <2>2. Fits(j, "success", {c})
    BY <1>1, <1>2, NoneAssumption DEF Fits
  <2>3. "success" \in Labels /\ seen[s] \in ContractStatus /\ {c} \in SUBSET Rows
    BY <1>3 DEF Labels, SessionInv, SessionType, Rows
  <2>4. \A t \in Slots \ {s} : {c} \cap locked[t] = {}
    BY <1>1 DEF Free
  <2>5. SessionType' /\ SessionsFit' /\ LocksExclude'
    <3> HIDE DEF j, c
    <3> QED
      BY <1>1, <2>1, <2>2, <2>3, <2>4, SlotMoves DEF SessionInv
  <2>6. TypeOK' /\ BooksType'
    BY <1>5 DEF SessionInv, TypeOK, BooksType, Confirm, NoCharge, untouched
  <2> QED
    BY <2>5, <2>6 DEF SessionInv
<1> QED
  BY <1>4, <1>5

LEMMA RecordFits ==
  ASSUME SessionInv, NEW s \in Slots, Record(s)
  PROVE  SessionInv'
<1> DEFINE j == job[s]
<1>1. j \in Jobs /\ j.type \in {"paystack", "sweep"} /\ pc[s] \in {"success", "failed"}
  BY JobFacts DEF SessionInv, SessionType, Record, At
<1>2. j.on \in Refs
  BY <1>1, JobFacts DEF SessionInv, SessionsFit, Fits
<1>3. SessionType' /\ SessionsFit' /\ LocksExclude'
  BY SlotCloses DEF SessionInv, Record
<1>4. TypeOK' /\ BooksType'
  BY <1>1, <1>2 DEF SessionInv, TypeOK, BooksType, Record, vars
<1> QED
  BY <1>3, <1>4 DEF SessionInv

(***************************************************************************)
(* The steps that leave every session as it is.                            *)
(***************************************************************************)
LEMMA OutsideFits ==
  ASSUME SessionInv,
         \/ \E c \in Contracts : Create(c)
         \/ \E r \in Refs : Checkout(r)
         \/ \E r \in Refs, o \in Outcomes : Pay(r, o)
         \/ UNCHANGED pvars
  PROVE  SessionInv'
<1>1. SessionType' /\ SessionsFit' /\ LocksExclude'
  <2>1. UNCHANGED session
    BY DEF Create, Checkout, Pay, pvars
  <2> QED
    BY <2>1, SlotStays DEF SessionInv
<1>2. TypeOK'
  <2>1. CASE \E c \in Contracts : Create(c)
    BY <2>1, NextType DEF SessionInv, Create, Next
  <2>2. CASE UNCHANGED vars
    BY <2>2 DEF SessionInv, TypeOK, vars
  <2> QED
    BY <2>1, <2>2 DEF Checkout, Pay, pvars
<1>3. BooksType'
  <2>1. ASSUME NEW r \in Refs, Checkout(r) PROVE BooksType'
    BY <2>1 DEF SessionInv, BooksType, Checkout
  <2>2. ASSUME NEW r \in Refs, NEW o \in Outcomes, Pay(r, o) PROVE BooksType'
    BY <2>2 DEF SessionInv, BooksType, Pay, books
  <2>3. CASE UNCHANGED <<books, outcome, unanswered>>
    BY <2>3 DEF SessionInv, BooksType, books
  <2> QED
    BY <2>1, <2>2, <2>3 DEF Create, pvars
<1> QED
  BY <1>1, <1>2, <1>3 DEF SessionInv

LEMMA EndFits ==
  ASSUME SessionInv, NEW s \in Slots, DeadlockAbort(s) \/ Crash(s)
  PROVE  SessionInv'
<1>1. SessionType' /\ SessionsFit' /\ LocksExclude'
  BY SlotCloses DEF SessionInv, DeadlockAbort, Crash
<1>2. TypeOK' /\ BooksType'
  BY DEF SessionInv, TypeOK, BooksType, DeadlockAbort, Crash, vars, books
<1> QED
  BY <1>1, <1>2 DEF SessionInv

(***************************************************************************)
(* The jobs that begin are jobs.                                           *)
(***************************************************************************)
LEMMA JobsBegin ==
  /\ \A k \in Keys, c \in Contracts : Job("fund", k, c) \in Jobs
  /\ \A e \in Events : Job("event", e, EventOf[e].on) \in Jobs
  /\ \A r \in Refs \cup Foreign : Job("paystack", r, r) \in Jobs
  /\ \A r \in Refs : Job("sweep", r, r) \in Jobs
BY DEF Jobs, Job

LEMMA SessionInit == PayInit => SessionInv
<1> SUFFICES ASSUME PayInit PROVE SessionInv
  OBVIOUS
<1>1. TypeOK
  BY InitType DEF PayInit
<1>2. BooksType
  <2>1. <<>> \in Seq(Chargers)
    BY EmptySeq
  <2> QED
    BY <2>1 DEF PayInit, BooksType
<1>3. SessionType /\ SessionsFit /\ LocksExclude
  BY DEF PayInit, SessionType, SessionsFit, LocksExclude, Fits, Labels, ContractStatus
<1> QED
  BY <1>1, <1>2, <1>3 DEF SessionInv

LEMMA SessionNext == SessionInv /\ [PayNext]_pvars => SessionInv'
<1> SUFFICES ASSUME SessionInv, [PayNext]_pvars PROVE SessionInv'
  OBVIOUS
<1>1. ASSUME NEW s \in Handlers, NEW k \in Keys, NEW c \in Contracts, BeginFund(s, k, c)
      PROVE  SessionInv'
  BY <1>1, JobsBegin, BeginFits DEF BeginFund, Slots
<1>2. ASSUME NEW s \in Handlers, NEW e \in Events, BeginEvent(s, e)
      PROVE  SessionInv'
  BY <1>2, JobsBegin, BeginFits DEF BeginEvent, Slots
<1>3. ASSUME NEW s \in Handlers, NEW r \in Refs \cup Foreign, BeginPaystack(s, r)
      PROVE  SessionInv'
  BY <1>3, JobsBegin, BeginFits DEF BeginPaystack, Slots
<1>4. ASSUME NEW s \in Sweepers, NEW r \in Refs, BeginSweep(s, r)
      PROVE  SessionInv'
  BY <1>4, JobsBegin, BeginFits DEF BeginSweep, Slots
<1>5. ASSUME NEW s \in Slots, Step(s)
      PROVE  SessionInv'
  BY <1>5, FundLockFits, FundCommitFits, EventInsertFits, EventTouchFits,
     EventConfirmFits, VerifyFits, ConfirmFits, RecordFits
     DEF Step, VerifyAnswered, VerifyUnreachable
<1>6. ASSUME NEW s \in Slots, DeadlockAbort(s) \/ Crash(s)
      PROVE  SessionInv'
  BY <1>6, EndFits
<1> QED
  BY <1>1, <1>2, <1>3, <1>4, <1>5, <1>6, OutsideFits DEF PayNext

LEMMA SessionCorrect == PaySpec => []SessionInv
BY SessionInit, SessionNext, PTL DEF PaySpec

(***************************************************************************)
(* Every reachable state has the right types, and no row is ever locked by *)
(* two transactions at once (SELECT ... FOR UPDATE of the contract, the    *)
(* unique event id, the update of the payment transaction).                *)
(***************************************************************************)
THEOREM PaymentsTypeCorrect == PaySpec => []PayTypeOK
<1>1. SessionInv => PayTypeOK
  <2> SUFFICES ASSUME SessionInv PROVE PayTypeOK
    OBVIOUS
  <2>1. \A s \in Slots : Busy(s) <=> job[s] # None
    BY DEF SessionInv, SessionsFit, Fits, Busy
  <2> QED
    BY <2>1 DEF SessionInv, BooksType, SessionType, LocksExclude, PayTypeOK, Chargers
<1> QED
  BY <1>1, SessionCorrect, PTL

-----------------------------------------------------------------------------
(***************************************************************************)
(* What any step does to a session that does not take it: the session      *)
(* stays where it is, a contract that it has locked is not funded, and no  *)
(* key is stored for such a contract.                                      *)
(***************************************************************************)
Spared(t) ==
  /\ job'[t] = job[t] /\ pc'[t] = pc[t] /\ seen'[t] = seen[t]
  /\ \A c \in Contracts :
       \/ contract'[c] = contract[c]
       \/ contract[c] = "absent" /\ contract'[c] = "draft"
       \/ contract'[c] = "active" /\ c \notin locked[t]
  /\ \A k \in Keys : keys'[k] # keys[k] => keys'[k] \notin locked[t]

LEMMA SparedSound ==
  ASSUME SessionInv, NEW t \in Slots, Sound(t), Spared(t)
  PROVE  Sound(t)'
<1>1. job'[t] = job[t] /\ pc'[t] = pc[t] /\ seen'[t] = seen[t]
  BY DEF Spared
<1>2. PICK j : j = job[t]
  OBVIOUS
<1>3. CASE j = None
  BY <1>1, <1>2, <1>3 DEF Sound, CommitReady, AboutExisting, ChargedBefore, Reading, At
<1>4. CASE j # None
  <2>1. j \in Jobs
    BY <1>2, <1>4 DEF SessionInv, SessionType
  <2>2. CommitReady(t)'
    <3> SUFFICES ASSUME j.type = "fund", pc[t] = "commit"
                 PROVE  contract'[j.on] = "draft" /\ keys'[j.id] # j.on
      BY <1>1, <1>2 DEF Sound, CommitReady, At, Total, MilestonesOf
    <3>1. contract[j.on] = "draft" /\ keys[j.id] # j.on
      BY <1>2, <1>4 DEF Sound, CommitReady, At
    <3>2. j.on \in locked[t]
      BY <1>2, <1>4 DEF SessionInv, SessionsFit, Fits
    <3>3. j.id \in Keys /\ j.on \in Contracts
      BY <2>1, JobFacts
    <3> QED
      BY <3>1, <3>2, <3>3 DEF Spared
  <2>3. AboutExisting(t)' /\ ChargedBefore(t)'
    <3>1. CASE j.on \notin Contracts \cup Refs
      <4>1. j.on \in Foreign /\ j.type \in {"event", "paystack"}
        BY <2>1, <3>1, JobFacts
      <4>2. pc[t] = "start"
        BY <1>2, <1>4, <4>1, <3>1 DEF SessionInv, SessionsFit, Fits
      <4> QED
        BY <1>1, <1>2, <4>1, <4>2 DEF AboutExisting, ChargedBefore, Reading, At
    <3>2. CASE j.on \in Contracts \cup Refs
      <4>1. PICK c \in Contracts : c = Charged(j.on)
        BY <3>2, ChargedType
      <4>2. /\ contract[c] # "absent" => contract'[c] # "absent"
            /\ contract[c] \notin {"absent", "draft"}
                 => contract'[c] \notin {"absent", "draft"}
        BY DEF Spared
      <4> QED
        BY <1>1, <1>2, <4>1, <4>2
           DEF Sound, AboutExisting, ChargedBefore, Reading, At, Unfunded, Charged
    <3> QED
      BY <3>1, <3>2
  <2> QED
    BY <2>2, <2>3 DEF Sound
<1> QED
  BY <1>3, <1>4

\* What BooksInv says of the books alone.
Consistent ==
  /\ ChargedUnlessUnfunded
  /\ KeyIffCharged
  /\ RefusedNotStored
  /\ RefsKnown
  /\ RecordedMeansDone

LEMMA BooksStep ==
  ASSUME SessionInv, BooksInv, Consistent', \A t \in Slots : Spared(t) \/ Sound(t)'
  PROVE  BooksInv'
BY SparedSound DEF BooksInv, Consistent

LEMMA BooksSame ==
  ASSUME BooksInv, UNCHANGED <<contract, charges, keys, tx, processed, answer, outcome>>
  PROVE  Consistent'
BY DEF BooksInv, Consistent, ChargedUnlessUnfunded, Unfunded, KeyIffCharged, Sources,
       RefusedNotStored, RefsKnown, RecordedMeansDone, Charged

(***************************************************************************)
(* A session that closes stands for nothing, and no other has moved.       *)
(***************************************************************************)
LEMMA Closed ==
  ASSUME SessionInv, NEW s \in Slots, Close(s)
  PROVE  /\ Sound(s)'
         /\ \A t \in Slots \ {s} : /\ job'[t] = job[t] /\ pc'[t] = pc[t]
                                   /\ seen'[t] = seen[t]
<1>1. job'[s] = None
  BY DEF SessionInv, SessionType, Close
<1> QED
  BY <1>1 DEF SessionInv, SessionType, Close, Sound, CommitReady, AboutExisting,
              ChargedBefore, Reading, At

(***************************************************************************)
(* A charge funds its contract, adds one source to it, and touches no      *)
(* other.                                                                  *)
(***************************************************************************)
LEMMA ChargeEffects ==
  ASSUME SessionInv, NEW c \in Contracts, NEW amount, NEW by \in Chargers,
         Charge(c, amount, by)
  PROVE  /\ contract'[c] = "active"
         /\ Len(charges'[c]) = Len(charges[c]) + 1
         /\ charges'[c] # <<>>
         /\ Sources(c)' = Sources(c) \cup {by}
         /\ \A d \in Contracts \ {c} : /\ contract'[d] = contract[d]
                                       /\ charges'[d] = charges[d]
                                       /\ Sources(d)' = Sources(d)
<1>1. /\ contract'[c] = "active"
      /\ charges'[c] = Append(charges[c], by)
      /\ \A d \in Contracts \ {c} : contract'[d] = contract[d] /\ charges'[d] = charges[d]
  BY DEF SessionInv, TypeOK, BooksType, Charge
<1>2. PICK q \in Seq(Chargers) : q = charges[c]
  BY DEF SessionInv, BooksType
<1>3. PICK q2 : q2 = Append(q, by)
  OBVIOUS
<1>4. /\ Len(q) \in Nat
      /\ Len(q2) = Len(q) + 1 /\ q2 # <<>> /\ q2[Len(q) + 1] = by
      /\ \A i \in 1 .. Len(q) : q2[i] = q[i]
  BY <1>3, AppendProperties, LenProperties
<1>5. {q2[i] : i \in 1 .. Len(q2)} = {q[i] : i \in 1 .. Len(q)} \cup {by}
  BY <1>4
<1>6. Sources(c)' = Sources(c) \cup {by}
  BY <1>1, <1>2, <1>3, <1>5 DEF Sources
<1> QED
  BY <1>1, <1>2, <1>3, <1>4, <1>6 DEF Sources

(***************************************************************************)
(* Steps that write nothing into the books.                                *)
(***************************************************************************)
LEMMA OtherSpared ==
  ASSUME SessionInv, NEW s \in Slots, NEW t \in Slots \ {s},
         job'[t] = job[t], pc'[t] = pc[t], seen'[t] = seen[t],
         UNCHANGED <<contract, keys>>
  PROVE  Spared(t)
BY DEF Spared

LEMMA BeginBooks ==
  ASSUME SessionInv, BooksInv, NEW s \in Slots, NEW j \in Jobs, Begin(s, j),
         j.on \notin Foreign => contract[Charged(j.on)] # "absent"
  PROVE  BooksInv'
<1>1. UNCHANGED <<contract, charges, keys, tx, processed, answer, outcome>>
  BY DEF Begin, vars, books
<1>2. job'[s] = j /\ pc'[s] = "start"
  BY DEF SessionInv, SessionType, Begin, Goto
<1>3. \A t \in Slots \ {s} : job'[t] = job[t] /\ pc'[t] = pc[t] /\ seen'[t] = seen[t]
  BY DEF SessionInv, SessionType, Begin, Goto
<1>4. Sound(s)'
  BY <1>1, <1>2 DEF Sound, CommitReady, AboutExisting, ChargedBefore, Reading, At, Charged
<1> QED
  BY <1>1, <1>3, <1>4, BooksSame, BooksStep, OtherSpared

LEMMA EndBooks ==
  ASSUME SessionInv, BooksInv, NEW s \in Slots, Close(s),
         UNCHANGED <<contract, charges, keys, tx, processed, answer, outcome>>
  PROVE  BooksInv'
BY Closed, BooksSame, BooksStep, OtherSpared

LEMMA FundLockBooks ==
  ASSUME SessionInv, BooksInv, NEW s \in Slots, FundLock(s)
  PROVE  BooksInv'
<1> DEFINE j == job[s]
           a == FundAnswer(j.id, j.on)
<1>1. j \in Jobs /\ j.type = "fund" /\ j.id \in Keys /\ j.on \in Contracts /\ j # None
  BY JobFacts DEF SessionInv, SessionType, FundLock, At
<1>2. UNCHANGED <<contract, charges, keys, tx, processed, outcome>>
  BY DEF FundLock, vars
<1>3. keys[j.id] \in Contracts \cup {None}
  BY <1>1 DEF SessionInv, BooksType
<1>4. CASE a = "created"
  <2>1. UNCHANGED answer /\ job'[s] = j
    BY <1>4 DEF FundLock
  <2>2. \A t \in Slots \ {s} : job'[t] = job[t] /\ pc'[t] = pc[t] /\ seen'[t] = seen[t]
    BY <1>4 DEF SessionInv, SessionType, FundLock, Goto
  <2>3. /\ keys[j.id] # j.on /\ contract[j.on] = "draft"
        /\ Total(j.on) \in 1 .. MaxInt
    BY <1>3, <1>4, NoneAssumption, <1>1 DEF FundAnswer, MayCharge
  <2>4. Total(job'[s].on) = Total(j.on)
    BY <2>1
  <2>5. j.on \notin Refs \cup Foreign /\ Charged(j.on) = j.on
    BY <1>1, NamesAssumption, ChargedType
  <2>6. Sound(s)'
    <3>1. CommitReady(s)'
      BY <1>2, <2>1, <2>3, <2>4 DEF CommitReady
    <3>2. AboutExisting(s)'
      BY <1>2, <2>1, <2>3, <2>5 DEF AboutExisting, Charged
    <3>3. ChargedBefore(s)'
      BY <1>1, <2>1 DEF ChargedBefore, Reading, At
    <3> QED
      BY <3>1, <3>2, <3>3 DEF Sound
  <2> QED
    BY <1>2, <2>1, <2>2, <2>6, BooksSame, BooksStep, OtherSpared
<1>5. CASE a # "created"
  <2>1. Close(s) /\ Answered(j, a)
    BY <1>5 DEF FundLock
  <2>2. a = "refused" => keys[j.id] # j.on
    BY <1>1, <1>3, NoneAssumption DEF FundAnswer
  <2>3. RefusedNotStored'
    <3> SUFFICES ASSUME NEW k \in Keys, NEW c \in Contracts, answer'[k][c] = "refused"
                 PROVE  keys[k] # c
      BY <1>2 DEF RefusedNotStored
    <3>1. answer[k] \in [Contracts -> {"none", "created", "replayed", "refused"}]
      BY DEF SessionInv, BooksType
    <3>2. CASE k = j.id /\ c = j.on
      <4> HIDE DEF j, a
      <4>1. answer'[k][c] = a
        BY <1>1, <2>1, <3>1, <3>2 DEF SessionInv, BooksType, Answered
      <4> QED
        BY <2>2, <3>2, <4>1
    <3>3. CASE k # j.id \/ c # j.on
      <4> HIDE DEF j, a
      <4>1. answer'[k][c] = answer[k][c]
        BY <1>1, <2>1, <3>1, <3>3 DEF SessionInv, BooksType, Answered
      <4> QED
        BY <4>1 DEF BooksInv, RefusedNotStored
    <3> QED
      BY <3>2, <3>3
  <2>4. Consistent'
    BY <1>2, <2>3
       DEF BooksInv, Consistent, ChargedUnlessUnfunded, Unfunded, KeyIffCharged, Sources,
           RefsKnown, RecordedMeansDone, Charged
  <2> QED
    BY <1>2, <2>1, <2>4, Closed, BooksStep, OtherSpared
<1> QED
  BY <1>4, <1>5

LEMMA FundCommitBooks ==
  ASSUME SessionInv, BooksInv, NEW s \in Slots, FundCommit(s)
  PROVE  BooksInv'
<1>0. PICK j : j = job[s]
  OBVIOUS
<1>1. /\ j \in Jobs /\ j.type = "fund" /\ j.id \in Keys /\ j.on \in Contracts
      /\ j # None /\ pc[s] = "commit"
  BY <1>0, JobFacts DEF SessionInv, SessionType, FundCommit, At
<1>2. Sound(s) /\ Sound(s)'
  BY Closed DEF BooksInv, FundCommit
<1>3. contract[j.on] = "draft" /\ keys[j.id] # j.on
  BY <1>0, <1>1, <1>2 DEF Sound, CommitReady, At
<1>4. locked[s] = {j.on}
  BY <1>0, <1>1 DEF SessionInv, SessionsFit, Fits
<1>5. \A t \in Slots \ {s} : j.on \notin locked[t]
  BY <1>4 DEF SessionInv, LocksExclude
<1>6. UNCHANGED <<tx, processed, outcome>>
  BY DEF FundCommit
<1>7. PICK b \in {"created", "refused"} : Answered(j, b)
  BY <1>0 DEF FundCommit
<1>8. \A k \in Keys, c \in Contracts :
        answer'[k][c] = IF k = j.id /\ c = j.on THEN b ELSE answer[k][c]
  <2> SUFFICES ASSUME NEW k \in Keys, NEW c \in Contracts
               PROVE  answer'[k][c] = IF k = j.id /\ c = j.on THEN b ELSE answer[k][c]
    OBVIOUS
  <2>1. answer[k] \in [Contracts -> {"none", "created", "replayed", "refused"}]
    BY DEF SessionInv, BooksType
  <2> QED
    BY <1>1, <1>7, <2>1 DEF SessionInv, BooksType, Answered
<1>9. CASE keys[j.id] = None
  <2>1. Charge(j.on, Total(j.on), j.id) /\ keys' = [keys EXCEPT ![j.id] = j.on]
    BY <1>0, <1>9 DEF FundCommit, StoreKey
  <2>2. /\ contract'[j.on] = "active" /\ charges'[j.on] # <<>>
        /\ Sources(j.on)' = Sources(j.on) \cup {j.id}
        /\ \A d \in Contracts \ {j.on} : /\ contract'[d] = contract[d]
                                         /\ charges'[d] = charges[d]
                                         /\ Sources(d)' = Sources(d)
    BY <1>1, <2>1, ChargeEffects DEF Chargers
  <2>3. keys'[j.id] = j.on /\ \A k \in Keys \ {j.id} : keys'[k] = keys[k]
    BY <1>1, <2>1 DEF SessionInv, BooksType
  <2>4. answer'[j.id][j.on] = "created"
    <3>1. Answered(j, "created")
      BY <1>0, <1>9 DEF FundCommit
    <3>2. answer[j.id] \in [Contracts -> {"none", "created", "replayed", "refused"}]
      BY <1>1 DEF SessionInv, BooksType
    <3> QED
      BY <1>1, <3>1, <3>2 DEF SessionInv, BooksType, Answered
  <2>5. \A t \in Slots \ {s} : Spared(t)
    <3>1. \A t \in Slots \ {s} : job'[t] = job[t] /\ pc'[t] = pc[t] /\ seen'[t] = seen[t]
      BY Closed DEF FundCommit
    <3> QED
      BY <1>5, <2>2, <2>3, <3>1 DEF Spared
  <2>6. ChargedUnlessUnfunded'
    BY <1>1, <2>2 DEF BooksInv, ChargedUnlessUnfunded, Unfunded
  <2>7. KeyIffCharged'
    <3> SUFFICES ASSUME NEW k \in Keys, NEW c \in Contracts
                 PROVE  keys'[k] = c <=> k \in Sources(c)'
      BY DEF KeyIffCharged
    <3>1. keys[k] = c <=> k \in Sources(c)
      BY DEF BooksInv, KeyIffCharged
    <3> QED
      BY <1>9, <2>2, <2>3, <3>1, NoneAssumption
  <2>8. RefusedNotStored'
    <3> SUFFICES ASSUME NEW k \in Keys, NEW c \in Contracts, answer'[k][c] = "refused"
                 PROVE  keys'[k] # c
      BY DEF RefusedNotStored
    <3>1. answer'[k][c] = answer[k][c] /\ ~(k = j.id /\ c = j.on)
      BY <1>8, <2>4
    <3> QED
      BY <2>3, <3>1 DEF BooksInv, RefusedNotStored
  <2>9. RefsKnown' /\ RecordedMeansDone'
    <3>1. \A c \in Contracts : /\ contract[c] # "absent" => contract'[c] # "absent"
                               /\ charges[c] # <<>> => charges'[c] # <<>>
      BY <2>2
    <3>2. \A e \in Events : EventOf[e].on \notin Foreign => Charged(EventOf[e].on) \in Contracts
      BY ChargedType, PaymentIdsAssumption
    <3> QED
      BY <1>6, <3>1, <3>2, ChargedType DEF BooksInv, RefsKnown, RecordedMeansDone, Charged
  <2> QED
    BY <1>2, <2>5, <2>6, <2>7, <2>8, <2>9, BooksStep DEF Consistent
<1>10. CASE keys[j.id] # None
  <2>1. UNCHANGED <<contract, charges, keys>>
    BY <1>0, <1>10 DEF FundCommit, NoCharge
  <2>2. \A t \in Slots \ {s} : Spared(t)
    BY <2>1, Closed, OtherSpared DEF FundCommit
  <2>3. RefusedNotStored'
    BY <1>3, <1>8, <2>1 DEF BooksInv, RefusedNotStored
  <2>4. Consistent'
    BY <1>6, <2>1, <2>3
       DEF BooksInv, Consistent, ChargedUnlessUnfunded, Unfunded, KeyIffCharged, Sources,
           RefsKnown, RecordedMeansDone, Charged
  <2> QED
    BY <1>2, <2>2, <2>4, BooksStep
<1> QED
  BY <1>9, <1>10

LEMMA EventInsertBooks ==
  ASSUME SessionInv, BooksInv, NEW s \in Slots, EventInsert(s)
  PROVE  BooksInv'
<1>0. PICK j : j = job[s]
  OBVIOUS
<1>1. /\ j \in Jobs /\ j.type = "event" /\ j.id \in Events /\ j.on = EventOf[j.id].on
      /\ j # None /\ j.on \in Contracts \cup Refs \cup Foreign
  BY <1>0, JobFacts DEF SessionInv, SessionType, EventInsert, At
<1>2. UNCHANGED <<contract, charges, keys, tx, answer, outcome>>
  BY DEF EventInsert, vars
<1>3. processed' = processed \/ (processed' = processed \cup {j.id} /\ j.on \in Foreign)
  BY <1>0 DEF EventInsert
<1>4. RecordedMeansDone'
  <2>1. Events \cap Refs = {}
    BY NamesAssumption
  <2> QED
    BY <1>1, <1>2, <1>3, <2>1 DEF BooksInv, RecordedMeansDone, Charged
<1>5. Consistent'
  BY <1>2, <1>4
     DEF BooksInv, Consistent, ChargedUnlessUnfunded, Unfunded, KeyIffCharged, Sources,
         RefusedNotStored, RefsKnown
<1>6. CASE Close(s)
  BY <1>2, <1>5, <1>6, Closed, BooksStep, OtherSpared
<1>7. CASE ~Close(s)
  <2>1. /\ j.on \notin Foreign /\ job'[s] = j /\ pc'[s] \in {"touch", "confirm"}
        /\ seen'[s] = contract[Charged(j.on)]
        /\ \A t \in Slots \ {s} : job'[t] = job[t] /\ pc'[t] = pc[t] /\ seen'[t] = seen[t]
    BY <1>0, <1>7 DEF SessionInv, SessionType, EventInsert, Goto
  <2>2. Sound(s)'
    <3>1. contract[Charged(j.on)] # "absent"
      BY <1>0, <1>1, <2>1 DEF BooksInv, Sound, AboutExisting
    <3>2. Charged(j.on) \in Contracts
      BY <1>1, <2>1, ChargedType
    <3>3. seen'[s] = "draft" \/ contract[Charged(j.on)] \notin {"absent", "draft"}
      BY <2>1, <3>1
    <3> QED
      BY <1>1, <1>2, <2>1, <3>1, <3>3
         DEF Sound, CommitReady, AboutExisting, ChargedBefore, Reading, At, Unfunded, Charged
  <2> QED
    BY <1>2, <1>5, <2>1, <2>2, BooksStep, OtherSpared
<1> QED
  BY <1>6, <1>7

LEMMA EventTouchBooks ==
  ASSUME SessionInv, BooksInv, NEW s \in Slots, EventTouch(s)
  PROVE  BooksInv'
<1>1. UNCHANGED <<contract, charges, keys, tx, processed, answer, outcome, job, seen>>
  BY DEF EventTouch, vars, books
<1>2. /\ pc[s] = "touch" /\ pc'[s] = "confirm"
      /\ \A t \in Slots \ {s} : pc'[t] = pc[t]
  BY DEF SessionInv, SessionType, EventTouch, Goto, At
<1>3. job[s] # None /\ job[s].type = "event"
  BY DEF EventTouch, At
<1>4. Sound(s)'
  <2>1. Sound(s)
    BY DEF BooksInv
  <2> QED
    BY <1>1, <1>2, <1>3, <2>1
       DEF Sound, CommitReady, AboutExisting, ChargedBefore, Reading, At, Unfunded, Charged
<1> QED
  BY <1>1, <1>2, <1>4, BooksSame, BooksStep, OtherSpared

LEMMA EventConfirmBooks ==
  ASSUME SessionInv, BooksInv, NEW s \in Slots, EventConfirm(s)
  PROVE  BooksInv'
<1>0. PICK j : j = job[s]
  OBVIOUS
<1>1. /\ j \in Jobs /\ j.type = "event" /\ j.id \in Events /\ j.on = EventOf[j.id].on
      /\ j # None /\ j.on \in Contracts \cup Refs \cup Foreign /\ pc[s] = "confirm"
  BY <1>0, JobFacts DEF SessionInv, SessionType, EventConfirm, At
<1>2. j.on \notin Foreign
  BY <1>0, <1>1 DEF SessionInv, SessionsFit, Fits
<1>3. PICK c \in Contracts : c = Charged(j.on)
  BY <1>1, <1>2, ChargedType
<1>4. PICK amount : amount = IF EventOf[j.id].amount > 0 THEN EventOf[j.id].amount ELSE Total(c)
  OBVIOUS
<1>5. /\ UNCHANGED <<keys, answer, outcome>> /\ Free(s, c)
      /\ processed' = processed \cup {j.id}
      /\ tx' = [r \in Refs |-> IF r = j.on THEN "success" ELSE tx[r]]
      /\ IF MayCharge(seen[s]) THEN Charge(c, amount, j.id) ELSE NoCharge
  BY <1>0, <1>3, <1>4 DEF EventConfirm
<1>6. /\ contract'[c] \notin {"absent", "draft"} /\ charges'[c] # <<>>
      /\ \A d \in Contracts :
           \/ /\ contract'[d] = contract[d] /\ charges'[d] = charges[d]
              /\ Sources(d)' = Sources(d)
           \/ /\ d = c /\ contract'[d] = "active"
              /\ Sources(d)' = Sources(d) \cup {j.id}
  <2>1. CASE MayCharge(seen[s])
    BY <1>1, <1>5, <2>1, ChargeEffects DEF Chargers
  <2>2. CASE ~MayCharge(seen[s])
    <3>1. contract[c] \notin {"absent", "draft"}
      BY <1>0, <1>1, <1>3, <2>2
         DEF BooksInv, Sound, ChargedBefore, Reading, At, MayCharge, Unfunded
    <3>2. charges[c] # <<>>
      BY <3>1 DEF BooksInv, ChargedUnlessUnfunded, Unfunded
    <3> QED
      BY <1>5, <2>2, <3>1, <3>2 DEF NoCharge, Sources
  <2> QED
    BY <2>1, <2>2
<1>7. \A d \in Contracts : /\ contract[d] # "absent" => contract'[d] # "absent"
                           /\ charges[d] # <<>> => charges'[d] # <<>>
  <2>1. \A d \in Contracts : charges'[d] = charges[d] \/ d = c
    BY <1>5, <1>1, ChargeEffects DEF NoCharge, Chargers
  <2> QED
    BY <1>6, <2>1
<1>8. ChargedUnlessUnfunded'
  <2> SUFFICES ASSUME NEW d \in Contracts
               PROVE  contract'[d] \in {"absent", "draft"} <=> charges'[d] = <<>>
    BY DEF ChargedUnlessUnfunded, Unfunded
  <2> QED
    BY <1>6 DEF BooksInv, ChargedUnlessUnfunded, Unfunded
<1>9. KeyIffCharged'
  <2>1. j.id \notin Keys
    BY <1>1, NamesAssumption
  <2> QED
    BY <1>5, <1>6, <2>1 DEF BooksInv, KeyIffCharged
<1>10. RefusedNotStored'
  BY <1>5 DEF BooksInv, RefusedNotStored
<1>11. RefsKnown'
  <2>1. \A r \in Refs : r = j.on => RefContract[r] = c
    BY <1>3, ChargedType
  <2> QED
    BY <1>5, <1>6, <1>7, <2>1, ChargedType DEF BooksInv, RefsKnown
<1>12. RecordedMeansDone'
  <2>1. ASSUME NEW e \in Events \cap processed', EventOf[e].on \notin Foreign
        PROVE  charges'[Charged(EventOf[e].on)] # <<>>
    <3>1. CASE e = j.id
      BY <1>1, <1>3, <1>6, <3>1
    <3>2. CASE e # j.id
      <4>1. charges[Charged(EventOf[e].on)] # <<>>
        BY <1>5, <2>1, <3>2 DEF BooksInv, RecordedMeansDone
      <4>2. Charged(EventOf[e].on) \in Contracts
        BY <2>1, ChargedType, PaymentIdsAssumption
      <4> QED
        BY <1>7, <4>1, <4>2
    <3> QED
      BY <3>1, <3>2
  <2>2. \A r \in Refs \cap processed' : tx'[r] \in {"success", "failed"}
    <3>1. \A r \in Refs : r # j.id
      BY <1>1, NamesAssumption
    <3> QED
      BY <1>5, <3>1 DEF BooksInv, RecordedMeansDone
  <2>3. ASSUME NEW r \in Refs, tx'[r] = "success" PROVE charges'[RefContract[r]] # <<>>
    <3>1. CASE r = j.on
      BY <1>3, <1>6, <3>1, ChargedType
    <3>2. CASE r # j.on
      BY <1>5, <1>7, <2>3, <3>2, ChargedType DEF BooksInv, RecordedMeansDone
    <3> QED
      BY <3>1, <3>2
  <2> QED
    BY <2>1, <2>2, <2>3 DEF RecordedMeansDone, Charged
<1>13. \A t \in Slots \ {s} : Spared(t)
  <2>1. \A t \in Slots \ {s} : job'[t] = job[t] /\ pc'[t] = pc[t] /\ seen'[t] = seen[t]
    BY Closed DEF EventConfirm
  <2> QED
    BY <1>5, <1>6, <2>1 DEF Spared, Free
<1>14. Sound(s)'
  BY Closed DEF EventConfirm
<1> QED
  BY <1>8, <1>9, <1>10, <1>11, <1>12, <1>13, <1>14, BooksStep DEF Consistent

LEMMA VerifyBooks ==
  ASSUME SessionInv, BooksInv, NEW s \in Slots, NEW status, Verify(s, status)
  PROVE  BooksInv'
<1>0. PICK j : j = job[s]
  OBVIOUS
<1>1. /\ j \in Jobs /\ j.type \in {"paystack", "sweep"} /\ j # None
      /\ j.on \in Refs \cup Foreign
  BY <1>0, JobFacts DEF SessionInv, SessionType, Verify, At
<1>2. UNCHANGED <<contract, charges, keys, tx, answer, outcome>>
  BY DEF Verify, vars
<1>3. processed' = IF j.on \in Foreign THEN processed \cup {j.on} ELSE processed
  BY <1>0 DEF Verify
<1>4. RecordedMeansDone'
  <2>1. Events \cap Foreign = {} /\ Refs \cap Foreign = {}
    BY NamesAssumption
  <2> QED
    BY <1>2, <1>3, <2>1 DEF BooksInv, RecordedMeansDone, Charged
<1>5. Consistent'
  BY <1>2, <1>4
     DEF BooksInv, Consistent, ChargedUnlessUnfunded, Unfunded, KeyIffCharged, Sources,
         RefusedNotStored, RefsKnown
<1>6. CASE Close(s)
  BY <1>2, <1>5, <1>6, Closed, BooksStep, OtherSpared
<1>7. CASE ~Close(s)
  <2>1. /\ job'[s] = j /\ pc'[s] \in {"confirm", "failed"}
        /\ \A t \in Slots \ {s} : job'[t] = job[t] /\ pc'[t] = pc[t] /\ seen'[t] = seen[t]
    BY <1>0, <1>7 DEF SessionInv, SessionType, Verify, Verdict, Goto
  <2>2. Sound(s)'
    <3>1. AboutExisting(s)
      BY DEF BooksInv, Sound
    <3> QED
      BY <1>0, <1>1, <1>2, <2>1, <3>1
         DEF Sound, CommitReady, AboutExisting, ChargedBefore, Reading, At, Charged
  <2> QED
    BY <1>2, <1>5, <2>1, <2>2, BooksStep, OtherSpared
<1> QED
  BY <1>6, <1>7

LEMMA ConfirmBooks ==
  ASSUME SessionInv, BooksInv, NEW s \in Slots, Confirm(s)
  PROVE  BooksInv'
<1>0. PICK j : j = job[s]
  OBVIOUS
<1>1. /\ j \in Jobs /\ j.type \in {"paystack", "sweep"} /\ j # None /\ pc[s] = "confirm"
  BY <1>0, JobFacts DEF SessionInv, SessionType, Confirm, At
<1>2. j.on \in Refs /\ j.id = j.on
  BY <1>0, <1>1, JobFacts DEF SessionInv, SessionsFit, Fits
<1>3. PICK c \in Contracts : c = Charged(j.on)
  BY <1>2, ChargedType
<1>4. /\ UNCHANGED <<keys, tx, processed, answer, outcome, job, seen>> /\ Free(s, c)
      /\ IF MayCharge(contract[c]) THEN Charge(c, Total(c), j.id) ELSE NoCharge
  BY <1>0, <1>3 DEF Confirm
<1>5. contract[c] # "absent"
  <2>1. j.on \notin Foreign
    BY <1>2, NamesAssumption
  <2> QED
    BY <1>0, <1>1, <1>3, <2>1 DEF BooksInv, Sound, AboutExisting
<1>6. /\ contract'[c] \notin {"absent", "draft"} /\ charges'[c] # <<>>
      /\ \A d \in Contracts :
           \/ /\ contract'[d] = contract[d] /\ charges'[d] = charges[d]
              /\ Sources(d)' = Sources(d)
           \/ /\ d = c /\ contract'[d] = "active"
              /\ Sources(d)' = Sources(d) \cup {j.id}
  <2>1. CASE MayCharge(contract[c])
    BY <1>2, <1>4, <2>1, ChargeEffects DEF Chargers
  <2>2. CASE ~MayCharge(contract[c])
    <3>1. charges[c] # <<>>
      BY <1>5, <2>2 DEF BooksInv, ChargedUnlessUnfunded, Unfunded, MayCharge
    <3> QED
      BY <1>4, <1>5, <2>2, <3>1 DEF NoCharge, Sources, MayCharge
  <2> QED
    BY <2>1, <2>2
<1>7. \A d \in Contracts : /\ contract[d] # "absent" => contract'[d] # "absent"
                           /\ charges[d] # <<>> => charges'[d] # <<>>
  BY <1>6
<1>8. ChargedUnlessUnfunded'
  <2> SUFFICES ASSUME NEW d \in Contracts
               PROVE  contract'[d] \in {"absent", "draft"} <=> charges'[d] = <<>>
    BY DEF ChargedUnlessUnfunded, Unfunded
  <2> QED
    BY <1>6 DEF BooksInv, ChargedUnlessUnfunded, Unfunded
<1>9. KeyIffCharged'
  <2>1. j.id \notin Keys
    BY <1>2, NamesAssumption
  <2> QED
    BY <1>4, <1>6, <2>1 DEF BooksInv, KeyIffCharged
<1>10. RefusedNotStored' /\ RefsKnown'
  BY <1>4, <1>7, ChargedType DEF BooksInv, RefusedNotStored, RefsKnown
<1>11. RecordedMeansDone'
  <2>1. \A e \in Events : EventOf[e].on \notin Foreign => Charged(EventOf[e].on) \in Contracts
    BY ChargedType, PaymentIdsAssumption
  <2> QED
    BY <1>4, <1>7, <2>1, ChargedType DEF BooksInv, RecordedMeansDone, Charged
<1>12. pc'[s] = "success" /\ \A t \in Slots \ {s} : pc'[t] = pc[t]
  BY DEF SessionInv, SessionType, Confirm, Goto
<1>13. \A t \in Slots \ {s} : Spared(t)
  BY <1>4, <1>6, <1>12 DEF Spared, Free
<1>14. Sound(s)'
  <2>1. job'[s] = j
    BY <1>0, <1>4
  <2> QED
    BY <1>1, <1>3, <1>6, <1>12, <2>1
       DEF Sound, CommitReady, AboutExisting, ChargedBefore, Reading, At, Unfunded, Charged
<1> QED
  BY <1>8, <1>9, <1>10, <1>11, <1>13, <1>14, BooksStep DEF Consistent

LEMMA RecordBooks ==
  ASSUME SessionInv, BooksInv, NEW s \in Slots, Record(s)
  PROVE  BooksInv'
<1>0. PICK j : j = job[s]
  OBVIOUS
<1>1. /\ j \in Jobs /\ j.type \in {"paystack", "sweep"} /\ j # None
      /\ pc[s] \in {"success", "failed"}
  BY <1>0, JobFacts DEF SessionInv, SessionType, Record, At
<1>2. j.on \in Refs /\ j.on \notin Foreign
  BY <1>0, <1>1, NamesAssumption DEF SessionInv, SessionsFit, Fits
<1>3. /\ UNCHANGED <<contract, charges, keys, answer, outcome>>
      /\ \/ UNCHANGED <<tx, processed>>
         \/ /\ tx' = [tx EXCEPT ![j.on] = pc[s]]
            /\ processed' \in {processed, processed \cup {j.on}}
  BY <1>0 DEF Record, vars
<1>4. RefsKnown'
  <2>1. contract[RefContract[j.on]] # "absent"
    BY <1>0, <1>1, <1>2, ChargedType DEF BooksInv, Sound, AboutExisting
  <2> QED
    BY <1>1, <1>2, <1>3, <2>1 DEF BooksInv, RefsKnown, SessionInv, BooksType
<1>5. RecordedMeansDone'
  <2>1. j.on \notin Events
    BY <1>2, NamesAssumption
  <2>2. pc[s] = "success" => charges[RefContract[j.on]] # <<>>
    BY <1>0, <1>1, <1>2, ChargedType
       DEF BooksInv, Sound, ChargedBefore, At, ChargedUnlessUnfunded, Unfunded
  <2>3. /\ \A r \in Refs \cap processed' : tx'[r] \in {"success", "failed"}
        /\ \A r \in Refs : tx'[r] = "success" => charges[RefContract[r]] # <<>>
    BY <1>1, <1>2, <1>3, <2>2 DEF BooksInv, RecordedMeansDone, SessionInv, BooksType
  <2> QED
    BY <1>3, <2>1, <2>3 DEF BooksInv, RecordedMeansDone, Charged
<1>6. Consistent'
  BY <1>3, <1>4, <1>5
     DEF BooksInv, Consistent, ChargedUnlessUnfunded, Unfunded, KeyIffCharged, Sources,
         RefusedNotStored
<1>7. Close(s)
  BY DEF Record
<1> QED
  BY <1>3, <1>6, <1>7, Closed, BooksStep, OtherSpared

LEMMA OutsideBooks ==
  ASSUME SessionInv, BooksInv,
         \/ \E c \in Contracts : Create(c)
         \/ \E r \in Refs : Checkout(r)
         \/ \E r \in Refs, o \in Outcomes : Pay(r, o)
         \/ UNCHANGED pvars
  PROVE  BooksInv'
<1>1. UNCHANGED <<charges, keys, processed, answer, job, pc, seen>>
  BY DEF Create, Checkout, Pay, pvars, books, session
<1>2. \A c \in Contracts :
        \/ contract'[c] = contract[c]
        \/ contract[c] = "absent" /\ contract'[c] = "draft"
  BY DEF SessionInv, TypeOK, Create, CreateContract, Checkout, Pay, pvars, vars
<1>3. RefsKnown' /\ RecordedMeansDone'
  <2>1. ASSUME NEW r \in Refs, Checkout(r) PROVE RefsKnown' /\ RecordedMeansDone'
    BY <2>1 DEF Checkout, BooksInv, RefsKnown, RecordedMeansDone, SessionInv, BooksType,
                vars, Charged
  <2>2. ASSUME NEW r \in Refs, NEW o \in Outcomes, Pay(r, o)
        PROVE  RefsKnown' /\ RecordedMeansDone'
    BY <2>2 DEF Pay, BooksInv, RefsKnown, RecordedMeansDone, SessionInv, BooksType,
                vars, books, Charged
  <2>3. CASE UNCHANGED <<books, outcome>>
    <3>1. \A r \in Refs : contract[RefContract[r]] # "absent" => contract'[RefContract[r]] # "absent"
      BY <1>2, ChargedType
    <3> QED
      BY <2>3, <3>1 DEF BooksInv, RefsKnown, RecordedMeansDone, books, Charged
  <2> QED
    BY <2>1, <2>2, <2>3 DEF Create, pvars
<1>4. Consistent'
  BY <1>1, <1>2, <1>3
     DEF BooksInv, Consistent, ChargedUnlessUnfunded, Unfunded, KeyIffCharged, Sources,
         RefusedNotStored
<1>5. \A t \in Slots : Spared(t)
  BY <1>1, <1>2 DEF Spared
<1> QED
  BY <1>4, <1>5, BooksStep

LEMMA BooksInit == PayInit => BooksInv
<1> SUFFICES ASSUME PayInit PROVE BooksInv
  OBVIOUS
<1>1. KeyIffCharged
  BY NoneAssumption DEF PayInit, KeyIffCharged, Sources
<1>2. ChargedUnlessUnfunded /\ RefusedNotStored /\ RefsKnown
  BY DEF PayInit, Init, ChargedUnlessUnfunded, Unfunded, RefusedNotStored, RefsKnown
<1>3. RecordedMeansDone
  BY DEF PayInit, RecordedMeansDone
<1>4. \A s \in Slots : Sound(s)
  BY DEF PayInit, Sound, CommitReady, AboutExisting, ChargedBefore, Reading, At
<1> QED
  BY <1>1, <1>2, <1>3, <1>4 DEF BooksInv

LEMMA BooksNext == SessionInv /\ BooksInv /\ [PayNext]_pvars => BooksInv'
<1> SUFFICES ASSUME SessionInv, BooksInv, [PayNext]_pvars PROVE BooksInv'
  OBVIOUS
<1>1. ASSUME NEW s \in Handlers, NEW k \in Keys, NEW c \in Contracts, BeginFund(s, k, c)
      PROVE  BooksInv'
  <2>1. Charged(c) = c
    BY ChargedType
  <2> QED
    BY <1>1, <2>1, JobsBegin, BeginBooks DEF BeginFund, Slots, Job
<1>2. ASSUME NEW s \in Handlers, NEW e \in Events, BeginEvent(s, e)
      PROVE  BooksInv'
  <2>1. EventOf[e].on \in Contracts \cup Refs \cup Foreign
    BY PaymentIdsAssumption
  <2>2. EventOf[e].on \notin Foreign => contract[Charged(EventOf[e].on)] # "absent"
    BY <1>2, <2>1, ChargedType DEF BeginEvent, BooksInv, RefsKnown
  <2> QED
    BY <1>2, <2>2, JobsBegin, BeginBooks DEF BeginEvent, Slots, Job
<1>3. ASSUME NEW s \in Handlers, NEW r \in Refs \cup Foreign, BeginPaystack(s, r)
      PROVE  BooksInv'
  <2>1. r \notin Foreign => contract[Charged(r)] # "absent"
    BY <1>3, ChargedType DEF BeginPaystack, BooksInv, RefsKnown
  <2> QED
    BY <1>3, <2>1, JobsBegin, BeginBooks DEF BeginPaystack, Slots, Job
<1>4. ASSUME NEW s \in Sweepers, NEW r \in Refs, BeginSweep(s, r)
      PROVE  BooksInv'
  <2>1. contract[Charged(r)] # "absent"
    BY <1>4, ChargedType DEF BeginSweep, BooksInv, RefsKnown
  <2> QED
    BY <1>4, <2>1, JobsBegin, BeginBooks DEF BeginSweep, Slots, Job
<1>5. ASSUME NEW s \in Slots, Step(s)
      PROVE  BooksInv'
  BY <1>5, FundLockBooks, FundCommitBooks, EventInsertBooks, EventTouchBooks,
     EventConfirmBooks, VerifyBooks, ConfirmBooks, RecordBooks
     DEF Step, VerifyAnswered, VerifyUnreachable
<1>6. ASSUME NEW s \in Slots, DeadlockAbort(s) \/ Crash(s)
      PROVE  BooksInv'
  <2>1. Close(s) /\ UNCHANGED <<contract, charges, keys, tx, processed, answer, outcome>>
    BY <1>6 DEF DeadlockAbort, Crash, vars, books
  <2> QED
    BY <2>1, EndBooks
<1> QED
  BY <1>1, <1>2, <1>3, <1>4, <1>5, <1>6, OutsideBooks DEF PayNext

LEMMA BooksCorrect == PaySpec => []BooksInv
<1>1. PayInit => SessionInv /\ BooksInv
  BY SessionInit, BooksInit
<1>2. SessionInv /\ BooksInv /\ [PayNext]_pvars => (SessionInv /\ BooksInv)'
  BY SessionNext, BooksNext
<1> QED
  BY <1>1, <1>2, PTL DEF PaySpec

(***************************************************************************)
(* However requests and events overlap and whatever crashes, a key is      *)
(* stored for a contract exactly if its request has charged it             *)
(* (fund_contract saves the key in the commit of the charge).              *)
(***************************************************************************)
THEOREM KeysFaithful == PaySpec => []KeyIffCharged
<1>1. BooksInv => KeyIffCharged
  BY DEF BooksInv
<1> QED
  BY <1>1, BooksCorrect, PTL

(***************************************************************************)
(* However requests and events overlap and whatever crashes, no request is *)
(* answered as refused whose key has charged the contract (fund_contract   *)
(* looks at the key, under the contract's lock, before the status).        *)
(***************************************************************************)
THEOREM RefusalsTrue == PaySpec => []RefusedNotCharged
<1>1. BooksInv => RefusedNotCharged
  BY DEF BooksInv, KeyIffCharged, RefusedNotStored, RefusedNotCharged
<1> QED
  BY <1>1, BooksCorrect, PTL

(***************************************************************************)
(* However events overlap and wherever a handler dies, a recorded event    *)
(* has had its effect and a transaction marked a success is in escrow (the *)
(* commits of _handle_standard_webhook and _handle_paystack_webhook).      *)
(***************************************************************************)
THEOREM RecordsTrue == PaySpec => []RecordedMeansDone
<1>1. BooksInv => RecordedMeansDone
  BY DEF BooksInv
<1> QED
  BY <1>1, BooksCorrect, PTL

-----------------------------------------------------------------------------
(***************************************************************************)
(* The third layer.  A step funds the contract of its own job and no       *)
(* other, and while an event on a draft contract is being handled no other *)
(* job funds that contract.                                                *)
(***************************************************************************)
Reported(c, amount) ==
  \/ amount = Total(c)
  \/ \E e \in Events : /\ EventOf[e].on \in Contracts \cup Refs
                       /\ c = Charged(EventOf[e].on)
                       /\ EventOf[e].amount > 0 /\ amount = EventOf[e].amount

Charging(s, c, amount, by) ==
  /\ job[s] # None /\ pc[s] \in {"commit", "confirm"}
  /\ job[s].on \notin Foreign /\ c = Charged(job[s].on)
  /\ contract[c] = "draft"
  /\ Reported(c, amount)
  /\ Charge(c, amount, by)

FundsOwn(s) ==
  /\ UNCHANGED untouched
  /\ \/ NoCharge
     \/ \E c \in Contracts, amount \in Nat, by \in Chargers : Charging(s, c, amount, by)

LEMMA StepFundsOwn ==
  ASSUME SessionInv, BooksInv, SeenCurrent, NEW s \in Slots, Step(s)
  PROVE  FundsOwn(s)
<1>0. PICK j : j = job[s]
  OBVIOUS
<1>1. CASE FundCommit(s)
  <2>1. /\ j \in Jobs /\ j.type = "fund" /\ j.id \in Keys /\ j.on \in Contracts
        /\ j # None /\ pc[s] = "commit"
    BY <1>0, <1>1, JobFacts DEF SessionInv, SessionType, FundCommit, At
  <2>2. contract[j.on] = "draft"
    BY <1>0, <2>1 DEF BooksInv, Sound, CommitReady, At
  <2>3. Charged(j.on) = j.on /\ j.on \notin Foreign /\ Total(j.on) \in Nat /\ j.id \in Chargers
    BY <2>1, ChargedType, NamesAssumption, TotalType DEF Chargers
  <2>4. UNCHANGED untouched /\ (NoCharge \/ Charge(j.on, Total(j.on), j.id))
    BY <1>0, <1>1 DEF FundCommit
  <2>5. Charge(j.on, Total(j.on), j.id) => Charging(s, j.on, Total(j.on), j.id)
    BY <1>0, <2>1, <2>2, <2>3 DEF Charging, Reported
  <2> QED
    BY <2>1, <2>3, <2>4, <2>5 DEF FundsOwn
<1>2. CASE EventConfirm(s)
  <2>1. /\ j \in Jobs /\ j.type = "event" /\ j.id \in Events /\ j.on = EventOf[j.id].on
        /\ j # None /\ j.on \in Contracts \cup Refs \cup Foreign /\ pc[s] = "confirm"
    BY <1>0, <1>2, JobFacts DEF SessionInv, SessionType, EventConfirm, At
  <2>2. j.on \notin Foreign
    BY <1>0, <2>1 DEF SessionInv, SessionsFit, Fits
  <2>3. PICK c \in Contracts : c = Charged(j.on)
    BY <2>1, <2>2, ChargedType
  <2>4. PICK a : a = IF EventOf[j.id].amount > 0 THEN EventOf[j.id].amount ELSE Total(c)
    OBVIOUS
  <2>5. a \in Nat /\ j.id \in Chargers /\ Reported(c, a)
    BY <2>1, <2>2, <2>3, <2>4, TotalType, PaymentIdsAssumption DEF Chargers, Reported
  <2>6. UNCHANGED untouched /\ IF MayCharge(seen[s]) THEN Charge(c, a, j.id) ELSE NoCharge
    BY <1>0, <1>2, <2>3, <2>4 DEF EventConfirm
  <2>7. MayCharge(seen[s]) => contract[c] = "draft"
    BY <1>0, <2>1, <2>3 DEF SeenCurrent, Reading, At, MayCharge
  <2>8. MayCharge(seen[s]) => Charging(s, c, a, j.id)
    BY <1>0, <2>1, <2>2, <2>3, <2>5, <2>6, <2>7 DEF Charging
  <2> QED
    BY <2>5, <2>6, <2>8 DEF FundsOwn
<1>3. CASE Confirm(s)
  <2>1. /\ j \in Jobs /\ j.type \in {"paystack", "sweep"} /\ j # None /\ pc[s] = "confirm"
    BY <1>0, <1>3, JobFacts DEF SessionInv, SessionType, Confirm, At
  <2>2. j.on \in Refs /\ j.id = j.on /\ j.on \notin Foreign
    BY <1>0, <2>1, JobFacts, NamesAssumption DEF SessionInv, SessionsFit, Fits
  <2>3. PICK c \in Contracts : c = Charged(j.on)
    BY <2>2, ChargedType
  <2>4. Total(c) \in Nat /\ j.id \in Chargers
    BY <2>2, TotalType DEF Chargers
  <2>5. UNCHANGED untouched /\ IF MayCharge(contract[c]) THEN Charge(c, Total(c), j.id) ELSE NoCharge
    BY <1>0, <1>3, <2>3 DEF Confirm
  <2>6. MayCharge(contract[c]) => Charging(s, c, Total(c), j.id)
    BY <1>0, <2>1, <2>2, <2>3, <2>5 DEF Charging, MayCharge, Reported
  <2> QED
    BY <2>4, <2>5, <2>6 DEF FundsOwn
<1>4. CASE FundLock(s) \/ EventInsert(s) \/ EventTouch(s) \/ Record(s)
  BY <1>4 DEF FundLock, EventInsert, EventTouch, Record, FundsOwn, NoCharge, untouched,
              vars, books
<1>5. ASSUME NEW status, Verify(s, status) PROVE FundsOwn(s)
  BY <1>5 DEF Verify, FundsOwn, NoCharge, untouched, vars
<1> QED
  BY <1>1, <1>2, <1>3, <1>4, <1>5 DEF Step, VerifyAnswered, VerifyUnreachable

(***************************************************************************)
(* While an event on a draft contract is being handled, no other session   *)
(* is about to fund the contract.                                          *)
(***************************************************************************)
LEMMA NoRivalFunds ==
  ASSUME SessionInv, JobsApart, NEW s \in Slots, NEW t \in Slots \ {s},
         Reading(t), job[s] # None, pc[s] \in {"commit", "confirm"},
         job[s].on \notin Foreign, contract[Charged(job[t].on)] = "draft"
  PROVE  Charged(job[s].on) # Charged(job[t].on)
<1>0. PICK i, j : i = job[s] /\ j = job[t]
  OBVIOUS
<1>1. i \in Jobs /\ j \in Jobs /\ j # None /\ j.type = "event" /\ j.id \in Events
  BY <1>0, JobFacts DEF SessionInv, SessionType, Reading, At
<1>2. j.on \notin Foreign /\ j.id \in locked[t]
  BY <1>0, <1>1 DEF SessionInv, SessionsFit, Fits, Reading, At
<1>3. i.id # j.id
  <2>1. CASE i.type = "event"
    <3>1. i.id \in locked[s]
      BY <1>0, <1>1, <2>1 DEF SessionInv, SessionsFit, Fits
    <3> QED
      BY <1>2, <3>1 DEF SessionInv, LocksExclude
  <2>2. CASE i.type # "event"
    <3>1. i.id \in Keys \cup Refs \cup Foreign
      BY <1>1, <2>2, JobFacts
    <3> QED
      BY <1>1, <3>1, NamesAssumption
  <2> QED
    BY <2>1, <2>2
<1> QED
  BY <1>0, <1>1, <1>2, <1>3 DEF JobsApart, Rival

(***************************************************************************)
(* A step moves one session, which goes on with its job or closes.         *)
(***************************************************************************)
LEMMA StepMovesOne ==
  ASSUME SessionInv, NEW s \in Slots, Step(s) \/ DeadlockAbort(s) \/ Crash(s)
  PROVE  /\ \A t \in Slots \ {s} : job'[t] = job[t] /\ pc'[t] = pc[t] /\ seen'[t] = seen[t]
         /\ job'[s] \in {job[s], None}
<1>1. CASE Close(s)
  BY <1>1 DEF SessionInv, SessionType, Close
<1>2. ASSUME NEW l, Goto(s, l), UNCHANGED job,
             UNCHANGED seen \/ \E v : seen' = [seen EXCEPT ![s] = v]
      PROVE  /\ \A t \in Slots \ {s} : /\ job'[t] = job[t] /\ pc'[t] = pc[t]
                                       /\ seen'[t] = seen[t]
             /\ job'[s] \in {job[s], None}
  BY <1>2 DEF SessionInv, SessionType, Goto
<1>3. CASE DeadlockAbort(s) \/ Crash(s) \/ FundCommit(s) \/ EventConfirm(s) \/ Record(s)
  BY <1>1, <1>3 DEF DeadlockAbort, Crash, FundCommit, EventConfirm, Record
<1>4. CASE FundLock(s)
  BY <1>1, <1>2, <1>4 DEF FundLock
<1>5. CASE EventInsert(s)
  BY <1>1, <1>2, <1>5 DEF EventInsert
<1>6. CASE EventTouch(s) \/ Confirm(s)
  BY <1>2, <1>6 DEF EventTouch, Confirm
<1>7. ASSUME NEW status, Verify(s, status)
      PROVE  /\ \A t \in Slots \ {s} : /\ job'[t] = job[t] /\ pc'[t] = pc[t]
                                       /\ seen'[t] = seen[t]
             /\ job'[s] \in {job[s], None}
  BY <1>1, <1>2, <1>7 DEF Verify
<1> QED
  BY <1>3, <1>4, <1>5, <1>6, <1>7 DEF Step, VerifyAnswered, VerifyUnreachable

(***************************************************************************)
(* No contract becomes a draft while there is a job about it: rivals that  *)
(* were kept apart need not be any more, and none has to be kept apart     *)
(* that was not before.                                                    *)
(***************************************************************************)
LEMMA JobsStayApart ==
  ASSUME SessionInv, BooksInv, JobsApart,
         \A t \in Slots : job'[t] \in {job[t], None},
         \A c \in Contracts : \/ contract'[c] = contract[c]
                             \/ contract[c] = "absent"
                             \/ contract'[c] = "active"
  PROVE  JobsApart'
<1> SUFFICES ASSUME NEW s \in Slots, NEW t \in Slots,
                    job'[s] # None, Rival(job'[s], job'[t]),
                    contract'[Charged(job'[s].on)] = "draft"
             PROVE  job'[s].type # "event" /\ job'[t].type # "event"
  BY DEF JobsApart, Rival, Charged
<1>1. job'[s] = job[s] /\ job'[t] = job[t]
  BY DEF Rival
<1>2. PICK j \in Jobs : j = job[s] /\ j.on \notin Foreign
  BY <1>1 DEF Rival, SessionInv, SessionType
<1>3. PICK c \in Contracts : c = Charged(j.on)
  <2>1. j.on \in Contracts \cup Refs
    BY <1>2, JobFacts
  <2> QED
    BY <2>1, ChargedType
<1>4. contract[c] # "absent"
  BY <1>1, <1>2, <1>3 DEF BooksInv, Sound, AboutExisting
<1>5. contract[c] = "draft"
  BY <1>1, <1>2, <1>3, <1>4
<1> QED
  BY <1>1, <1>2, <1>3, <1>5 DEF JobsApart

LEMMA BeginApart ==
  ASSUME SessionInv, ApartInv, ~Overlaps, NEW s \in Slots, NEW j \in Jobs, Begin(s, j)
  PROVE  ApartInv'
<1>1. /\ job'[s] = j /\ pc'[s] = "start"
      /\ \A t \in Slots \ {s} : job'[t] = job[t] /\ pc'[t] = pc[t]
      /\ UNCHANGED <<seen, contract, charges>>
  BY DEF SessionInv, SessionType, Begin, Goto, vars, books
<1>2. JobsApart'
  <2> SUFFICES ASSUME NEW a \in Slots, NEW b \in Slots,
                      job'[a] # None, Rival(job'[a], job'[b]),
                      contract[Charged(job'[a].on)] = "draft"
               PROVE  job'[a].type # "event" /\ job'[b].type # "event"
    BY <1>1 DEF JobsApart, Rival, Charged
  <2>1. CASE a = s /\ b # s
    BY <1>1, <2>1 DEF Begin, Apart
  <2>2. CASE a # s /\ b = s
    <3>1. Rival(j, job[a]) /\ contract[Charged(j.on)] = "draft"
      BY <1>1, <2>2 DEF Rival
    <3> QED
      BY <1>1, <2>2, <3>1 DEF Begin, Apart
  <2>3. CASE a # s /\ b # s
    BY <1>1, <2>3 DEF ApartInv, JobsApart
  <2>4. CASE a = s /\ b = s
    BY <2>4 DEF Rival
  <2> QED
    BY <2>1, <2>2, <2>3, <2>4
<1>3. SeenCurrent'
  <2> SUFFICES ASSUME NEW t \in Slots, Reading(t)', seen'[t] = "draft"
               PROVE  contract'[Charged(job'[t].on)] = "draft"
    BY DEF SeenCurrent, Charged
  <2>1. t # s
    BY <1>1 DEF Reading, At
  <2> QED
    BY <1>1, <2>1 DEF ApartInv, SeenCurrent, Reading, At
<1>4. ChargedIffFunded'
  BY <1>1 DEF ApartInv, ChargedIffFunded
<1> QED
  BY <1>2, <1>3, <1>4 DEF ApartInv

LEMMA StepApart ==
  ASSUME SessionInv, BooksInv, ApartInv, NEW s \in Slots, Step(s)
  PROVE  ApartInv'
<1>1. FundsOwn(s)
  BY StepFundsOwn DEF ApartInv
<1>2. /\ \A t \in Slots \ {s} : job'[t] = job[t] /\ pc'[t] = pc[t] /\ seen'[t] = seen[t]
      /\ job'[s] \in {job[s], None}
  BY StepMovesOne
<1>3. JobsApart'
  <2>1. \A c \in Contracts : contract'[c] = contract[c] \/ contract'[c] = "active"
    BY <1>1 DEF FundsOwn, NoCharge, Charging, Charge, SessionInv, TypeOK
  <2> QED
    BY <1>2, <2>1, JobsStayApart DEF ApartInv
<1>4. ASSUME NEW t \in Slots \ {s}, Reading(t)', seen'[t] = "draft"
      PROVE  contract'[Charged(job'[t].on)] = "draft"
  <2>1. Reading(t) /\ seen[t] = "draft" /\ job'[t] = job[t]
    BY <1>2, <1>4 DEF Reading, At
  <2>2. contract[Charged(job[t].on)] = "draft"
    BY <2>1 DEF ApartInv, SeenCurrent
  <2>3. CASE NoCharge
    BY <2>1, <2>2, <2>3 DEF NoCharge
  <2>4. ASSUME NEW c \in Contracts, NEW amount \in Nat, NEW by \in Chargers,
               Charging(s, c, amount, by)
        PROVE  contract'[Charged(job'[t].on)] = "draft"
    <3>1. c # Charged(job[t].on)
      BY <2>1, <2>2, <2>4, NoRivalFunds DEF Charging, ApartInv
    <3> QED
      BY <2>1, <2>2, <2>4, <3>1 DEF Charging, Charge, SessionInv, TypeOK
  <2> QED
    BY <1>1, <2>3, <2>4 DEF FundsOwn
<1>5. ASSUME Reading(s)', seen'[s] = "draft"
      PROVE  contract'[Charged(job'[s].on)] = "draft"
  <2>1. ~Close(s)
    BY <1>5 DEF Close, SessionInv, SessionType, Reading, At
  <2>2. job'[s] = job[s] /\ job[s].type = "event"
    BY <1>2, <1>5 DEF Reading, At
  <2>3. EventInsert(s) \/ EventTouch(s)
    BY <2>1, <2>2 DEF Step, FundLock, FundCommit, EventConfirm, VerifyAnswered,
                      VerifyUnreachable, Verify, Confirm, Record, At
  <2>4. CASE EventInsert(s)
    <3>1. seen'[s] = contract[Charged(job[s].on)] /\ UNCHANGED contract
      BY <2>1, <2>4 DEF EventInsert, SessionInv, SessionType, vars
    <3> QED
      BY <1>5, <2>2, <3>1
  <2>5. CASE EventTouch(s)
    <3>1. Reading(s) /\ seen[s] = "draft" /\ UNCHANGED contract
      BY <1>5, <2>5 DEF EventTouch, Reading, vars
    <3> QED
      BY <2>2, <3>1 DEF ApartInv, SeenCurrent
  <2> QED
    BY <2>3, <2>4, <2>5
<1>6. SeenCurrent'
  BY <1>4, <1>5 DEF SeenCurrent, Charged
<1>7. ChargedIffFunded'
  <2>1. CASE NoCharge
    BY <2>1 DEF NoCharge, ApartInv, ChargedIffFunded
  <2>2. ASSUME NEW c \in Contracts, NEW amount \in Nat, NEW by \in Chargers,
               Charging(s, c, amount, by)
        PROVE  ChargedIffFunded'
    <3>1. Len(charges[c]) = 0
      BY <2>2 DEF Charging, ApartInv, ChargedIffFunded
    <3>2. Charge(c, amount, by)
      BY <2>2 DEF Charging
    <3>3. /\ contract'[c] = "active" /\ Len(charges'[c]) = Len(charges[c]) + 1
          /\ \A d \in Contracts \ {c} : contract'[d] = contract[d] /\ charges'[d] = charges[d]
      BY <3>2, ChargeEffects
    <3>4. Len(charges'[c]) = 1
      BY <3>1, <3>3
    <3> SUFFICES ASSUME NEW d \in Contracts
                 PROVE  Len(charges'[d]) = IF contract'[d] \in {"absent", "draft"} THEN 0 ELSE 1
      BY DEF ChargedIffFunded
    <3>5. CASE d = c
      BY <3>3, <3>4, <3>5
    <3>6. CASE d # c
      BY <3>3, <3>6 DEF ApartInv, ChargedIffFunded
    <3> QED
      BY <3>5, <3>6
  <2> QED
    BY <1>1, <2>1, <2>2 DEF FundsOwn
<1> QED
  BY <1>3, <1>6, <1>7 DEF ApartInv

LEMMA OtherApart ==
  ASSUME SessionInv, BooksInv, ApartInv,
         \/ \E c \in Contracts : Create(c)
         \/ \E r \in Refs : Checkout(r)
         \/ \E r \in Refs, o \in Outcomes : Pay(r, o)
         \/ \E s \in Slots : DeadlockAbort(s) \/ Crash(s)
         \/ UNCHANGED pvars
  PROVE  ApartInv'
<1>1. \A t \in Slots : \/ job'[t] = job[t] /\ pc'[t] = pc[t] /\ seen'[t] = seen[t]
                       \/ job'[t] = None
  <2>1. ASSUME NEW s \in Slots, DeadlockAbort(s) \/ Crash(s)
        PROVE  \A t \in Slots : \/ job'[t] = job[t] /\ pc'[t] = pc[t] /\ seen'[t] = seen[t]
                                \/ job'[t] = None
    BY <2>1 DEF DeadlockAbort, Crash, Close, SessionInv, SessionType
  <2> QED
    BY <2>1 DEF Create, Checkout, Pay, pvars, session
<1>2. /\ UNCHANGED charges
      /\ \A c \in Contracts : \/ contract'[c] = contract[c]
                              \/ contract[c] = "absent" /\ contract'[c] = "draft"
  BY DEF SessionInv, TypeOK, Create, CreateContract, Checkout, Pay, DeadlockAbort, Crash,
         pvars, vars, books
<1>3. JobsApart'
  BY <1>1, <1>2, JobsStayApart DEF ApartInv
<1>4. SeenCurrent'
  <2> SUFFICES ASSUME NEW t \in Slots, Reading(t)', seen'[t] = "draft"
               PROVE  contract'[Charged(job'[t].on)] = "draft"
    BY DEF SeenCurrent, Charged
  <2>1. PICK j : j = job[t]
    OBVIOUS
  <2>2. job'[t] = j /\ Reading(t) /\ seen[t] = "draft"
    BY <1>1, <2>1 DEF Reading, At
  <2>3. j \in Jobs /\ j.on \notin Foreign
    BY <2>1, <2>2 DEF SessionInv, SessionType, SessionsFit, Fits, Reading, At
  <2>4. Charged(j.on) \in Contracts
    BY <2>1, <2>2, <2>3, JobFacts, ChargedType DEF Reading, At
  <2> QED
    BY <1>2, <2>1, <2>2, <2>4 DEF ApartInv, SeenCurrent
<1>5. ChargedIffFunded'
  BY <1>2 DEF ApartInv, ChargedIffFunded
<1> QED
  BY <1>3, <1>4, <1>5 DEF ApartInv

LEMMA ApartInit == PayInit => ApartInv
BY DEF PayInit, Init, ApartInv, JobsApart, SeenCurrent, Reading, At, ChargedIffFunded

LEMMA ApartNext ==
  ASSUME ~Overlaps
  PROVE  SessionInv /\ BooksInv /\ ApartInv /\ [PayNext]_pvars => ApartInv'
<1> SUFFICES ASSUME SessionInv, BooksInv, ApartInv, [PayNext]_pvars PROVE ApartInv'
  OBVIOUS
<1>1. ASSUME NEW s \in Slots, NEW j \in Jobs, Begin(s, j) PROVE ApartInv'
  BY <1>1, BeginApart
<1>2. CASE \/ \E s \in Handlers :
                \/ \E k \in Keys, c \in Contracts : BeginFund(s, k, c)
                \/ \E e \in Events : BeginEvent(s, e)
                \/ \E r \in Refs \cup Foreign : BeginPaystack(s, r)
           \/ \E s \in Sweepers, r \in Refs : BeginSweep(s, r)
  BY <1>1, <1>2, JobsBegin DEF BeginFund, BeginEvent, BeginPaystack, BeginSweep, Slots
<1> QED
  BY <1>2, StepApart, OtherApart DEF PayNext

(***************************************************************************)
(* The three layers together.                                              *)
(***************************************************************************)
LEMMA ApartCorrect ==
  ASSUME ~Overlaps
  PROVE  PaySpec => [](SessionInv /\ BooksInv /\ ApartInv)
<1> DEFINE I == SessionInv /\ BooksInv /\ ApartInv
<1>1. PayInit => I
  BY SessionInit, BooksInit, ApartInit
<1>2. I /\ [PayNext]_pvars => I'
  BY SessionNext, BooksNext, ApartNext
<1> QED
  BY <1>1, <1>2, PTL DEF PaySpec

(***************************************************************************)
(* As long as no standard event on a draft contract overlaps another       *)
(* funding of it, a contract is charged exactly once, and is draft until   *)
(* then, whatever is retried, redelivered or lost and wherever a handler   *)
(* dies (README.md, "Idempotency").                                        *)
(***************************************************************************)
THEOREM ChargedExactlyOnce ==
  ASSUME ~Overlaps
  PROVE  PaySpec => []ChargedIffFunded
<1>1. SessionInv /\ BooksInv /\ ApartInv => ChargedIffFunded
  BY DEF ApartInv
<1> QED
  BY <1>1, ApartCorrect, PTL

-----------------------------------------------------------------------------
(***************************************************************************)
(* The fourth layer.  An event becomes the source of a charge only in the  *)
(* commit that records it, a transaction only when its payment is          *)
(* confirmed, and each of the contract that it is about.                   *)
(***************************************************************************)
LEMMA SourcesStep ==
  ASSUME SessionInv, NEW s \in Slots, Step(s),
         NEW c \in Contracts, NEW x \in (Events \cup Refs) \cap Sources(c)', x \notin Sources(c)
  PROVE  /\ c = Charged(job[s].on) /\ job[s].on \notin Foreign
         /\ \/ EventConfirm(s) /\ x = job[s].id /\ x \in Events
            \/ Confirm(s) /\ x = job[s].on /\ x \in Refs
<1>0. PICK j : j = job[s]
  OBVIOUS
<1>1. UNCHANGED charges => Sources(c)' = Sources(c)
  BY DEF Sources
<1>2. ASSUME NEW d \in Contracts, NEW amount, NEW by \in Chargers, Charge(d, amount, by)
      PROVE  x = by /\ c = d
  BY <1>2, ChargeEffects
<1>3. ~FundCommit(s)
  <2> SUFFICES ASSUME FundCommit(s) PROVE FALSE
    OBVIOUS
  <2>1. j.id \in Keys /\ j.on \in Contracts
    BY <1>0, JobFacts DEF SessionInv, SessionType, FundCommit, At
  <2>2. Charge(j.on, Total(j.on), j.id) \/ UNCHANGED charges
    BY <1>0 DEF FundCommit, NoCharge
  <2> QED
    BY <1>1, <1>2, <2>1, <2>2, NamesAssumption DEF Chargers
<1>4. ASSUME EventConfirm(s)
      PROVE  c = Charged(j.on) /\ j.on \notin Foreign /\ x = j.id /\ x \in Events
  <2>1. /\ j.id \in Events /\ j.on \in Contracts \cup Refs \cup Foreign
        /\ j \in Jobs /\ j.type = "event" /\ j # None /\ pc[s] = "confirm"
    BY <1>0, <1>4, JobFacts DEF SessionInv, SessionType, EventConfirm, At
  <2>2. j.on \notin Foreign
    BY <1>0, <2>1 DEF SessionInv, SessionsFit, Fits
  <2>3. PICK d \in Contracts : d = Charged(j.on)
    BY <2>1, <2>2, ChargedType
  <2>4. (\E a : Charge(d, a, j.id)) \/ UNCHANGED charges
    BY <1>0, <1>4, <2>3 DEF EventConfirm, NoCharge
  <2> QED
    BY <1>1, <1>2, <2>1, <2>2, <2>3, <2>4 DEF Chargers
<1>5. ASSUME Confirm(s)
      PROVE  c = Charged(j.on) /\ j.on \notin Foreign /\ x = j.on /\ x \in Refs
  <2>1. j \in Jobs /\ j.type \in {"paystack", "sweep"} /\ j # None /\ pc[s] = "confirm"
    BY <1>0, <1>5, JobFacts DEF SessionInv, SessionType, Confirm, At
  <2>2. j.on \in Refs /\ j.on \notin Foreign /\ j.id = j.on
    BY <1>0, <2>1, JobFacts, NamesAssumption DEF SessionInv, SessionsFit, Fits
  <2>3. PICK d \in Contracts : d = Charged(j.on)
    BY <2>2, ChargedType
  <2>4. (\E a : Charge(d, a, j.id)) \/ UNCHANGED charges
    BY <1>0, <1>5, <2>3 DEF Confirm, NoCharge
  <2> QED
    BY <1>1, <1>2, <2>2, <2>3, <2>4 DEF Chargers
<1>6. ASSUME NEW status, Verify(s, status) PROVE UNCHANGED charges
  BY <1>6 DEF Verify
<1>7. FundLock(s) \/ EventInsert(s) \/ EventTouch(s) \/ Record(s) => UNCHANGED charges
  BY DEF FundLock, EventInsert, EventTouch, Record, books
<1> QED
  BY <1>0, <1>1, <1>3, <1>4, <1>5, <1>6, <1>7
     DEF Step, VerifyAnswered, VerifyUnreachable

(***************************************************************************)
(* What a payment may be charged for stays so: an event is never           *)
(* unrecorded, and that Paystack could not be asked is not forgotten.      *)
(***************************************************************************)
LEMMA StepRemembers ==
  ASSUME NEW s \in Slots, Step(s)
  PROVE  processed \subseteq processed' /\ unanswered \subseteq unanswered' /\ UNCHANGED outcome
<1>1. CASE FundLock(s) \/ FundCommit(s) \/ EventInsert(s) \/ EventTouch(s) \/ EventConfirm(s)
           \/ Confirm(s) \/ Record(s)
  BY <1>1 DEF FundLock, FundCommit, EventInsert, EventTouch, EventConfirm, Confirm, Record, books
<1>2. ASSUME NEW status, Verify(s, status)
      PROVE  /\ processed \subseteq processed' /\ unanswered \subseteq unanswered'
             /\ UNCHANGED outcome
  BY <1>2 DEF Verify, Remember
<1> QED
  BY <1>1, <1>2 DEF Step, VerifyAnswered, VerifyUnreachable

(***************************************************************************)
(* Paystack's answer tells a job the outcome; if there is none, an event   *)
(* is believed and that is remembered, and a sweep is told nothing.        *)
(***************************************************************************)
LEMMA VerifyTells ==
  ASSUME SessionInv, OutcomesKnown, NEW s \in Slots,
         VerifyAnswered(s) \/ VerifyUnreachable(s)
  PROVE  Told(job'[s], pc'[s], outcome', unanswered')
<1>0. PICK j : j = job[s]
  OBVIOUS
<1>1. PICK status : /\ Verify(s, status)
                    /\ \/ status = "unreachable"
                       \/ status = IF j.on \in Refs THEN outcome[j.on] ELSE "success"
  BY <1>0 DEF VerifyAnswered, VerifyUnreachable
<1>2. CASE Close(s)
  BY <1>2 DEF Close, SessionInv, SessionType, Told
<1>3. CASE ~Close(s)
  <2>1. /\ job'[s] = j /\ pc'[s] = Verdict(j.type, status) /\ pc'[s] # "leave"
        /\ outcome' = outcome /\ j.type \in {"paystack", "sweep"} /\ j # None
    BY <1>0, <1>1, <1>3 DEF Verify, Goto, At, SessionInv, SessionType
  <2>2. SUFFICES ASSUME j.on \in Refs
                 PROVE  /\ j.type = "paystack" => outcome[j.on] \in {"success", "short"}
                        /\ pc'[s] \in {"confirm", "success"} => Vouched(j.on, outcome, unanswered')
                        /\ pc'[s] = "failed" => outcome[j.on] \in {"short", "failed"}
    BY <2>1 DEF Told
  <2>3. j.type = "paystack" => outcome[j.on] \in {"success", "short"}
    BY <1>0, <2>1, <2>2 DEF OutcomesKnown, Told
  <2>4. outcome[j.on] \in {"pending", "success", "short", "failed"}
    BY <2>2, PaymentIdsAssumption DEF SessionInv, BooksType
  <2>5. CASE status = "unreachable"
    <3>1. j.type = "paystack" /\ pc'[s] = "confirm"
      BY <2>1, <2>5 DEF Verdict
    <3>2. j.on \in unanswered'
      BY <1>0, <1>1, <2>2, <2>5, <3>1 DEF Verify, Remember
    <3> QED
      BY <2>3, <3>1, <3>2 DEF Vouched
  <2>6. CASE status = outcome[j.on]
    <3>1. pc'[s] = "confirm" => outcome[j.on] = "success"
      BY <2>1, <2>4, <2>6 DEF Verdict
    <3>2. pc'[s] = "failed" => outcome[j.on] \in {"short", "failed"}
      BY <2>1, <2>4, <2>6 DEF Verdict
    <3>3. pc'[s] # "success"
      BY <2>1 DEF Verdict
    <3> QED
      BY <2>3, <3>1, <3>2, <3>3 DEF Vouched
  <2> QED
    BY <1>1, <2>2, <2>5, <2>6
<1> QED
  BY <1>2, <1>3

(***************************************************************************)
(* A charge has its report behind it when it is made, and afterwards.      *)
(***************************************************************************)
LEMMA StepVouched ==
  ASSUME SessionInv, OutcomesKnown, NEW s \in Slots, Step(s)
  PROVE  ChargesVouched'
<1>0. PICK j : j = job[s]
  OBVIOUS
<1>1. processed \subseteq processed' /\ unanswered \subseteq unanswered' /\ UNCHANGED outcome
  BY StepRemembers
<1>2. ASSUME NEW c \in Contracts, NEW e \in Events \cap Sources(c)'
      PROVE  e \in processed' /\ EventOf[e].on \notin Foreign /\ c = Charged(EventOf[e].on)
  <2>1. CASE e \in Sources(c)
    BY <1>1, <2>1 DEF OutcomesKnown, ChargesVouched
  <2>2. CASE e \notin Sources(c)
    <3>1. /\ c = Charged(j.on) /\ j.on \notin Foreign
          /\ EventConfirm(s) /\ e = j.id
      BY <1>0, <2>2, SourcesStep, NamesAssumption
    <3>2. j \in Jobs /\ j.type = "event"
      BY <1>0, <3>1 DEF EventConfirm, At, SessionInv, SessionType
    <3>3. j.on = EventOf[e].on
      BY <3>1, <3>2, JobFacts
    <3>4. e \in processed'
      BY <1>0, <3>1 DEF EventConfirm
    <3> QED
      BY <3>1, <3>3, <3>4
  <2> QED
    BY <2>1, <2>2
<1>3. ASSUME NEW c \in Contracts, NEW r \in Refs \cap Sources(c)'
      PROVE  c = RefContract[r] /\ Vouched(r, outcome, unanswered')
  <2>1. CASE r \in Sources(c)
    BY <1>1, <2>1 DEF OutcomesKnown, ChargesVouched, Vouched
  <2>2. CASE r \notin Sources(c)
    <3>1. c = Charged(r) /\ Confirm(s) /\ r = j.on
      BY <1>0, <2>2, SourcesStep, NamesAssumption
    <3>2. j # None /\ j.type \in {"paystack", "sweep"} /\ pc[s] = "confirm"
      BY <1>0, <3>1 DEF Confirm, At
    <3>3. Vouched(r, outcome, unanswered)
      BY <1>0, <3>1, <3>2 DEF OutcomesKnown, Told
    <3> QED
      BY <1>1, <3>1, <3>3, ChargedType DEF Vouched
  <2> QED
    BY <2>1, <2>2
<1> QED
  BY <1>1, <1>2, <1>3 DEF ChargesVouched, Vouched, Charged

LEMMA StepTells ==
  ASSUME SessionInv, OutcomesKnown, NEW s \in Slots, Step(s)
  PROVE  OutcomesKnown'
<1>1. unanswered \subseteq unanswered' /\ UNCHANGED outcome
  BY StepRemembers
<1>2. \A t \in Slots \ {s} : Told(job'[t], pc'[t], outcome', unanswered')
  BY <1>1, StepMovesOne DEF OutcomesKnown, Told, Vouched
<1>3. Told(job'[s], pc'[s], outcome', unanswered')
  <2>1. CASE VerifyAnswered(s) \/ VerifyUnreachable(s)
    BY <2>1, VerifyTells
  <2>2. CASE Close(s)
    BY <2>2 DEF Close, SessionInv, SessionType, Told
  <2>3. CASE FundLock(s) \/ EventInsert(s) \/ EventTouch(s)
    <3>1. job'[s] \in {job[s], None} /\ (job[s] # None => job[s].type \in {"fund", "event"})
      BY <2>3, StepMovesOne DEF FundLock, EventInsert, EventTouch, At
    <3> QED
      BY <3>1 DEF Told
  <2>4. CASE Confirm(s)
    <3>1. job'[s] = job[s] /\ pc[s] = "confirm" /\ pc'[s] = "success"
      BY <2>4 DEF Confirm, At, Goto, SessionInv, SessionType
    <3> QED
      BY <1>1, <3>1 DEF OutcomesKnown, Told, Vouched
  <2> QED
    BY <2>1, <2>2, <2>3, <2>4 DEF Step, FundCommit, EventConfirm, Record
<1>4. \A r \in Refs : tx'[r] = "failed" => outcome[r] \in {"short", "failed"}
  <2>1. CASE Record(s)
    <3>0. PICK j : j = job[s]
      OBVIOUS
    <3>1. /\ j \in Jobs /\ j.type \in {"paystack", "sweep"} /\ j # None
          /\ pc[s] \in {"success", "failed"}
      BY <2>1, <3>0, JobFacts DEF SessionInv, SessionType, Record, At
    <3>2. j.on \in Refs
      BY <3>0, <3>1 DEF SessionInv, SessionsFit, Fits
    <3>3. UNCHANGED tx \/ tx' = [tx EXCEPT ![j.on] = pc[s]]
      BY <2>1, <3>0 DEF Record
    <3>4. pc[s] = "failed" => outcome[j.on] \in {"short", "failed"}
      BY <3>0, <3>1, <3>2 DEF OutcomesKnown, Told
    <3> QED
      BY <3>2, <3>3, <3>4 DEF OutcomesKnown, SessionInv, BooksType
  <2>2. CASE EventConfirm(s)
    BY <2>2 DEF EventConfirm, OutcomesKnown
  <2>3. CASE ~Record(s) /\ ~EventConfirm(s)
    <3>1. UNCHANGED tx
      BY <2>3 DEF Step, FundLock, FundCommit, EventInsert, EventTouch, VerifyAnswered,
                  VerifyUnreachable, Verify, Confirm, books
    <3> QED
      BY <3>1 DEF OutcomesKnown
  <2> QED
    BY <2>1, <2>2, <2>3
<1>5. ChargesVouched'
  BY StepVouched
<1> QED
  BY <1>1, <1>2, <1>3, <1>4, <1>5 DEF OutcomesKnown

LEMMA OtherTells ==
  ASSUME SessionInv, BooksInv, OutcomesKnown,
         \/ \E c \in Contracts : Create(c)
         \/ \E r \in Refs : Checkout(r)
         \/ \E r \in Refs, o \in Outcomes : Pay(r, o)
         \/ \E s \in Slots : DeadlockAbort(s) \/ Crash(s)
         \/ UNCHANGED pvars
  PROVE  OutcomesKnown'
<1>1. UNCHANGED <<charges, processed, unanswered>>
  BY DEF Create, Checkout, Pay, DeadlockAbort, Crash, pvars, books
<1>2. \A r \in Refs : tx'[r] = tx[r] \/ tx'[r] = "pending"
  BY DEF Create, Checkout, Pay, DeadlockAbort, Crash, pvars, books, SessionInv, BooksType
<1>3. \A r \in Refs : outcome'[r] = outcome[r] \/ outcome[r] = "pending"
  BY DEF Create, Checkout, Pay, DeadlockAbort, Crash, pvars, SessionInv, BooksType
<1>4. \A t \in Slots : (job'[t] = job[t] /\ pc'[t] = pc[t]) \/ job'[t] = None
  <2>1. ASSUME NEW s \in Slots, DeadlockAbort(s) \/ Crash(s)
        PROVE  \A t \in Slots : (job'[t] = job[t] /\ pc'[t] = pc[t]) \/ job'[t] = None
    BY <2>1 DEF DeadlockAbort, Crash, Close, SessionInv, SessionType
  <2> QED
    BY <2>1 DEF Create, Checkout, Pay, pvars, session
<1>5. \A t \in Slots : Told(job'[t], pc'[t], outcome', unanswered')
  BY <1>1, <1>3, <1>4 DEF OutcomesKnown, Told, Vouched
<1>6. ChargesVouched'
  BY <1>1, <1>3 DEF OutcomesKnown, ChargesVouched, Sources, Charged
<1> QED
  BY <1>2, <1>3, <1>5, <1>6 DEF OutcomesKnown

LEMMA BeginTells ==
  ASSUME SessionInv, OutcomesKnown, NEW s \in Slots, NEW j \in Jobs, Begin(s, j),
         j.type = "paystack" /\ j.on \in Refs => outcome[j.on] \in {"success", "short"}
  PROVE  OutcomesKnown'
<1>1. /\ job'[s] = j /\ pc'[s] = "start"
      /\ \A t \in Slots \ {s} : job'[t] = job[t] /\ pc'[t] = pc[t]
      /\ UNCHANGED <<outcome, unanswered, charges, tx, processed>>
  BY DEF SessionInv, SessionType, Begin, Goto, books
<1>2. \A t \in Slots : Told(job'[t], pc'[t], outcome, unanswered)
  BY <1>1 DEF OutcomesKnown, Told
<1>3. ChargesVouched'
  BY <1>1 DEF OutcomesKnown, ChargesVouched, Sources, Charged
<1> QED
  BY <1>1, <1>2, <1>3 DEF OutcomesKnown

LEMMA OutcomesNext == SessionInv /\ BooksInv /\ OutcomesKnown /\ [PayNext]_pvars => OutcomesKnown'
<1> SUFFICES ASSUME SessionInv, BooksInv, OutcomesKnown, [PayNext]_pvars
             PROVE  OutcomesKnown'
  OBVIOUS
<1>1. ASSUME NEW s \in Handlers, NEW k \in Keys, NEW c \in Contracts, BeginFund(s, k, c)
      PROVE  OutcomesKnown'
  BY <1>1, JobsBegin, BeginTells DEF BeginFund, Slots, Job
<1>2. ASSUME NEW s \in Handlers, NEW e \in Events, BeginEvent(s, e)
      PROVE  OutcomesKnown'
  BY <1>2, JobsBegin, BeginTells DEF BeginEvent, Slots, Job
<1>3. ASSUME NEW s \in Handlers, NEW r \in Refs \cup Foreign, BeginPaystack(s, r)
      PROVE  OutcomesKnown'
  BY <1>3, JobsBegin, BeginTells DEF BeginPaystack, Slots, Job
<1>4. ASSUME NEW s \in Sweepers, NEW r \in Refs, BeginSweep(s, r)
      PROVE  OutcomesKnown'
  BY <1>4, JobsBegin, BeginTells DEF BeginSweep, Slots, Job
<1> QED
  BY <1>1, <1>2, <1>3, <1>4, StepTells, OtherTells DEF PayNext

LEMMA OutcomesCorrect == PaySpec => []OutcomesKnown
<1>1. PayInit => SessionInv /\ BooksInv /\ OutcomesKnown
  <2>1. PayInit => OutcomesKnown
    BY DEF PayInit, OutcomesKnown, Told, ChargesVouched, Sources
  <2> QED
    BY <2>1, SessionInit, BooksInit
<1>2. SessionInv /\ BooksInv /\ OutcomesKnown /\ [PayNext]_pvars
        => (SessionInv /\ BooksInv /\ OutcomesKnown)'
  BY SessionNext, BooksNext, OutcomesNext
<1> QED
  BY <1>1, <1>2, PTL DEF PaySpec

(***************************************************************************)
(* However events, sweeps and redeliveries overlap and wherever a handler  *)
(* dies, no transaction is marked failed whose payment succeeded in full,  *)
(* and none that has charged its contract, except for a payment of another *)
(* amount whose event was believed because Paystack could not be asked     *)
(* (_handle_paystack_webhook, reconcile_pending_transactions).             *)
(***************************************************************************)
THEOREM FailuresExplained == PaySpec => []FailedNotCharged
<1>1. OutcomesKnown => FailedNotCharged
  <2> SUFFICES ASSUME OutcomesKnown, NEW r \in Refs, tx[r] = "failed"
               PROVE  /\ outcome[r] \in {"short", "failed"}
                      /\ r \in Sources(RefContract[r]) => outcome[r] = "short" /\ r \in unanswered
    BY DEF FailedNotCharged
  <2>1. outcome[r] \in {"short", "failed"}
    BY DEF OutcomesKnown
  <2>2. r \in Sources(RefContract[r])
          => outcome[r] = "success" \/ (outcome[r] = "short" /\ r \in unanswered)
    BY ChargedType DEF OutcomesKnown, ChargesVouched
  <2> QED
    BY <2>1, <2>2
<1> QED
  BY <1>1, OutcomesCorrect, PTL

(***************************************************************************)
(* However they overlap and whatever is lost or redelivered, every charge  *)
(* on a report has it behind it: an event that charged is recorded and was *)
(* about this contract, a transaction that charged was paid in full, or    *)
(* for another amount while Paystack could not be asked                    *)
(* (_handle_standard_webhook, _handle_paystack_webhook, _reconcile_one).   *)
(***************************************************************************)
THEOREM ReportsBehindCharges == PaySpec => []ChargesVouched
<1>1. OutcomesKnown => ChargesVouched
  BY DEF OutcomesKnown
<1> QED
  BY <1>1, OutcomesCorrect, PTL

-----------------------------------------------------------------------------
(***************************************************************************)
(* Every commit of the payment code is a step of Escrow.  Escrow leaves    *)
(* open which amounts a payment may report: here the contract's total,     *)
(* and whatever a standard event says.                                     *)
(***************************************************************************)
AmountsReported ==
  /\ \A c \in Contracts : Total(c) \in PaidAmounts[c]
  /\ \A e \in Events :
       EventOf[e].on \in Contracts \cup Refs /\ EventOf[e].amount > 0
         => EventOf[e].amount \in PaidAmounts[Charged(EventOf[e].on)]

LEMMA StepRefines ==
  ASSUME AmountsReported, SessionInv, BooksInv, ApartInv, [PayNext]_pvars
  PROVE  [Next]_vars
<1>1. ASSUME NEW s \in Slots, Step(s) PROVE [Next]_vars
  <2>1. FundsOwn(s)
    BY <1>1, StepFundsOwn DEF ApartInv
  <2>2. CASE NoCharge
    BY <2>1, <2>2 DEF FundsOwn, NoCharge, untouched, vars
  <2>3. ASSUME NEW c \in Contracts, NEW amount \in Nat, NEW by \in Chargers,
               Charging(s, c, amount, by)
        PROVE  [Next]_vars
    <3>1. Reported(c, amount) /\ contract[c] = "draft" /\ Charge(c, amount, by)
      BY <2>3 DEF Charging
    <3>2. amount \in PaidAmounts[c]
      BY <3>1 DEF Reported, AmountsReported
    <3>3. ConfirmFunding(c, amount)
      BY <2>1, <3>1 DEF FundsOwn, Charge, ConfirmFunding, untouched
    <3> QED
      BY <3>2, <3>3 DEF Next
  <2> QED
    BY <2>1, <2>2, <2>3 DEF FundsOwn
<1>2. ASSUME NEW c \in Contracts, Create(c) PROVE [Next]_vars
  BY <1>2 DEF Create, Next
<1>3. CASE ~(\E s \in Slots : Step(s)) /\ ~(\E c \in Contracts : Create(c))
  <2>1. UNCHANGED vars
    BY <1>3 DEF PayNext, Checkout, Pay, Begin, BeginFund, BeginEvent, BeginPaystack,
                BeginSweep, DeadlockAbort, Crash, pvars
  <2> QED
    BY <2>1
<1> QED
  BY <1>1, <1>2, <1>3

(***************************************************************************)
(* Funding refines Escrow: as long as standard events on a draft contract  *)
(* do not overlap another funding of it, whatever is retried, redelivered, *)
(* interleaved or cut off changes contracts and ledger by whole fundings   *)
(* of draft contracts, or not at all.  The theorems of EscrowProofs carry  *)
(* over.                                                                   *)
(***************************************************************************)
THEOREM PaymentsRefinement ==
  ASSUME ~Overlaps, AmountsReported
  PROVE  PaySpec => FundsAsEscrow
<1>1. PayInit => Init
  BY DEF PayInit
<1>2. SessionInv /\ BooksInv /\ ApartInv /\ [PayNext]_pvars => [Next]_vars
  BY StepRefines
<1>3. PaySpec => Spec
  BY <1>1, <1>2, ApartCorrect, PTL DEF PaySpec, Spec
<1> QED
  BY <1>3 DEF FundsAsEscrow

=============================================================================
