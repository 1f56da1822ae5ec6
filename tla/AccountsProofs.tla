--------------------------- MODULE AccountsProofs ---------------------------
(***************************************************************************)
(* Theorems about Accounts, for any emails, forms, handlers and life times *)
(* of tokens.                                                              *)
(***************************************************************************)
EXTENDS Accounts, SequenceTheorems, TLAPS

Rows ==
  [email : Emails, role : Roles, active : BOOLEAN, maker : {Self, Seed} \cup Ids]

RowsType == users \in Seq(Rows) /\ Len(users) <= MaxUsers

RequestValues ==
  [for : {"act", "issue", "insert"}, by : {Self, Seed} \cup Ids,
   email : Emails \cup {None}, role : Roles \cup {None}]

RequestsType == request \in [Handlers -> {None} \cup RequestValues]

\* What a request has checked is still so when it goes on, since rows are
\* only added and keep their roles.
Fits(q) ==
  q # None =>
    /\ q.for # "insert" => q.by \in Made
    /\ q.for = "insert" =>
         /\ q.email \in Emails /\ q.role \in Roles
         /\ \/ q.by = Self /\ q.role \in PublicRoles
            \/ q.by = Seed
            \/ q.by \in Made /\ HasRole(q.by, {"admin"})

RequestsHold == \A h \in Handlers : Fits(request[h])

\* The parties are a client and a freelancer.
PartiesHold ==
  contract # None =>
    /\ contract.client \in Made /\ HasRole(contract.client, {"client"})
    /\ contract.freelancer \in Made /\ HasRole(contract.freelancer, {"freelancer"})

\* Whoever judged is neither.
JudgesHold ==
  last.what \in {"resolve", "mark_sent"} =>
    /\ contract # None
    /\ last.who \in Made /\ HasRole(last.who, {"arbiter", "finance", "admin"})

\* Who is barred is shut out and has nothing in progress.
BarredHold == \A u \in barred : Shut(u) /\ ~InFlight(u)

AccountsInv ==
  /\ TypeOK
  /\ RequestsHold
  /\ PartiesHold
  /\ JudgesHold
  /\ BarredHold
  /\ OneAccountPerEmail
  /\ PrivilegeFromAbove

-----------------------------------------------------------------------------

\* Rows are only added, and keep all but their activity.
RowsKept ==
  /\ RowsType'
  /\ Len(users) <= Len(users')
  /\ \A u \in Made : /\ users'[u].email = users[u].email
                     /\ users'[u].role = users[u].role
                     /\ users'[u].maker = users[u].maker

\* A row is added by an insert of an email that is not taken.
RowAdded ==
  Len(users') # Len(users) =>
    \E h \in Handlers :
      /\ Is(h, "insert")
      /\ ~Taken(request[h].email)
      /\ Len(users') = Len(users) + 1
      /\ users'[Len(users')].email = request[h].email
      /\ users'[Len(users')].role = request[h].role
      /\ users'[Len(users')].maker = request[h].by

LEMMA RowsUnchanged ==
  ASSUME RowsType, UNCHANGED users
  PROVE  RowsKept /\ RowAdded
BY DEF RowsType, RowsKept, RowAdded

LEMMA InsertRows ==
  ASSUME RowsType, RequestsHold, NEW h \in Handlers, InsertUser(h)
  PROVE  RowsKept /\ RowAdded
<1> DEFINE q == request[h]
<1> DEFINE row == [email |-> q.email, role |-> q.role, active |-> TRUE, maker |-> q.by]
<1>1. CASE ~Accepted(q.email)
  <2>1. UNCHANGED users
    BY <1>1 DEF InsertUser
  <2>2. QED
    BY <2>1, RowsUnchanged
<1>2. CASE Accepted(q.email)
  <2>1. users' = Append(users, row) /\ Len(users) + 1 <= MaxUsers /\ Is(h, "insert")
    BY <1>2 DEF InsertUser
  <2>2. q.email \in Emails /\ q.role \in Roles /\ q.by \in {Self, Seed} \cup Ids
    <3>1. Made \subseteq Ids
      BY AccountsAssumption DEF RowsType, Made, Ids
    <3>2. QED
      BY <2>1, <3>1 DEF RequestsHold, Fits, Is
  <2>3. row \in Rows
    BY <2>2 DEF Rows
  <2>4. /\ users' \in Seq(Rows)
        /\ Len(users') = Len(users) + 1
        /\ \A u \in 1..Len(users) : users'[u] = users[u]
        /\ users'[Len(users) + 1] = row
    <3> HIDE DEF row
    <3>1. users \in Seq(Rows)
      BY DEF RowsType
    <3>2. QED
      BY <2>1, <2>3, <3>1
  <2>5. RowsKept
    BY <2>1, <2>4 DEF RowsKept, RowsType, Made
  <2>6. RowAdded
    BY <1>2, <2>1, <2>4 DEF RowAdded, Accepted
  <2>7. QED
    BY <2>5, <2>6
<1>3. QED
  BY <1>1, <1>2

LEMMA SwitchRows ==
  ASSUME RowsType, NEW u \in Made, Switch(u)
  PROVE  RowsKept /\ RowAdded
<1> DEFINE row == [users[u] EXCEPT !.active = ~@]
<1>1. users \in Seq(Rows) /\ u \in 1..Len(users)
  BY DEF RowsType, Made
<1>2. users[u] \in Rows
  BY <1>1, ElementOfSeq
<1>3. /\ row \in Rows
      /\ row.email = users[u].email
      /\ row.role = users[u].role
      /\ row.maker = users[u].maker
  BY <1>2 DEF Rows
<1>4. users' = [users EXCEPT ![u] = row]
  BY DEF Switch
<1>5. /\ users' \in Seq(Rows)
      /\ Len(users') = Len(users)
      /\ \A v \in 1..Len(users) : users'[v] = IF v = u THEN row ELSE users[v]
  <2> HIDE DEF row
  <2>1. QED
    BY <1>1, <1>3, <1>4, ExceptSeq
<1>6. QED
  <2> HIDE DEF row
  <2>1. QED
    BY <1>1, <1>3, <1>5 DEF RowsKept, RowsType, RowAdded, Made

LEMMA RowsStep ==
  ASSUME RowsType, RequestsHold, Permitted \/ Other \/ UNCHANGED vars
  PROVE  RowsKept /\ RowAdded
<1>1. CASE UNCHANGED users
  BY <1>1, RowsUnchanged
<1>2. CASE \E h \in Handlers : InsertUser(h)
  BY <1>2, InsertRows
<1>3. CASE \E u \in Made : Switch(u)
  BY <1>3, SwitchRows
<1>4. QED
  BY <1>1, <1>2, <1>3
     DEF Permitted, Other, vars, CreateContract, Call, Register, SeedUser, CreateUserByAdmin,
         Login, Refresh, IssueTokens, Tick, Authenticate, Leave

-----------------------------------------------------------------------------

\* Where a new request of a user comes from.
Origin(q) ==
  q # None =>
    \/ q.by \in {Self, Seed}
    \/ InFlight(q.by)
    \/ q.by \notin Made
    \/ q.for = "issue" /\ users'[q.by].active
    \/ users'[q.by].active /\ age'[q.by] < AccessTime

\* A step that changes a request starts one that fits, or ends one.
RequestStarted ==
  \E h \in Handlers, q \in {None} \cup RequestValues :
    Start(h, q) /\ Fits(q)' /\ Origin(q)

LEMMA StartedHolds ==
  ASSUME RowsType, RowsKept, RequestsType, RequestsHold, RequestStarted
  PROVE  RequestsType' /\ RequestsHold'
<1>1. PICK h \in Handlers, q \in {None} \cup RequestValues : Start(h, q) /\ Fits(q)'
  BY DEF RequestStarted
<1>2. RequestsType'
  BY <1>1 DEF RequestsType, Start
<1>3. ASSUME NEW g \in Handlers PROVE Fits(request[g])'
  <2>1. CASE g = h
    BY <1>1, <2>1 DEF RequestsType, Start
  <2>2. CASE g # h
    <3>1. request'[g] = request[g]
      BY <1>1, <2>2 DEF RequestsType, Start
    <3>2. Fits(request[g])
      BY DEF RequestsHold
    <3>3. Made \subseteq Made'
      BY DEF RowsKept, RowsType, Made
    <3>4. \A u \in Made : users'[u].role = users[u].role
      BY DEF RowsKept
    <3>5. QED
      BY <3>1, <3>2, <3>3, <3>4 DEF Fits, HasRole
  <2>3. QED
    BY <2>1, <2>2
<1>4. QED
  BY <1>2, <1>3 DEF RequestsHold

LEMMA UnstartedHolds ==
  ASSUME RowsType, RowsKept, RequestsType, RequestsHold, UNCHANGED request
  PROVE  RequestsType' /\ RequestsHold'
<1>1. Made \subseteq Made'
  BY DEF RowsKept, RowsType, Made
<1>2. \A u \in Made : users'[u].role = users[u].role
  BY DEF RowsKept
<1>3. QED
  BY <1>1, <1>2 DEF RequestsType, RequestsHold, Fits, HasRole

\* A request that ends.
LEMMA Ended ==
  ASSUME NEW h \in Handlers, Start(h, None)
  PROVE  RequestStarted
BY DEF RequestStarted, Fits, Origin

\* A request that goes on to insert a row.
LEMMA InsertStarted ==
  ASSUME RowsType, NEW h \in Handlers, UNCHANGED users,
         NEW by \in {Self, Seed} \cup Ids, NEW email \in Emails, NEW role \in Roles,
         Start(h, Request("insert", by, email, role)),
         \/ by = Self /\ role \in PublicRoles
         \/ by = Seed
         \/ by \in Made /\ HasRole(by, {"admin"}) /\ InFlight(by)
  PROVE  RequestStarted
<1> DEFINE q == Request("insert", by, email, role)
<1>1. q \in RequestValues
  BY DEF RequestValues, Request
<1>2. q.for = "insert" /\ q.by = by /\ q.email = email /\ q.role = role
  BY DEF Request
<1> HIDE DEF q
<1>3. Fits(q)'
  <2> SUFFICES /\ email \in Emails /\ role \in Roles
               /\ \/ by = Self /\ role \in PublicRoles
                  \/ by = Seed
                  \/ by \in Made' /\ HasRole(by, {"admin"})'
    BY <1>2 DEF Fits
  <2>1. QED
    BY DEF HasRole, Made
<1>4. Origin(q)
  BY <1>2 DEF Origin
<1>5. QED
  BY <1>1, <1>3, <1>4 DEF RequestStarted, q

\* A request that an active user begins, or for whom tokens will be issued.
LEMMA UserStarted ==
  ASSUME RowsType, NEW h \in Handlers, NEW u \in Ids, u \in Made',
         NEW for \in {"act", "issue"}, Start(h, Request(for, u, None, None)),
         \/ u \notin Made
         \/ for = "issue" /\ users'[u].active
         \/ users'[u].active /\ age'[u] < AccessTime
  PROVE  RequestStarted
<1> DEFINE q == Request(for, u, None, None)
<1>1. q \in RequestValues
  BY DEF RequestValues, Request
<1>2. q.for = for /\ q.by = u
  BY DEF Request
<1> HIDE DEF q
<1>3. Fits(q)'
  <2> SUFFICES u \in Made'
    BY <1>2 DEF Fits
  <2>1. QED
    OBVIOUS
<1>4. Origin(q)
  BY <1>2 DEF Origin
<1>5. QED
  BY <1>1, <1>3, <1>4 DEF RequestStarted, q

LEMMA RequestsStep ==
  ASSUME RowsType, RequestsType, RequestsHold, RowsKept, Permitted \/ Other \/ UNCHANGED vars
  PROVE  RequestStarted \/ UNCHANGED request
<1>1. Made \subseteq Ids
  BY AccountsAssumption DEF RowsType, Made, Ids
<1>2. ASSUME NEW h \in Handlers, NEW f \in PublicForms, Register(h, f) PROVE RequestStarted
  <2>1. f.email \in Emails /\ f.role \in PublicRoles /\ f.role \in Roles
    BY <1>2, AccountsAssumption DEF Register, PublicRoles, Roles
  <2>2. QED
    BY <1>2, <2>1, InsertStarted DEF Register
<1>3. ASSUME NEW h \in Handlers, NEW f \in SeedForms, SeedUser(h, f) PROVE RequestStarted
  <2>1. f.email \in Emails /\ f.role \in Roles
    BY AccountsAssumption
  <2>2. QED
    BY <1>3, <2>1, InsertStarted DEF SeedUser
<1>4. ASSUME NEW h \in Handlers, NEW f \in AdminForms, CreateUserByAdmin(h, f)
      PROVE  RequestStarted
  <2>1. f.email \in Emails /\ f.role \in Roles
    BY AccountsAssumption
  <2>2. PICK by : by = request[h].by
    OBVIOUS
  <2>3. by \in Made /\ InFlight(by) /\ HasRole(by, {"admin"})
    BY <1>4, <2>2 DEF CreateUserByAdmin, Is, InFlight, RequestsHold, Fits
  <2>4. UNCHANGED users /\ Start(h, Request("insert", by, f.email, f.role))
    BY <1>4, <2>2 DEF CreateUserByAdmin
  <2>5. QED
    BY <1>1, <2>1, <2>3, <2>4, InsertStarted
<1>5. ASSUME NEW h \in Handlers, InsertUser(h) PROVE RequestStarted
  <2>1. CASE Start(h, None)
    BY <2>1, Ended
  <2>2. CASE ~Start(h, None)
    <3>1. PICK u : u = Len(users) + 1
      OBVIOUS
    <3>2. Start(h, Request("issue", u, None, None)) /\ Len(users') = Len(users) + 1
      BY <1>5, <2>2, <3>1 DEF InsertUser, RowsType
    <3>3. u \in Made' /\ u \in Ids /\ u \notin Made
      BY <3>1, <3>2, AccountsAssumption DEF Made, Ids, RowsKept, RowsType
    <3>4. QED
      BY <3>2, <3>3, UserStarted
  <2>3. QED
    BY <2>1, <2>2
<1>6. ASSUME NEW h \in Handlers, NEW u \in Made, Login(h, u) \/ Refresh(h, u)
      PROVE  RequestStarted
  <2>1. UNCHANGED users /\ users[u].active /\ Start(h, Request("issue", u, None, None))
    BY <1>6 DEF Login, Refresh
  <2>2. u \in Made'
    BY <2>1 DEF Made
  <2>3. QED
    BY <1>1, <2>1, <2>2, UserStarted
<1>7. ASSUME NEW h \in Handlers, NEW u \in Made, Authenticate(h, u) PROVE RequestStarted
  <2>1. /\ UNCHANGED <<users, age>> /\ users[u].active /\ age[u] < AccessTime
        /\ Start(h, Request("act", u, None, None))
    BY <1>7 DEF Authenticate, DecodesAccess
  <2>2. u \in Made'
    BY <2>1 DEF Made
  <2>3. QED
    BY <1>1, <2>1, <2>2, UserStarted
<1>8. CASE \E h \in Handlers : Start(h, None)
  BY <1>8, Ended
<1>9. CASE UNCHANGED request
  BY <1>9
<1>10. QED
  BY <1>2, <1>3, <1>4, <1>5, <1>6, <1>7, <1>8, <1>9
     DEF Permitted, Other, vars, CreateContract, Call, IssueTokens, Tick, Leave, Switch

-----------------------------------------------------------------------------

LEMMA AccountsInvInit == Init => AccountsInv
<1> SUFFICES ASSUME Init PROVE AccountsInv
  OBVIOUS
<1>1. TypeOK
  <2>1. users \in Seq(Rows) /\ Len(users) = 0
    BY DEF Init
  <2>2. RefreshTime \in 0..RefreshTime
    BY AccountsAssumption
  <2>3. QED
    BY <2>1, <2>2, AccountsAssumption DEF Init, TypeOK, Rows, NoCall
<1>2. RequestsHold
  BY DEF Init, RequestsHold, Fits
<1>3. PartiesHold /\ JudgesHold /\ BarredHold
  BY DEF Init, PartiesHold, JudgesHold, BarredHold, NoCall
<1>4. Made = {}
  BY DEF Init, Made
<1>5. QED
  BY <1>1, <1>2, <1>3, <1>4 DEF AccountsInv, OneAccountPerEmail, PrivilegeFromAbove

LEMMA AccountsTypes ==
  ASSUME TypeOK
  PROVE  RowsType /\ RequestsType /\ Made \subseteq Ids
BY AccountsAssumption DEF TypeOK, RowsType, Rows, RequestsType, RequestValues, Made, Ids

\* Every step remembers who is barred after it, and no call but a permitted one.
LEMMA NextRemembers ==
  ASSUME Next
  PROVE  /\ barred' = {u \in Ids : Shut(u)' /\ ((u \in barred /\ ~Entering(u)') \/ ~InFlight(u)')}
         /\ \/ last' = NoCall
            \/ \E h \in Handlers, f \in Made : CreateContract(h, f)
            \/ \E h \in Handlers, what \in Calls : Call(h, what)
<1>1. \E call : Remember(call)
  BY DEF Next, Permitted, Other, CreateContract, Call, Register, SeedUser, CreateUserByAdmin,
         InsertUser, Login, Refresh, IssueTokens, Tick, Authenticate, Leave, Switch
<1>2. Permitted \/ Remember(NoCall)
  BY DEF Next, Other, Register, SeedUser, CreateUserByAdmin, InsertUser, Login, Refresh,
         IssueTokens, Tick, Authenticate, Leave, Switch
<1>3. QED
  BY <1>1, <1>2 DEF Remember, Permitted

\* What a step of Next does besides its request and rows.
LEMMA OtherVariables ==
  ASSUME TypeOK, RequestsHold, RowsKept, Next
  PROVE  /\ age' \in [Ids -> 0..RefreshTime]
         /\ contract' \in {None} \cup [client : Ids, freelancer : Ids]
         /\ last' \in [who : Ids \cup {None}, what : Calls \cup {"create", "nothing"}]
         /\ barred' \subseteq Made'
<1>1. RowsType /\ Made \subseteq Ids
  BY AccountsTypes
<1>2. barred' \subseteq Made'
  BY NextRemembers DEF Shut
<1>3. ASSUME NEW h \in Handlers, Is(h, "act") PROVE request[h].by \in Ids
  BY <1>1, <1>3 DEF RequestsHold, Fits, Is
<1>4. age' \in [Ids -> 0..RefreshTime]
  <2>1. CASE UNCHANGED age
    BY <2>1 DEF TypeOK
  <2>2. CASE \E h \in Handlers : IssueTokens(h)
    <3>1. 0 \in 0..RefreshTime
      BY AccountsAssumption
    <3>2. age \in [Ids -> 0..RefreshTime]
      BY DEF TypeOK
    <3>3. QED
      BY <2>2, <3>1, <3>2 DEF IssueTokens
  <2>3. CASE Tick
    <3>1. \A u \in Ids : age[u] \in 0..RefreshTime
      BY DEF TypeOK
    <3>2. RefreshTime \in Nat
      BY AccountsAssumption
    <3>3. QED
      BY <2>3, <3>1, <3>2 DEF Tick
  <2>4. QED
    BY <2>1, <2>2, <2>3
       DEF Next, Permitted, Other, CreateContract, Call, Register, SeedUser, CreateUserByAdmin,
           InsertUser, Login, Refresh, Authenticate, Leave, Switch
<1>5. contract' \in {None} \cup [client : Ids, freelancer : Ids]
  <2>1. CASE UNCHANGED contract
    BY <2>1 DEF TypeOK
  <2>2. CASE \E h \in Handlers, f \in Made : CreateContract(h, f)
    BY <1>1, <1>3, <2>2 DEF CreateContract
  <2>3. QED
    BY <2>1, <2>2
       DEF Next, Permitted, Other, Call, Register, SeedUser, CreateUserByAdmin, InsertUser,
           Login, Refresh, IssueTokens, Tick, Authenticate, Leave, Switch
<1>6. last' \in [who : Ids \cup {None}, what : Calls \cup {"create", "nothing"}]
  <2>1. CASE last' = NoCall
    BY <2>1 DEF NoCall
  <2>2. CASE \E h \in Handlers, f \in Made : CreateContract(h, f)
    BY <1>3, <2>2 DEF CreateContract, Remember
  <2>3. CASE \E h \in Handlers, what \in Calls : Call(h, what)
    BY <1>3, <2>3 DEF Call, Remember
  <2>4. QED
    BY <2>1, <2>2, <2>3, NextRemembers
<1>7. QED
  BY <1>2, <1>4, <1>5, <1>6

LEMMA PartiesStep ==
  ASSUME RowsType, RowsKept, RequestsHold, PartiesHold, Next
  PROVE  PartiesHold'
<1>1. \A u \in Made : u \in Made' /\ users'[u].role = users[u].role
  BY DEF RowsKept, RowsType, Made
<1>2. CASE UNCHANGED contract
  BY <1>1, <1>2 DEF PartiesHold, HasRole
<1>3. ASSUME NEW h \in Handlers, NEW f \in Made, CreateContract(h, f) PROVE PartiesHold'
  <2>1. request[h].by \in Made
    BY <1>3 DEF CreateContract, RequestsHold, Fits, Is
  <2>2. /\ contract'.client = request[h].by
        /\ contract'.freelancer = f
        /\ HasRole(request[h].by, {"client"}) /\ HasRole(f, {"freelancer"})
    BY <1>3 DEF CreateContract, MayCreate
  <2>3. QED
    BY <1>1, <2>1, <2>2 DEF PartiesHold, HasRole
<1>4. QED
  BY <1>2, <1>3
     DEF Next, Permitted, Other, Call, Register, SeedUser, CreateUserByAdmin, InsertUser,
         Login, Refresh, IssueTokens, Tick, Authenticate, Leave, Switch

LEMMA JudgesStep ==
  ASSUME RequestsHold, Next
  PROVE  JudgesHold'
<1>1. CASE last' = NoCall
  BY <1>1 DEF JudgesHold, NoCall
<1>2. CASE \E h \in Handlers, f \in Made : CreateContract(h, f)
  BY <1>2 DEF CreateContract, Remember, JudgesHold
<1>3. ASSUME NEW h \in Handlers, NEW what \in Calls, Call(h, what) PROVE JudgesHold'
  <2> PICK u : u = request[h].by
    OBVIOUS
  <2>1. /\ UNCHANGED <<users, contract>>
        /\ contract # None
        /\ May(u, what)
        /\ last'.what = what /\ last'.who = u
    BY <1>3 DEF Call, Remember
  <2>2. u \in Made
    BY <1>3 DEF Call, RequestsHold, Fits, Is
  <2>3. what \in {"resolve", "mark_sent"} => HasRole(u, {"arbiter", "finance", "admin"})
    BY <2>1 DEF May, MayResolve, MayMarkSent, HasRole
  <2>4. QED
    BY <2>1, <2>2, <2>3 DEF JudgesHold, HasRole, Made
<1>4. QED
  BY <1>1, <1>2, <1>3, NextRemembers

LEMMA BarredStep ==
  ASSUME TypeOK, BarredHold, Next, age' \in [Ids -> 0..RefreshTime],
         RequestStarted \/ UNCHANGED request
  PROVE  BarredHold'
<1> SUFFICES ASSUME NEW u \in barred' PROVE Shut(u)' /\ ~InFlight(u)'
  BY DEF BarredHold
<1>1. /\ u \in Ids
      /\ Shut(u)'
      /\ (u \in barred /\ ~Entering(u)') \/ ~InFlight(u)'
  BY NextRemembers
<1>2. SUFFICES ASSUME u \in barred, ~Entering(u)', NEW g \in Handlers,
                      request'[g] # None, request'[g].by = u
               PROVE  FALSE
  BY <1>1 DEF InFlight
<1>3. u \in Made /\ ~InFlight(u)
  BY <1>2 DEF BarredHold, Shut
<1>4. PICK h \in Handlers, q \in {None} \cup RequestValues : Start(h, q) /\ Origin(q)
  BY <1>2, <1>3 DEF InFlight, RequestStarted
<1>5. g = h /\ q = request'[g]
  BY <1>2, <1>3, <1>4, AccountsTypes DEF InFlight, Start, RequestsType
<1>6. q # None /\ q.by = u
  BY <1>2, <1>5
<1>7. u \notin {Self, Seed}
  BY <1>1, AccountsAssumption
<1>8. ~(q.for = "issue" /\ users'[u].active)
  BY <1>2, <1>5, <1>6 DEF Entering, Is
<1>9. ~(users'[u].active /\ age'[u] < AccessTime)
  BY <1>1, AccountsAssumption DEF Shut
<1>10. QED
  BY <1>3, <1>4, <1>6, <1>7, <1>8, <1>9 DEF Origin

LEMMA EmailsStep ==
  ASSUME RowsType, RowsKept, RowAdded, OneAccountPerEmail
  PROVE  OneAccountPerEmail'
<1> SUFFICES ASSUME NEW u \in Made', NEW v \in Made', users'[u].email = users'[v].email
             PROVE  u = v
  BY DEF OneAccountPerEmail
<1>1. CASE u \in Made /\ v \in Made
  BY <1>1 DEF RowsKept, OneAccountPerEmail
<1>2. CASE Len(users') # Len(users)
  <2>1. PICK h \in Handlers :
          /\ ~Taken(request[h].email)
          /\ Len(users') = Len(users) + 1
          /\ users'[Len(users')].email = request[h].email
    BY <1>2 DEF RowAdded
  <2>2. \A w \in Made : users'[w].email # users'[Len(users')].email
    BY <2>1 DEF Taken, RowsKept
  <2>3. (u \in Made \/ u = Len(users')) /\ (v \in Made \/ v = Len(users'))
    BY <2>1 DEF Made, RowsType
  <2>4. QED
    BY <1>1, <2>2, <2>3
<1>3. QED
  BY <1>1, <1>2 DEF Made

LEMMA PrivilegeStep ==
  ASSUME RowsType, RowsKept, RowAdded, RequestsHold, PrivilegeFromAbove
  PROVE  PrivilegeFromAbove'
<1> SUFFICES ASSUME NEW u \in Made'
             PROVE  \/ users'[u].role \in PublicRoles
                    \/ users'[u].maker = Seed
                    \/ \E v \in 1..(u - 1) :
                         users'[u].maker = v /\ users'[v].role \in {"admin"}
  BY DEF PrivilegeFromAbove, HasRole
<1>1. \A v \in Made : users'[v].role = users[v].role /\ users'[v].maker = users[v].maker
  BY DEF RowsKept
<1>2. CASE u \in Made
  <2>1. 1..(u - 1) \subseteq Made
    BY <1>2 DEF Made, RowsType
  <2>2. QED
    BY <1>1, <1>2, <2>1 DEF PrivilegeFromAbove, HasRole
<1>3. CASE u \notin Made
  <2>1. Len(users') # Len(users)
    BY <1>3 DEF Made
  <2>2. PICK h \in Handlers :
          /\ Is(h, "insert")
          /\ Len(users') = Len(users) + 1
          /\ users'[Len(users')].role = request[h].role
          /\ users'[Len(users')].maker = request[h].by
    BY <2>1 DEF RowAdded
  <2>3. u = Len(users')
    BY <1>3, <2>2 DEF Made, RowsType
  <2>4. \/ request[h].role \in PublicRoles
        \/ request[h].by = Seed
        \/ request[h].by \in Made /\ users[request[h].by].role \in {"admin"}
    BY <2>2 DEF RequestsHold, Fits, Is, HasRole
  <2>5. Made = 1..(u - 1)
    BY <2>2, <2>3 DEF Made, RowsType
  <2>6. QED
    BY <1>1, <2>2, <2>3, <2>4, <2>5
<1>4. QED
  BY <1>2, <1>3

LEMMA AccountsInvStep == AccountsInv /\ [Next]_vars => AccountsInv'
<1> SUFFICES ASSUME AccountsInv, [Next]_vars PROVE AccountsInv'
  OBVIOUS
<1>1. CASE Next
  <2>1. RowsType /\ RequestsType /\ RequestsHold
    BY AccountsTypes DEF AccountsInv
  <2>2. Permitted \/ Other
    BY <1>1 DEF Next
  <2>3. RowsKept /\ RowAdded
    BY <2>1, <2>2, RowsStep
  <2>4. RequestStarted \/ UNCHANGED request
    BY <2>1, <2>2, <2>3, RequestsStep
  <2>5. RequestsType' /\ RequestsHold'
    BY <2>1, <2>3, <2>4, StartedHolds, UnstartedHolds
  <2>6. TypeOK'
    <3>1. RowsType'
      BY <2>3 DEF RowsKept
    <3>2. QED
      BY <1>1, <2>1, <2>3, <2>5, <3>1, OtherVariables
         DEF AccountsInv, TypeOK, RowsType, Rows, RequestsType, RequestValues
  <2>7. PartiesHold' /\ JudgesHold'
    BY <1>1, <2>1, <2>3, PartiesStep, JudgesStep DEF AccountsInv
  <2>8. BarredHold'
    BY <1>1, <2>1, <2>3, <2>4, OtherVariables, BarredStep DEF AccountsInv
  <2>9. OneAccountPerEmail' /\ PrivilegeFromAbove'
    BY <2>1, <2>3, EmailsStep, PrivilegeStep DEF AccountsInv
  <2>10. QED
    BY <2>5, <2>6, <2>7, <2>8, <2>9 DEF AccountsInv
<1>2. CASE UNCHANGED vars
  BY <1>2
     DEF vars, AccountsInv, TypeOK, RequestsHold, Fits, PartiesHold, JudgesHold, BarredHold, Shut,
         InFlight, OneAccountPerEmail, PrivilegeFromAbove, HasRole, Made
<1>3. QED
  BY <1>1, <1>2

LEMMA AccountsInvariant == Spec => []AccountsInv
BY AccountsInvInit, AccountsInvStep, PTL DEF Spec

-----------------------------------------------------------------------------

\* Accounts, requests, tokens' ages and the contract keep their types.
THEOREM AccountsTypeCorrect == Spec => []TypeOK
<1>1. AccountsInv => TypeOK
  BY DEF AccountsInv
<1>2. QED
  BY <1>1, AccountsInvariant, PTL

\* No two accounts share an email, however many requests look it up at once.
THEOREM EmailsUnique == Spec => []OneAccountPerEmail
<1>1. AccountsInv => OneAccountPerEmail
  BY DEF AccountsInv
<1>2. QED
  BY <1>1, AccountsInvariant, PTL

\* Every privileged account goes back to the seed or to an earlier admin.
THEOREM PrivilegeTraced == Spec => []PrivilegeFromAbove
<1>1. AccountsInv => PrivilegeFromAbove
  BY DEF AccountsInv
<1>2. QED
  BY <1>1, AccountsInvariant, PTL

\* Whoever rules or pays out is not a party of the contract.
THEOREM JudgesImpartial == Spec => []NobodyJudgesOwnCase
<1>1. AccountsInv => NobodyJudgesOwnCase
  <2> SUFFICES ASSUME AccountsInv, last.what \in {"resolve", "mark_sent"}
               PROVE  last.who \notin Parties
    BY DEF NobodyJudgesOwnCase
  <2>1. HasRole(last.who, {"arbiter", "finance", "admin"}) /\ contract # None
    BY DEF AccountsInv, JudgesHold
  <2>2. HasRole(contract.client, {"client"}) /\ HasRole(contract.freelancer, {"freelancer"})
    BY <2>1 DEF AccountsInv, PartiesHold
  <2>3. QED
    BY <2>1, <2>2 DEF HasRole, Parties
<1>2. QED
  BY <1>1, AccountsInvariant, PTL

\* A user who is shut out and has nothing in progress does nothing.
LEMMA BarredStill ==
  ASSUME AccountsInv, Next, NEW u \in barred
  PROVE  /\ last'.who # u
         /\ Len(users') > Len(users) => users'[Len(users')].maker # u
         /\ age'[u] >= age[u]
<1>1. /\ RowsType /\ RequestsHold /\ age \in [Ids -> 0..RefreshTime]
      /\ u \in Ids /\ ~InFlight(u)
  BY AccountsTypes DEF AccountsInv, TypeOK, BarredHold
<1>2. ASSUME NEW h \in Handlers, request[h] # None PROVE request[h].by # u
  BY <1>1, <1>2 DEF InFlight
<1>3. last'.who # u
  <2>1. CASE last' = NoCall
    BY <1>1, <2>1, AccountsAssumption DEF NoCall
  <2>2. CASE \E h \in Handlers, f \in Made : CreateContract(h, f)
    BY <1>2, <2>2 DEF CreateContract, Remember, Is
  <2>3. CASE \E h \in Handlers, what \in Calls : Call(h, what)
    BY <1>2, <2>3 DEF Call, Remember, Is
  <2>4. QED
    BY <2>1, <2>2, <2>3, NextRemembers
<1>4. Len(users') > Len(users) => users'[Len(users')].maker # u
  <2>1. RowAdded /\ RowsKept
    BY <1>1, RowsStep DEF Next
  <2>2. QED
    BY <1>1, <1>2, <2>1 DEF RowAdded, RowsKept, RowsType, Is
<1>5. age'[u] >= age[u]
  <2>1. age[u] \in 0..RefreshTime /\ RefreshTime \in Nat
    BY <1>1, AccountsAssumption
  <2>2. CASE UNCHANGED age
    BY <2>1, <2>2
  <2>3. CASE Tick
    BY <1>1, <2>1, <2>3 DEF Tick
  <2>4. ASSUME NEW h \in Handlers, IssueTokens(h) PROVE age'[u] >= age[u]
    BY <1>1, <1>2, <2>1, <2>4 DEF IssueTokens, Is
  <2>5. QED
    BY <2>2, <2>3, <2>4
       DEF Next, Permitted, Other, CreateContract, Call, Register, SeedUser, CreateUserByAdmin,
           InsertUser, Login, Refresh, Authenticate, Leave, Switch
<1>6. QED
  BY <1>3, <1>4, <1>5

\* A user who was deactivated or ran out of tokens does nothing until they log
\* in or refresh while active.
THEOREM BarredHarmless == Spec => BarredDoNothing
<1>1. AccountsInv /\ [Next]_vars =>
        [\A u \in barred :
           /\ last'.who # u
           /\ Len(users') > Len(users) => users'[Len(users')].maker # u
           /\ age'[u] >= age[u]]_vars
  BY BarredStill
<1>2. QED
  BY <1>1, AccountsInvariant, PTL DEF Spec, BarredDoNothing

=============================================================================
