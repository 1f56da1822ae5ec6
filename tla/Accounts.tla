------------------------------ MODULE Accounts -------------------------------
(***************************************************************************)
(* Who may do what: accounts and how they come to be, tokens and how they  *)
(* end, deactivation, and the permission checks of the calls on one        *)
(* contract.                                                               *)
(*                                                                         *)
(* accounts/services.py, core/security.py, core/dependencies.py, seed.py   *)
(* and the role checks of the other services, under src/app.  What a       *)
(* permitted call does is the matter of Escrow.                            *)
(*                                                                         *)
(* Tokens are signed and cannot be revoked, so the newest of a user's      *)
(* tokens can do whatever an older one can, and the two types are always   *)
(* issued together: the age of the newest pair stands for all.  Passwords  *)
(* are taken to be right.  No function of the code deactivates a user; an  *)
(* operator does, in the database.                                         *)
(***************************************************************************)
EXTENDS Naturals, Sequences, FiniteSets

CONSTANTS
  Emails,
  PublicForms,    \* email and role of a registration
  AdminForms,     \* the same of an account that an admin makes
  SeedForms,      \* and of the users that seed.py makes
  MaxUsers,       \* bound on rows
  MaxInactive,    \* bound on users that are deactivated at one time
  AccessTime,     \* life of an access token
  RefreshTime,    \* life of a refresh token
  Handlers,       \* requests, and a run of seed.py
  Self,           \* makes the account of whoever registers
  Seed,           \* makes the seed's accounts
  None            \* no request, no contract, nobody

Roles == {"client", "freelancer", "finance", "arbiter", "admin"}
PublicRoles == {"client", "freelancer"}
Ids == 1..MaxUsers

ASSUME AccountsAssumption ==
  /\ PublicForms \cup AdminForms \cup SeedForms \subseteq [email : Emails, role : Roles]
  /\ MaxUsers \in Nat /\ MaxInactive \in Nat
  /\ AccessTime \in Nat \ {0}
  /\ RefreshTime \in Nat /\ AccessTime <= RefreshTime
  /\ None \notin Ids \cup Emails
  /\ Self # Seed /\ {Self, Seed} \cap Ids = {}

VARIABLES
  users,        \* the rows of users, in the order of their commits
  age,          \* time since a user was last issued tokens, up to RefreshTime
  request,      \* what a handler is at
  contract,     \* client and freelancer of the contract
  last,         \* who was permitted which call in the last step (history)
  barred        \* users who could do nothing at some time and were given
                \* nothing since (history)

vars == <<users, age, request, contract, last, barred>>

Made == 1..Len(users)
Taken(e) == \E u \in Made : users[u].email = e
HasRole(u, R) == users[u].role \in R

(***************************************************************************)
(* A request of an authenticated user ("act"), one that will issue tokens  *)
(* to a user ("issue"), or one that will insert a row ("insert"); "by" is  *)
(* the user, and whoever makes the row.                                    *)
(***************************************************************************)
Request(for, by, email, role) == [for |-> for, by |-> by, email |-> email, role |-> role]
Start(h, q) == request' = [request EXCEPT ![h] = q]
NoCall == [who |-> None, what |-> "nothing"]
Is(h, for) == request[h] # None /\ request[h].for = for

(***************************************************************************)
(* The history: each step remembers who was permitted what, and who is     *)
(* barred after it.                                                        *)
(***************************************************************************)
InFlight(u) == \E h \in Handlers : request[h] # None /\ request[h].by = u

\* Deactivated, or without an access token of the present.
Shut(u) == u \in Made /\ (~users[u].active \/ age[u] >= AccessTime)

\* Active, and logging in or refreshing.
Entering(u) ==
  users[u].active /\ \E h \in Handlers : Is(h, "issue") /\ request[h].by = u

Remember(call) ==
  /\ last' = call
  /\ barred' = {u \in Ids : Shut(u)' /\ ((u \in barred /\ ~Entering(u)') \/ ~InFlight(u)')}

-----------------------------------------------------------------------------

Init ==
  /\ users = <<>>
  /\ age = [u \in Ids |-> RefreshTime]
  /\ request = [h \in Handlers |-> None]
  /\ contract = None
  /\ last = NoCall
  /\ barred = {}

(***************************************************************************)
(* Making accounts: the email is looked up, then the row is inserted.      *)
(***************************************************************************)
Register(h, f) ==
  /\ request[h] = None
  /\ f.role \in PublicRoles
  /\ ~Taken(f.email)
  /\ Start(h, Request("insert", Self, f.email, f.role))
  /\ UNCHANGED <<users, age, contract>>
  /\ Remember(NoCall)

SeedUser(h, f) ==
  /\ request[h] = None
  /\ ~Taken(f.email)
  /\ Start(h, Request("insert", Seed, f.email, f.role))
  /\ UNCHANGED <<users, age, contract>>
  /\ Remember(NoCall)

\* Faulty: takes the requested role from anybody who is authenticated.
CreateUserAnyone(h, f) ==
  /\ Is(h, "act")
  /\ ~Taken(f.email)
  /\ Start(h, Request("insert", request[h].by, f.email, f.role))
  /\ UNCHANGED <<users, age, contract>>
  /\ Remember(NoCall)

\* Faulty: the form may leave the role out.
CreateUserWithoutRole(h, f) ==
  /\ Is(h, "act")
  /\ HasRole(request[h].by, {"admin"})
  /\ ~Taken(f.email)
  /\ Start(h, Request("insert", request[h].by, f.email, None))
  /\ UNCHANGED <<users, age, contract>>
  /\ Remember(NoCall)

CreateUserByAdmin(h, f) ==
  /\ Is(h, "act")
  /\ HasRole(request[h].by, {"admin"})
  /\ ~Taken(f.email)
  /\ Start(h, Request("insert", request[h].by, f.email, f.role))
  /\ UNCHANGED <<users, age, contract>>
  /\ Remember(NoCall)

\* Faulty: the column has no unique index.
AcceptedAlways(e) == TRUE
\* The unique index on users.email.
Accepted(e) == ~Taken(e)

\* create_user; who registered is then issued tokens.  An email that was taken
\* meanwhile fails in the insert, and the request with it.
InsertUser(h) ==
  LET q == request[h]
      u == Len(users) + 1
  IN  /\ Is(h, "insert")
      /\ IF Accepted(q.email)
           THEN /\ u <= MaxUsers
                /\ users' = Append(users,
                     [email |-> q.email, role |-> q.role, active |-> TRUE, maker |-> q.by])
                /\ Start(h, IF q.by = Self THEN Request("issue", u, None, None) ELSE None)
           ELSE /\ Start(h, None)
                /\ UNCHANGED users
      /\ UNCHANGED <<age, contract>>
      /\ Remember(NoCall)

(***************************************************************************)
(* Tokens.                                                                 *)
(***************************************************************************)
Login(h, u) ==
  /\ request[h] = None
  /\ users[u].active
  /\ Start(h, Request("issue", u, None, None))
  /\ UNCHANGED <<users, age, contract>>
  /\ Remember(NoCall)

\* Faulty: whether the user is active is not looked at.
RefreshAnyUser(h, u) ==
  /\ request[h] = None
  /\ age[u] < RefreshTime
  /\ Start(h, Request("issue", u, None, None))
  /\ UNCHANGED <<users, age, contract>>
  /\ Remember(NoCall)

Refresh(h, u) ==
  /\ request[h] = None
  /\ age[u] < RefreshTime
  /\ users[u].active
  /\ Start(h, Request("issue", u, None, None))
  /\ UNCHANGED <<users, age, contract>>
  /\ Remember(NoCall)

\* issue_tokens, for a row that was read before.
IssueTokens(h) ==
  /\ Is(h, "issue")
  /\ age' = [age EXCEPT ![request[h].by] = 0]
  /\ Start(h, None)
  /\ UNCHANGED <<users, contract>>
  /\ Remember(NoCall)

Tick ==
  /\ age' = [u \in Ids |-> IF age[u] < RefreshTime THEN age[u] + 1 ELSE RefreshTime]
  /\ UNCHANGED <<users, request, contract>>
  /\ Remember(NoCall)

(***************************************************************************)
(* Calls.  get_current_user reads the row; the service function then goes  *)
(* by what was read.                                                       *)
(***************************************************************************)

\* Faulty: decode_token takes a token of either type.
DecodesEither(u) == age[u] < RefreshTime
DecodesAccess(u) == age[u] < AccessTime

Authenticate(h, u) ==
  /\ request[h] = None
  /\ DecodesAccess(u)
  /\ users[u].active
  /\ Start(h, Request("act", u, None, None))
  /\ UNCHANGED <<users, age, contract>>
  /\ Remember(NoCall)

\* Faulty: require_role(CLIENT), which lets an admin through.
MayCreateRequired(u) == HasRole(u, {"client", "admin"})
MayCreate(u) == HasRole(u, {"client"})

CreateContract(h, f) ==
  LET u == request[h].by IN
  /\ Is(h, "act")
  /\ contract = None
  /\ MayCreate(u)
  /\ HasRole(f, {"freelancer"})
  /\ contract' = [client |-> u, freelancer |-> f]
  /\ Start(h, None)
  /\ UNCHANGED <<users, age>>
  /\ Remember([who |-> u, what |-> "create"])

Parties == {contract.client, contract.freelancer}
Calls == {"fund", "submit", "approve", "dispute", "post", "payout", "resolve", "mark_sent"}

\* The permission checks of the service functions.
MayFund(u) == u = contract.client \/ HasRole(u, {"admin"})
MaySubmit(u) == u = contract.freelancer
MayApprove(u) == u = contract.client
MayDispute(u) == u \in Parties
MayPost(u) == u \in Parties \/ HasRole(u, {"arbiter", "admin"})
MayRequestPayout(u) == HasRole(u, {"freelancer"}) /\ u = contract.freelancer
MayResolve(u) == HasRole(u, {"arbiter", "admin"})
MayMarkSent(u) == HasRole(u, {"finance", "admin"})

May(u, what) ==
  CASE what = "fund" -> MayFund(u)
    [] what = "submit" -> MaySubmit(u)
    [] what = "approve" -> MayApprove(u)
    [] what = "dispute" -> MayDispute(u)
    [] what = "post" -> MayPost(u)
    [] what = "payout" -> MayRequestPayout(u)
    [] what = "resolve" -> MayResolve(u)
    [] what = "mark_sent" -> MayMarkSent(u)

Call(h, what) ==
  LET u == request[h].by IN
  /\ Is(h, "act")
  /\ contract # None
  /\ May(u, what)
  /\ Start(h, None)
  /\ UNCHANGED <<users, age, contract>>
  /\ Remember([who |-> u, what |-> what])

\* A refused request, one that only reads, or the death of its process.
Leave(h) ==
  /\ request[h] # None
  /\ Start(h, None)
  /\ UNCHANGED <<users, age, contract>>
  /\ Remember(NoCall)

\* The operator deactivates a user, or activates one again.
Switch(u) ==
  /\ users[u].active => Cardinality({v \in Made : ~users[v].active}) < MaxInactive
  /\ users' = [users EXCEPT ![u].active = ~@]
  /\ UNCHANGED <<age, request, contract>>
  /\ Remember(NoCall)

-----------------------------------------------------------------------------

Permitted ==
  \/ \E h \in Handlers, f \in Made : CreateContract(h, f)
  \/ \E h \in Handlers, what \in Calls : Call(h, what)

Other ==
  \/ \E h \in Handlers, f \in PublicForms : Register(h, f)
  \/ \E h \in Handlers, f \in SeedForms : SeedUser(h, f)
  \/ \E h \in Handlers, f \in AdminForms : CreateUserByAdmin(h, f)
  \/ \E h \in Handlers : InsertUser(h)
  \/ \E h \in Handlers, u \in Made : Login(h, u)
  \/ \E h \in Handlers, u \in Made : Refresh(h, u)
  \/ \E h \in Handlers : IssueTokens(h)
  \/ Tick
  \/ \E h \in Handlers, u \in Made : Authenticate(h, u)
  \/ \E h \in Handlers : Leave(h)
  \/ \E u \in Made : Switch(u)

Next == Permitted \/ Other

Spec == Init /\ [][Next]_vars

-----------------------------------------------------------------------------

\* Each variable has its type.
TypeOK ==
  /\ users \in Seq([email : Emails, role : Roles, active : BOOLEAN,
                    maker : {Self, Seed} \cup Ids])
  /\ Len(users) <= MaxUsers
  /\ age \in [Ids -> 0..RefreshTime]
  /\ request \in [Handlers -> {None} \cup
       [for : {"act", "issue", "insert"}, by : {Self, Seed} \cup Ids,
        email : Emails \cup {None}, role : Roles \cup {None}]]
  /\ contract \in {None} \cup [client : Ids, freelancer : Ids]
  /\ last \in [who : Ids \cup {None}, what : Calls \cup {"create", "nothing"}]
  /\ barred \subseteq Made

\* Registrations, admins and the seed never make two accounts of one email,
\* though each looks the email up before it inserts.
OneAccountPerEmail ==
  \A u, v \in Made : users[u].email = users[v].email => u = v

\* Every arbiter, finance user and admin was made by the seed or by an earlier
\* admin: no public request leads to such an account.
PrivilegeFromAbove ==
  \A u \in Made :
    HasRole(u, PublicRoles)
      \/ users[u].maker = Seed
      \/ \E v \in 1..(u - 1) : users[u].maker = v /\ HasRole(v, {"admin"})

\* Whoever rules on a contract's dispute or marks its payouts as sent is not
\* its client and not its freelancer.
NobodyJudgesOwnCase ==
  last.what \in {"resolve", "mark_sent"} => last.who \notin Parties

\* A user who was deactivated, or whose access token ran out, and had no
\* request in progress, does nothing and makes no account until, while active,
\* they log in or refresh anew; and no tokens are issued to them before.
BarredDoNothing ==
  [][\A u \in barred :
       /\ last'.who # u
       /\ Len(users') > Len(users) => users'[Len(users')].maker # u
       /\ age'[u] >= age[u]]_vars

=============================================================================
