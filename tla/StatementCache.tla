--------------------------- MODULE StatementCache ---------------------------
(***************************************************************************)
(* The cached account statement of one contract: readers that fill the     *)
(* cache from several separate queries, and writers that drop it before    *)
(* they commit.                                                            *)
(*                                                                         *)
(* get_statement and the ledger operations of escrow/services.py, and      *)
(* platform/cache/redis_client.py, under src/app.                          *)
(*                                                                         *)
(* The ledger only grows, so a reading of it is known by the number of     *)
(* movements it includes.  The database is READ COMMITTED: each query of a *)
(* reader sees what is committed when it runs.  A writer holds the         *)
(* contract's row lock from its first movement to its commit, so there is  *)
(* one writer at a time.  A hit answers with what is cached and changes    *)
(* nothing.                                                                *)
(***************************************************************************)
EXTENDS Naturals

CONSTANTS
  Pages,        \* cache keys of the contract: its limits and offsets
  Readers,      \* handlers of statement requests
  Queries,      \* queries that a miss sends: entries, page, four balances
  MaxMoves,     \* bound on movements
  None          \* nothing cached, no request

Movements == 0..MaxMoves

(***************************************************************************)
(* A statement is told by what its first and its last query saw.  "raced"  *)
(* is history: its queries overlapped a writer, or a deletion of it        *)
(* failed.                                                                 *)
(***************************************************************************)
Statements ==
  [first : Movements, last : Movements, raced : BOOLEAN, expires : BOOLEAN]

\* A request that missed: the queries done and what the statement will be.
Requests ==
  [page : Pages, done : 0..Queries, first : Movements, last : Movements, raced : BOOLEAN]

ASSUME CacheAssumption ==
  /\ Queries \in Nat \ {0}
  /\ MaxMoves \in Nat
  /\ None \notin Statements \cup Requests

VARIABLES
  ledger,       \* movements committed
  flushed,      \* movements including those of the open transaction
  phase,        \* of the writer: "idle", "sweeping" or "swept"
  scan,         \* pages that its scan has yet to delete
  cache,        \* per page the statement in Redis
  reader        \* per reader the request that missed and what it has read

writer == <<flushed, phase, scan>>
vars == <<ledger, writer, cache, reader>>

Statement(first, last, raced, expires) ==
  [first |-> first, last |-> last, raced |-> raced, expires |-> expires]

Request(page, done, first, last, raced) ==
  [page |-> page, done |-> done, first |-> first, last |-> last, raced |-> raced]

Current(s) == s.first = ledger /\ s.last = ledger

Cached == {p \in Pages : cache[p] # None}

-----------------------------------------------------------------------------

Init ==
  /\ ledger = 0
  /\ flushed = 0
  /\ phase = "idle"
  /\ scan = {}
  /\ cache = [p \in Pages |-> None]
  /\ reader = [r \in Readers |-> None]

(***************************************************************************)
(* Readers.  get_cached takes a Redis error or bad data for a miss.        *)
(***************************************************************************)
Miss(r, p) ==
  /\ reader[r] = None
  /\ reader' = [reader EXCEPT ![r] = Request(p, 0, 0, 0, phase # "idle")]
  /\ UNCHANGED <<ledger, writer, cache>>

Query(r) ==
  LET q == reader[r] IN
  /\ q # None
  /\ q.done < Queries
  /\ reader' = [reader EXCEPT ![r] =
       Request(q.page, q.done + 1, IF q.done = 0 THEN ledger ELSE q.first, ledger, q.raced)]
  /\ UNCHANGED <<ledger, writer, cache>>

\* Faulty: the statement is stored without an expiry.
StoreForGood(r) ==
  LET q == reader[r] IN
  /\ q # None
  /\ q.done = Queries
  /\ cache' = [cache EXCEPT ![q.page] = Statement(q.first, q.last, q.raced, FALSE)]
  /\ reader' = [reader EXCEPT ![r] = None]
  /\ UNCHANGED <<ledger, writer>>

\* set_cached with its expiry, and the answer.
Store(r) ==
  LET q == reader[r] IN
  /\ q # None
  /\ q.done = Queries
  /\ cache' = [cache EXCEPT ![q.page] = Statement(q.first, q.last, q.raced, TRUE)]
  /\ reader' = [reader EXCEPT ![r] = None]
  /\ UNCHANGED <<ledger, writer>>

\* Redis refuses the statement and it is answered all the same; or the
\* reader's process dies.
StoreNothing(r) ==
  /\ reader[r] # None
  /\ reader' = [reader EXCEPT ![r] = None]
  /\ UNCHANGED <<ledger, writer, cache>>

\* Redis lets a statement expire, 60 seconds after it was stored.
Expire(p) ==
  /\ p \in Cached
  /\ cache[p].expires
  /\ cache' = [cache EXCEPT ![p] = None]
  /\ UNCHANGED <<ledger, writer, reader>>

(***************************************************************************)
(* The writer: a movement is flushed and the cache swept, perhaps several  *)
(* times (a ruling on a contract), then it commits.                        *)
(***************************************************************************)
Race(q) == IF q = None THEN None ELSE [q EXCEPT !.raced = TRUE]

\* Faulty: one exact key is invalidated instead of the prefix.
SweptOneKey(p) == p = CHOOSE q \in Pages : TRUE
\* What the scan of the prefix is sure to return: the keys present throughout.
SweptKey(p) == TRUE

Move ==
  /\ phase # "sweeping"
  /\ flushed < MaxMoves
  /\ flushed' = flushed + 1
  /\ phase' = "sweeping"
  /\ scan' = {p \in Cached : SweptKey(p)}
  /\ reader' = [r \in Readers |-> Race(reader[r])]
  /\ UNCHANGED <<ledger, cache>>

\* One round of invalidate_prefix.  A key that came in since the scan began
\* may be returned as well.
Sweep(p) ==
  /\ phase = "sweeping"
  /\ p \in scan \cup Cached
  /\ cache' = [cache EXCEPT ![p] = None]
  /\ scan' = scan \ {p}
  /\ UNCHANGED <<ledger, flushed, phase, reader>>

SweepEnds ==
  /\ phase = "sweeping"
  /\ scan = {}
  /\ phase' = "swept"
  /\ UNCHANGED <<ledger, flushed, scan, cache, reader>>

\* A Redis error ends the loop, and only a warning tells of it.
SweepFails ==
  /\ phase = "sweeping"
  /\ phase' = "swept"
  /\ scan' = {}
  /\ cache' = [p \in Pages |-> Race(cache[p])]
  /\ UNCHANGED <<ledger, flushed, reader>>

Commit ==
  /\ phase = "swept"
  /\ ledger' = flushed
  /\ phase' = "idle"
  /\ UNCHANGED <<flushed, scan, cache, reader>>

\* Faulty: an error takes back a movement that was committed.
RollbackTooFar ==
  /\ phase # "idle"
  /\ flushed' = ledger - 1
  /\ phase' = "idle"
  /\ scan' = {}
  /\ UNCHANGED <<ledger, cache, reader>>

\* An error after the movement, or the death of the writer's process.
Rollback ==
  /\ phase # "idle"
  /\ flushed' = ledger
  /\ phase' = "idle"
  /\ scan' = {}
  /\ UNCHANGED <<ledger, cache, reader>>

-----------------------------------------------------------------------------

Next ==
  \/ \E r \in Readers, p \in Pages : Miss(r, p)
  \/ \E r \in Readers : Query(r)
  \/ \E r \in Readers : Store(r)
  \/ \E r \in Readers : StoreNothing(r)
  \/ \E p \in Pages : Expire(p)
  \/ Move
  \/ \E p \in Pages : Sweep(p)
  \/ SweepEnds
  \/ SweepFails
  \/ Commit
  \/ Rollback

(***************************************************************************)
(* Redis expires what is due, and a request that has begun goes on.        *)
(* Nobody is obliged to ask or to move money.                              *)
(***************************************************************************)
Fairness ==
  /\ \A p \in Pages : WF_vars(Expire(p))
  /\ \A r \in Readers :
       WF_vars(Query(r)) /\ WF_vars(Store(r) \/ StoreNothing(r))

Spec == Init /\ [][Next]_vars /\ Fairness

-----------------------------------------------------------------------------
\* Each variable has its type.
TypeOK ==
  /\ ledger \in Movements
  /\ flushed \in Movements
  /\ phase \in {"idle", "sweeping", "swept"}
  /\ scan \subseteq Pages
  /\ cache \in [Pages -> Statements \cup {None}]
  /\ reader \in [Readers -> Requests \cup {None}]

\* A cached statement is out of date, or made of several states of the
\* ledger, only if its reader's queries overlapped a writer or Redis failed
\* to delete it: a statement that was computed at rest is gone, page and
\* all, before the next movement commits.
StaleOnlyIfRaced ==
  \A p \in Cached : ~cache[p].raced => Current(cache[p])

\* Once the contract's money rests, every cached statement is up to date from
\* some time on: what was cached in a race, or missed by a sweep, goes, and no
\* late reader brings it back.
StatementsCatchUp ==
  <>[](phase = "idle") => <>[](\A p \in Cached : Current(cache[p]))

=============================================================================
