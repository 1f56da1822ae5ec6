----------------------------- MODULE CacheProofs -----------------------------
(***************************************************************************)
(* Theorems about StatementCache, for any pages, readers and number of     *)
(* queries.  What a sweep has not reached yet is the inductive invariant:  *)
(* a statement that was computed at rest is either current or still on the *)
(* scan's list.                                                            *)
(***************************************************************************)
EXTENDS StatementCache, TLAPS

\* A reader that no writer overlapped reads while no writer is there, and has
\* seen the ledger as it is.
QuietReaders ==
  \A r \in Readers :
    reader[r] # None /\ ~reader[r].raced =>
      /\ phase = "idle"
      /\ reader[r].done > 0 => reader[r].first = ledger /\ reader[r].last = ledger

\* While there is a writer, whatever was computed at rest is on the scan's
\* list; when the scan is over nothing of it is left.
QuietPagesScanned ==
  \A p \in Pages :
    phase # "idle" /\ cache[p] # None /\ ~cache[p].raced => p \in scan

ScanWhileSweeping == phase # "sweeping" => scan = {}

CacheInv ==
  /\ TypeOK
  /\ QuietReaders
  /\ QuietPagesScanned
  /\ ScanWhileSweeping
  /\ StaleOnlyIfRaced

-----------------------------------------------------------------------------

LEMMA StatementType ==
  ASSUME NEW a \in Movements, NEW b \in Movements, NEW x \in BOOLEAN, NEW y \in BOOLEAN
  PROVE  /\ Statement(a, b, x, y) \in Statements
         /\ Statement(a, b, x, y) # None
<1>1. Statement(a, b, x, y) \in Statements
  BY DEF Statement, Statements
<1>2. QED
  BY <1>1, CacheAssumption

LEMMA RequestType ==
  ASSUME NEW p \in Pages, NEW n \in 0..Queries, NEW a \in Movements, NEW b \in Movements,
         NEW x \in BOOLEAN
  PROVE  /\ Request(p, n, a, b, x) \in Requests
         /\ Request(p, n, a, b, x) # None
<1>1. Request(p, n, a, b, x) \in Requests
  BY DEF Request, Requests
<1>2. QED
  BY <1>1, CacheAssumption

LEMMA RaceStatement ==
  ASSUME NEW q \in Statements \cup {None}
  PROVE  /\ Race(q) \in Statements \cup {None}
         /\ q = None => Race(q) = None
         /\ q # None => Race(q) # None /\ Race(q).raced
<1>1. CASE q = None
  BY <1>1 DEF Race
<1>2. CASE q \in Statements
  <2>1. Race(q) = [q EXCEPT !.raced = TRUE]
    BY <1>2, CacheAssumption DEF Race
  <2>2. Race(q) \in Statements /\ Race(q).raced
    BY <1>2, <2>1 DEF Statements
  <2>3. QED
    BY <1>2, <2>2, CacheAssumption
<1>3. QED
  BY <1>1, <1>2

LEMMA RaceRequest ==
  ASSUME NEW q \in Requests \cup {None}
  PROVE  /\ Race(q) \in Requests \cup {None}
         /\ q = None => Race(q) = None
         /\ q # None => Race(q) # None /\ Race(q).raced
<1>1. CASE q = None
  BY <1>1 DEF Race
<1>2. CASE q \in Requests
  <2>1. Race(q) = [q EXCEPT !.raced = TRUE]
    BY <1>2, CacheAssumption DEF Race
  <2>2. Race(q) \in Requests /\ Race(q).raced
    BY <1>2, <2>1 DEF Requests
  <2>3. QED
    BY <1>2, <2>2, CacheAssumption
<1>3. QED
  BY <1>1, <1>2

-----------------------------------------------------------------------------

LEMMA CacheInvInit == Init => CacheInv
<1>1. 0 \in Movements
  BY CacheAssumption DEF Movements
<1>2. QED
  BY <1>1 DEF Init, CacheInv, TypeOK, QuietReaders, QuietPagesScanned,
    ScanWhileSweeping, StaleOnlyIfRaced, Cached

LEMMA CacheInvStep == CacheInv /\ [Next]_vars => CacheInv'
<1> SUFFICES ASSUME CacheInv, [Next]_vars
             PROVE  CacheInv'
  OBVIOUS
<1> USE DEF CacheInv
<1>1. ASSUME NEW r \in Readers, NEW p \in Pages, Miss(r, p)
      PROVE  CacheInv'
  <2> DEFINE q == Request(p, 0, 0, 0, phase # "idle")
  <2> DEFINE busy == phase # "idle"
  <2>0. 0 \in Movements /\ 0 \in 0..Queries /\ busy \in BOOLEAN
    BY CacheAssumption DEF Movements
  <2>1. q \in Requests /\ q # None
    <3> HIDE DEF busy
    <3>1. Request(p, 0, 0, 0, busy) \in Requests /\ Request(p, 0, 0, 0, busy) # None
      BY <2>0, RequestType
    <3> USE DEF busy
    <3>2. QED
      BY <3>1
  <2>2. q.done = 0 /\ (~q.raced => phase = "idle")
    BY DEF Request
  <2> HIDE DEF q
  <2>3. reader' = [reader EXCEPT ![r] = q]
    BY <1>1 DEF Miss, q
  <2>4. UNCHANGED <<ledger, flushed, phase, scan, cache>>
    BY <1>1 DEF Miss, writer
  <2>5. TypeOK'
    BY <2>1, <2>3, <2>4 DEF TypeOK
  <2>6. QuietReaders'
    BY <2>1, <2>2, <2>3, <2>4 DEF QuietReaders, TypeOK
  <2>7. (QuietPagesScanned /\ ScanWhileSweeping /\ StaleOnlyIfRaced)'
    BY <2>4 DEF QuietPagesScanned, ScanWhileSweeping, StaleOnlyIfRaced, Cached, Current
  <2>8. QED
    BY <2>5, <2>6, <2>7
<1>2. ASSUME NEW r \in Readers, Query(r)
      PROVE  CacheInv'
  <2> DEFINE o == reader[r]
             f == IF o.done = 0 THEN ledger ELSE o.first
             q == Request(o.page, o.done + 1, f, ledger, o.raced)
  <2>1. o \in Requests /\ o.done < Queries
    BY <1>2 DEF Query, TypeOK
  <2>2. o.page \in Pages /\ o.done \in Nat /\ o.raced \in BOOLEAN /\ o.first \in Movements
    BY <2>1, CacheAssumption DEF Requests
  <2>3. o.done + 1 \in 0..Queries /\ f \in Movements /\ ledger \in Movements
    BY <2>1, <2>2, CacheAssumption DEF TypeOK
  <2>4. q \in Requests /\ q # None
    BY <2>2, <2>3, RequestType
  <2>5. q.raced = o.raced /\ q.first = f /\ q.last = ledger
    BY DEF Request
  <2>6. reader' = [reader EXCEPT ![r] = q]
    BY <1>2 DEF Query
  <2>7. ~o.raced => phase = "idle" /\ f = ledger
    BY <1>2, <2>2 DEF Query, QuietReaders
  <2> HIDE DEF q
  <2>8. UNCHANGED <<ledger, flushed, phase, scan, cache>>
    BY <1>2 DEF Query, writer
  <2>9. TypeOK'
    BY <2>4, <2>6, <2>8 DEF TypeOK
  <2>10. QuietReaders'
    BY <2>4, <2>5, <2>6, <2>7, <2>8 DEF QuietReaders, TypeOK
  <2>11. (QuietPagesScanned /\ ScanWhileSweeping /\ StaleOnlyIfRaced)'
    BY <2>8 DEF QuietPagesScanned, ScanWhileSweeping, StaleOnlyIfRaced, Cached, Current
  <2>12. QED
    BY <2>9, <2>10, <2>11
<1>3. ASSUME NEW r \in Readers, Store(r)
      PROVE  CacheInv'
  <2> DEFINE o == reader[r]
             s == Statement(o.first, o.last, o.raced, TRUE)
  <2>1. o \in Requests /\ o.done = Queries /\ o # None
    BY <1>3 DEF Store, TypeOK
  <2>2. o.page \in Pages /\ o.first \in Movements /\ o.last \in Movements /\ o.raced \in BOOLEAN
    BY <2>1 DEF Requests
  <2>3. s \in Statements /\ s # None
    BY <2>2, StatementType
  <2>4. s.raced = o.raced /\ s.first = o.first /\ s.last = o.last
    BY DEF Statement
  <2>5. ~s.raced => phase = "idle" /\ s.first = ledger /\ s.last = ledger
    <3> HIDE DEF s
    <3>1. o.done > 0
      BY <2>1, CacheAssumption
    <3>2. QED
      BY <2>1, <2>4, <3>1 DEF QuietReaders
  <2>6. cache' = [cache EXCEPT ![o.page] = s] /\ reader' = [reader EXCEPT ![r] = None]
    BY <1>3 DEF Store
  <2> HIDE DEF s
  <2>7. UNCHANGED <<ledger, flushed, phase, scan>>
    BY <1>3 DEF Store, writer
  <2>8. TypeOK'
    BY <2>2, <2>3, <2>6, <2>7 DEF TypeOK
  <2>9. QuietReaders'
    BY <2>6, <2>7 DEF QuietReaders, TypeOK
  <2>10. (QuietPagesScanned /\ ScanWhileSweeping)'
    BY <2>2, <2>3, <2>5, <2>6, <2>7 DEF QuietPagesScanned, ScanWhileSweeping, TypeOK
  <2>11. StaleOnlyIfRaced'
    BY <2>2, <2>3, <2>5, <2>6, <2>7 DEF StaleOnlyIfRaced, Cached, Current, TypeOK
  <2>12. QED
    BY <2>8, <2>9, <2>10, <2>11
<1>4. ASSUME NEW r \in Readers, StoreNothing(r)
      PROVE  CacheInv'
  <2>1. TypeOK'
    BY <1>4 DEF StoreNothing, TypeOK, writer
  <2>2. QuietReaders'
    BY <1>4 DEF StoreNothing, TypeOK, writer, QuietReaders
  <2>3. (QuietPagesScanned /\ ScanWhileSweeping /\ StaleOnlyIfRaced)'
    BY <1>4 DEF StoreNothing, writer, QuietPagesScanned, ScanWhileSweeping, StaleOnlyIfRaced,
      Cached, Current
  <2>4. QED
    BY <2>1, <2>2, <2>3
<1>5. ASSUME NEW p \in Pages, cache' = [cache EXCEPT ![p] = None], scan' \in {scan, scan \ {p}},
             phase' = phase, scan' = scan \/ phase = "sweeping",
             UNCHANGED <<ledger, flushed, reader>>
      PROVE  CacheInv'
  <2>1. TypeOK'
    BY <1>5 DEF TypeOK
  <2>2. QuietReaders'
    BY <1>5 DEF QuietReaders
  <2>3. (QuietPagesScanned /\ ScanWhileSweeping)'
    BY <1>5 DEF QuietPagesScanned, ScanWhileSweeping, TypeOK
  <2>4. StaleOnlyIfRaced'
    BY <1>5 DEF StaleOnlyIfRaced, Cached, Current, TypeOK
  <2>5. QED
    BY <2>1, <2>2, <2>3, <2>4
<1>6. ASSUME NEW p \in Pages, Expire(p)
      PROVE  CacheInv'
  BY <1>5, <1>6 DEF Expire, writer
<1>7. ASSUME Move
      PROVE  CacheInv'
  <2>1. /\ flushed' \in Movements
        /\ phase' = "sweeping"
        /\ scan' = Cached
    BY <1>7, CacheAssumption DEF Move, TypeOK, Movements, SweptKey
  <2>2. UNCHANGED <<ledger, cache>>
    BY <1>7 DEF Move
  <2>3. reader' = [r \in Readers |-> Race(reader[r])]
    BY <1>7 DEF Move
  <2>4. \A r \in Readers : /\ reader'[r] \in Requests \cup {None}
                           /\ reader'[r] # None => reader'[r].raced
    BY <2>3, RaceRequest DEF TypeOK
  <2>5. TypeOK'
    BY <2>1, <2>2, <2>3, <2>4 DEF TypeOK, Cached
  <2>6. QuietReaders'
    BY <2>4 DEF QuietReaders
  <2>7. (QuietPagesScanned /\ ScanWhileSweeping /\ StaleOnlyIfRaced)'
    BY <2>1, <2>2 DEF QuietPagesScanned, ScanWhileSweeping, StaleOnlyIfRaced, Cached, Current
  <2>8. QED
    BY <2>5, <2>6, <2>7
<1>8. ASSUME NEW p \in Pages, Sweep(p)
      PROVE  CacheInv'
  BY <1>5, <1>8 DEF Sweep
<1>9. ASSUME SweepEnds
      PROVE  CacheInv'
  BY <1>9 DEF SweepEnds, TypeOK, QuietReaders, QuietPagesScanned, ScanWhileSweeping,
    StaleOnlyIfRaced, Cached, Current
<1>10. ASSUME SweepFails
       PROVE  CacheInv'
  <2>1. phase' = "swept" /\ scan' = {} /\ UNCHANGED <<ledger, flushed, reader>>
    BY <1>10 DEF SweepFails
  <2>2. phase = "sweeping"
    BY <1>10 DEF SweepFails
  <2>3. cache' = [p \in Pages |-> Race(cache[p])]
    BY <1>10 DEF SweepFails
  <2>4. \A p \in Pages : /\ cache'[p] \in Statements \cup {None}
                         /\ cache'[p] # None => cache'[p].raced
    BY <2>3, RaceStatement DEF TypeOK
  <2>5. TypeOK'
    BY <2>1, <2>3, <2>4 DEF TypeOK
  <2>6. QuietReaders'
    BY <2>1, <2>2 DEF QuietReaders
  <2>7. (QuietPagesScanned /\ ScanWhileSweeping /\ StaleOnlyIfRaced)'
    BY <2>1, <2>4 DEF QuietPagesScanned, ScanWhileSweeping, StaleOnlyIfRaced, Cached
  <2>8. QED
    BY <2>5, <2>6, <2>7
<1>11. ASSUME Commit
       PROVE  CacheInv'
  <2>1. TypeOK'
    BY <1>11 DEF Commit, TypeOK
  <2>2. phase = "swept" /\ scan = {} /\ scan' = {} /\ phase' = "idle"
    BY <1>11 DEF Commit, ScanWhileSweeping
  <2>3. \A r \in Readers : reader[r] # None => reader[r].raced
    BY <2>2 DEF QuietReaders
  <2>4. \A p \in Pages : cache[p] # None => cache[p].raced
    BY <2>2 DEF QuietPagesScanned
  <2>5. UNCHANGED <<cache, reader>>
    BY <1>11 DEF Commit
  <2>6. QED
    BY <2>1, <2>2, <2>3, <2>4, <2>5 DEF QuietReaders, QuietPagesScanned, ScanWhileSweeping,
      StaleOnlyIfRaced, Cached
<1>12. ASSUME Rollback
       PROVE  CacheInv'
  <2>1. phase' = "idle" /\ scan' = {} /\ UNCHANGED <<ledger, cache, reader>>
    BY <1>12 DEF Rollback
  <2>2. TypeOK'
    BY <1>12 DEF Rollback, TypeOK
  <2>3. QuietReaders'
    BY <2>1 DEF QuietReaders
  <2>4. QED
    BY <2>1, <2>2, <2>3 DEF QuietPagesScanned, ScanWhileSweeping, StaleOnlyIfRaced, Cached, Current
<1>13. CASE UNCHANGED vars
  BY <1>13 DEF vars, writer, TypeOK, QuietReaders, QuietPagesScanned, ScanWhileSweeping,
    StaleOnlyIfRaced, Cached, Current
<1>14. QED
  BY <1>1, <1>2, <1>3, <1>4, <1>6, <1>7, <1>8, <1>9, <1>10, <1>11, <1>12, <1>13 DEF Next

\* The invariant holds in every reachable state.
THEOREM CacheInvariant == Spec => []CacheInv
<1>1. QED
  BY CacheInvInit, CacheInvStep, PTL DEF Spec

\* The variables keep their types, for any instance.
THEOREM CacheTypeCorrect == Spec => []TypeOK
<1>1. CacheInv => TypeOK
  BY DEF CacheInv
<1>2. QED
  BY <1>1, CacheInvariant, PTL

\* A statement that was computed while no money moved is never served after the
\* next movement has committed, unless Redis failed to delete it: for any
\* number of pages, readers, queries and movements per transaction.
THEOREM StatementsCurrentAtRest == Spec => []StaleOnlyIfRaced
<1>1. CacheInv => StaleOnlyIfRaced
  BY DEF CacheInv
<1>2. QED
  BY <1>1, CacheInvariant, PTL

=============================================================================
