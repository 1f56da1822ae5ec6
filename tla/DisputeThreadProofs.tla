------------------------ MODULE DisputeThreadProofs -------------------------
(***************************************************************************)
(* Theorems about DisputeThread, for any messages, handlers, connections   *)
(* and number of crashes, as long as one process serves all handlers: then *)
(* its event loop keeps a posting and a resolution apart.                  *)
(***************************************************************************)
EXTENDS DisputeThread, SequenceTheorems, TLAPS

\* One server process has all handlers, as the Dockerfile starts it.
OneServer == \A g, h \in Handlers : ProcessOf[g] = ProcessOf[h]

HandlingType ==
  /\ dispute \in {"none", "open", "resolved"}
  /\ thread \in {"none", "open", "resolved"}
  /\ stored \in Seq(Messages)
  /\ step \in [Handlers -> {"idle", "create", "store", "publish", "mark", "announce"}]
  /\ msg \in [Handlers -> Messages \cup {None}]
  /\ loop \in [Processes -> Handlers \cup {None}]

\* Whoever is in the middle of its calls holds the loop.
LoopHeld == \A h \in Handlers : step[h] # "idle" => loop[ProcessOf[h]] = h

\* What a handler has read or done is still so when it goes on.
ReadingsHold ==
  \A h \in Handlers :
    /\ step[h] = "create" => dispute = "open"
    /\ step[h] = "store" => dispute = "open" /\ msg[h] \in Messages /\ ~Stored(msg[h])
    /\ step[h] = "publish" => msg[h] \in Messages /\ Stored(msg[h])
    /\ step[h] = "mark" => dispute = "resolved"

\* The document is marked only after the ruling has committed.
MarkFollowsRow == thread = "resolved" => dispute = "resolved"

ThreadInv ==
  /\ HandlingType
  /\ LoopHeld
  /\ ReadingsHold
  /\ MarkFollowsRow
  /\ ConfirmedIsStored

\* Whoever stores or publishes has a message.
PostsHaveMessages ==
  \A h \in Handlers : step[h] \in {"store", "publish"} => msg[h] \in Messages

TypeInv == TypeOK /\ PostsHaveMessages

\* Those who are subscribed are the open connections of the process.
SubscribedAreOpen ==
  /\ \A s \in Streams : conn[s] = "open" => s \in subscribers[ProcessOf[s]]
  /\ \A p \in Processes : \A s \in subscribers[p] : ProcessOf[s] = p /\ conn[s] = "open"

\* Nothing is put into a queue before its connection is open.
StartEmpty ==
  \A s \in Streams : conn[s] \in {"new", "checked"} => queue[s] = <<>> /\ sent[s] = <<>>

\* A connection subscribed after events that have been published.
FromPublished ==
  \A s \in Streams : conn[s] = "open" => from[s] <= Len(published[ProcessOf[s]])

StreamInv ==
  /\ TypeInv
  /\ SubscribedAreOpen
  /\ StartEmpty
  /\ FromPublished
  /\ StreamsExact

Published(e) == \E p \in Processes : \E i \in 1..Len(published[p]) : published[p][i] = e

\* No message is stored twice.
StoredOnce == \A i, j \in 1..Len(stored) : stored[i] = stored[j] => i = j

\* Only what is stored is published, and the ruling only when it was made and
\* by its handler's last call.
PublishedIsTrue ==
  /\ \A e \in Messages : Published(e) => Stored(e)
  /\ Published(Resolved) =>
       dispute = "resolved" /\ \A h \in Handlers : step[h] \notin {"mark", "announce"}

\* A message is published before anything else is stored or ruled.
PublishesLast ==
  \A h \in Handlers : step[h] = "publish" =>
    /\ dispute = "open"
    /\ Len(stored) # 0 /\ stored[Len(stored)] = msg[h]
    /\ ~Published(msg[h])

AnnouncesRuling == \A h \in Handlers : step[h] = "announce" => dispute = "resolved"

OrderInv ==
  /\ ThreadInv
  /\ StoredOnce
  /\ PublishedIsTrue
  /\ PublishesLast
  /\ AnnouncesRuling
  /\ AnnouncedInOrder

-----------------------------------------------------------------------------

LEMMA OneAtATime ==
  ASSUME OneServer, HandlingType, LoopHeld,
         NEW g \in Handlers, NEW h \in Handlers, step[g] # "idle", step[h] # "idle"
  PROVE  g = h
BY DEF OneServer, LoopHeld

\* Nobody is at work when the loop is free.
LEMMA FreeMeansIdle ==
  ASSUME OneServer, HandlingType, LoopHeld, NEW h \in Handlers, Free(ProcessOf[h]),
         NEW g \in Handlers
  PROVE  step[g] = "idle"
BY ThreadAssumption DEF OneServer, LoopHeld, Free

\* What is stored stays so when a message is added.
LEMMA StoredAppend ==
  ASSUME stored \in Seq(Messages), NEW m \in Messages, stored' = Append(stored, m)
  PROVE  /\ stored' \in Seq(Messages)
         /\ Stored(m)'
         /\ \A n \in Messages : Stored(n) => Stored(n)'
<1>1. stored' \in Seq(Messages) /\ Len(stored') = Len(stored) + 1 /\ Len(stored) \in Nat
  OBVIOUS
<1>2. stored'[Len(stored) + 1] = m
  OBVIOUS
<1>3. \A i \in 1..Len(stored) : stored'[i] = stored[i]
  OBVIOUS
<1>4. Stored(m)'
  BY <1>1, <1>2 DEF Stored
<1>5. \A n \in Messages : Stored(n) => Stored(n)'
  BY <1>1, <1>3 DEF Stored
<1>6. QED
  BY <1>1, <1>4, <1>5

-----------------------------------------------------------------------------

LEMMA ThreadInvInit == Init => ThreadInv
<1> SUFFICES ASSUME Init PROVE ThreadInv
  OBVIOUS
<1>1. HandlingType
  BY DEF Init, HandlingType
<1>2. LoopHeld /\ ReadingsHold /\ MarkFollowsRow /\ ConfirmedIsStored
  BY DEF Init, LoopHeld, ReadingsHold, MarkFollowsRow, ConfirmedIsStored
<1>3. QED
  BY <1>1, <1>2 DEF ThreadInv

LEMMA ThreadInvStep ==
  ASSUME OneServer, ThreadInv, [Next]_vars
  PROVE  ThreadInv'
<1> USE DEF ThreadInv
<1>1. ASSUME NEW h \in Handlers, OpenDispute(h)
      PROVE  ThreadInv'
  <2>1. /\ step' = [step EXCEPT ![h] = "create"]
        /\ msg' = [msg EXCEPT ![h] = None]
        /\ loop' = [loop EXCEPT ![ProcessOf[h]] = h]
        /\ dispute = "none" /\ dispute' = "open"
        /\ UNCHANGED <<thread, stored, confirmed>>
    BY <1>1 DEF OpenDispute, Enter, firestore
  <2>2. \A g \in Handlers : step[g] = "idle"
    BY <1>1, FreeMeansIdle DEF OpenDispute, Enter
  <2>3. HandlingType'
    BY <2>1 DEF HandlingType
  <2>4. LoopHeld'
    BY <2>1, <2>2, ThreadAssumption DEF LoopHeld, HandlingType
  <2>5. ReadingsHold'
    BY <2>1, <2>2 DEF ReadingsHold, HandlingType
  <2>6. MarkFollowsRow' /\ ConfirmedIsStored'
    BY <2>1 DEF MarkFollowsRow, ConfirmedIsStored, Stored
  <2>7. QED
    BY <2>3, <2>4, <2>5, <2>6
<1>2. ASSUME NEW h \in Handlers, NEW m \in Messages, PostMessage(h, m)
      PROVE  ThreadInv'
  <2>1. /\ step' = [step EXCEPT ![h] = "store"]
        /\ msg' = [msg EXCEPT ![h] = m]
        /\ loop' = [loop EXCEPT ![ProcessOf[h]] = h]
        /\ dispute = "open" /\ ~Stored(m)
        /\ UNCHANGED <<dispute, thread, stored, confirmed>>
    BY <1>2 DEF PostMessage, Enter, row, firestore
  <2>2. \A g \in Handlers : step[g] = "idle"
    BY <1>2, FreeMeansIdle DEF PostMessage, Enter
  <2>3. HandlingType'
    BY <2>1 DEF HandlingType
  <2>4. LoopHeld'
    BY <2>1, <2>2, ThreadAssumption DEF LoopHeld, HandlingType
  <2>5. ReadingsHold'
    BY <2>1, <2>2 DEF ReadingsHold, HandlingType, Stored
  <2>6. MarkFollowsRow' /\ ConfirmedIsStored'
    BY <2>1 DEF MarkFollowsRow, ConfirmedIsStored, Stored
  <2>7. QED
    BY <2>3, <2>4, <2>5, <2>6
<1>3. ASSUME NEW h \in Handlers, ResolveDispute(h)
      PROVE  ThreadInv'
  <2>1. /\ step' = [step EXCEPT ![h] = "mark"]
        /\ msg' = [msg EXCEPT ![h] = None]
        /\ loop' = [loop EXCEPT ![ProcessOf[h]] = h]
        /\ dispute' = "resolved"
        /\ UNCHANGED <<thread, stored, confirmed>>
    BY <1>3 DEF ResolveDispute, Enter, firestore
  <2>2. \A g \in Handlers : step[g] = "idle"
    BY <1>3, FreeMeansIdle DEF ResolveDispute, Enter
  <2>3. HandlingType'
    BY <2>1 DEF HandlingType
  <2>4. LoopHeld'
    BY <2>1, <2>2, ThreadAssumption DEF LoopHeld, HandlingType
  <2>5. ReadingsHold'
    BY <2>1, <2>2 DEF ReadingsHold, HandlingType
  <2>6. MarkFollowsRow' /\ ConfirmedIsStored'
    BY <2>1 DEF MarkFollowsRow, ConfirmedIsStored, Stored
  <2>7. QED
    BY <2>3, <2>4, <2>5, <2>6
<1>4. ASSUME NEW h \in Handlers, step[h] # "idle", Answer(h),
             UNCHANGED <<dispute, stored>>, thread' \in {"none", "open", "resolved"},
             thread' = "resolved" => dispute = "resolved",
             \A m \in confirmed' : m \in confirmed \/ Stored(m)
      PROVE  ThreadInv'
  <2>1. /\ step' = [step EXCEPT ![h] = "idle"]
        /\ msg' = [msg EXCEPT ![h] = None]
        /\ loop' = [loop EXCEPT ![ProcessOf[h]] = None]
    BY <1>4 DEF Answer
  <2>2. \A g \in Handlers : step'[g] = "idle"
    BY <1>4, <2>1, OneAtATime DEF HandlingType
  <2>3. HandlingType'
    BY <1>4, <2>1 DEF HandlingType
  <2>4. LoopHeld' /\ ReadingsHold'
    BY <2>2 DEF LoopHeld, ReadingsHold
  <2>5. MarkFollowsRow' /\ ConfirmedIsStored'
    BY <1>4 DEF MarkFollowsRow, ConfirmedIsStored, Stored
  <2>6. QED
    BY <2>3, <2>4, <2>5
<1>5. ASSUME NEW h \in Handlers, CreateThread(h)
      PROVE  ThreadInv'
  <2>1. step[h] = "create" /\ dispute = "open" /\ thread # "resolved"
    BY <1>5 DEF CreateThread, ReadingsHold, MarkFollowsRow
  <2>2. thread' \in {"open", thread} /\ UNCHANGED <<dispute, stored, confirmed>> /\ Answer(h)
    BY <1>5 DEF CreateThread, row
  <2>3. QED
    BY <1>4, <2>1, <2>2 DEF HandlingType
<1>6. ASSUME NEW h \in Handlers, step[h] = "store", msg[h] \in Messages,
             stored' \in {stored, Append(stored, msg[h])},
             UNCHANGED <<dispute, thread, confirmed>>
      PROVE  /\ HandlingType => stored' \in Seq(Messages)
             /\ \A n \in Messages \cup confirmed : Stored(n) => Stored(n)'
  <2>1. CASE stored' = stored
    BY <2>1 DEF HandlingType, Stored
  <2>2. CASE stored' = Append(stored, msg[h])
    <3>1. /\ Len(stored') = Len(stored) + 1 /\ Len(stored) \in Nat
          /\ stored' \in Seq(Messages)
          /\ \A i \in 1..Len(stored) : stored'[i] = stored[i]
      BY <1>6, <2>2 DEF HandlingType
    <3>2. \A n : Stored(n) => Stored(n)'
      BY <3>1 DEF Stored
    <3>3. QED
      BY <3>1, <3>2
  <2>3. QED
    BY <1>6, <2>1, <2>2
<1>7. ASSUME NEW h \in Handlers, AddMessage(h)
      PROVE  ThreadInv'
  <2>1. step[h] = "store" /\ dispute = "open" /\ msg[h] \in Messages /\ ~Stored(msg[h])
    BY <1>7 DEF AddMessage, ReadingsHold
  <2>2. PICK o \in Outcomes :
          /\ stored' = IF o.done THEN Append(stored, msg[h]) ELSE stored
          /\ IF o.raises THEN Answer(h) ELSE Go(h, "publish")
    BY <1>7 DEF AddMessage
  <2>3. UNCHANGED <<dispute, thread, confirmed>>
    BY <1>7 DEF AddMessage, row
  <2>4. stored' \in {stored, Append(stored, msg[h])}
    BY <2>2
  <2>5. /\ stored' \in Seq(Messages)
        /\ \A n \in Messages \cup confirmed : Stored(n) => Stored(n)'
    BY <1>6, <2>1, <2>3, <2>4
  <2>6. MarkFollowsRow' /\ ConfirmedIsStored'
    BY <2>3, <2>5 DEF MarkFollowsRow, ConfirmedIsStored
  <2>7. \A g \in Handlers : step[g] # "idle" => g = h
    BY <2>1, OneAtATime
  <2>8. CASE o.raises
    <3>1. /\ step' = [step EXCEPT ![h] = "idle"]
          /\ msg' = [msg EXCEPT ![h] = None]
          /\ loop' = [loop EXCEPT ![ProcessOf[h]] = None]
      BY <2>2, <2>8 DEF Answer
    <3>2. \A g \in Handlers : step'[g] = "idle"
      BY <2>7, <3>1 DEF HandlingType
    <3>3. HandlingType'
      BY <2>3, <2>5, <3>1 DEF HandlingType
    <3>4. LoopHeld' /\ ReadingsHold'
      BY <3>2 DEF LoopHeld, ReadingsHold
    <3>5. QED
      BY <2>6, <3>3, <3>4
  <2>9. CASE ~o.raises
    <3>1. step' = [step EXCEPT ![h] = "publish"] /\ UNCHANGED <<msg, loop>>
      BY <2>2, <2>9 DEF Go
    <3>2. o.done
      BY <2>9 DEF Outcomes
    <3>3. Stored(msg[h])'
      BY <2>1, <2>2, <3>1, <3>2, StoredAppend DEF HandlingType, Stored
    <3>4. HandlingType'
      BY <2>3, <2>5, <3>1 DEF HandlingType
    <3>5. LoopHeld'
      BY <2>1, <3>1 DEF LoopHeld, HandlingType
    <3>6. ReadingsHold'
      BY <2>1, <2>7, <3>1, <3>3 DEF ReadingsHold, HandlingType, Stored
    <3>7. QED
      BY <2>6, <3>4, <3>5, <3>6
  <2>10. QED
    BY <2>8, <2>9
<1>8. ASSUME NEW h \in Handlers, PublishMessage(h)
      PROVE  ThreadInv'
  <2>1. step[h] = "publish" /\ Stored(msg[h])
    BY <1>8 DEF PublishMessage, ReadingsHold
  <2>2. confirmed' = confirmed \cup {msg[h]} /\ UNCHANGED <<dispute, thread, stored>> /\ Answer(h)
    BY <1>8 DEF PublishMessage, row, firestore
  <2>3. QED
    BY <1>4, <2>1, <2>2 DEF HandlingType, MarkFollowsRow
<1>9. ASSUME NEW h \in Handlers, MarkThread(h)
      PROVE  ThreadInv'
  <2>1. step[h] = "mark" /\ dispute = "resolved"
    BY <1>9 DEF MarkThread, ReadingsHold
  <2>2. /\ thread' \in {"resolved", thread}
        /\ UNCHANGED <<dispute, stored, confirmed, msg, loop>>
        /\ step' = [step EXCEPT ![h] = "announce"]
    BY <1>9 DEF MarkThread, Go, row
  <2>3. HandlingType'
    BY <2>2 DEF HandlingType
  <2>4. LoopHeld' /\ ReadingsHold'
    BY <2>1, <2>2 DEF LoopHeld, ReadingsHold, HandlingType, Stored
  <2>5. MarkFollowsRow' /\ ConfirmedIsStored'
    BY <2>1, <2>2 DEF MarkFollowsRow, ConfirmedIsStored, Stored
  <2>6. QED
    BY <2>3, <2>4, <2>5
<1>10. ASSUME NEW h \in Handlers, AnnounceResolution(h)
       PROVE  ThreadInv'
  <2>1. step[h] = "announce" /\ UNCHANGED <<dispute, thread, stored, confirmed>> /\ Answer(h)
    BY <1>10 DEF AnnounceResolution, row, firestore
  <2>2. QED
    BY <1>4, <2>1 DEF HandlingType, MarkFollowsRow
<1>11. ASSUME UNCHANGED <<row, firestore, confirmed, handling>>
       PROVE  ThreadInv'
  BY <1>11 DEF row, firestore, handling, HandlingType, LoopHeld, ReadingsHold, MarkFollowsRow,
    ConfirmedIsStored, Stored
<1>12. ASSUME NEW p \in Processes, Crash(p)
       PROVE  ThreadInv'
  <2> DEFINE here == {x \in Handlers \cup Streams : ProcessOf[x] = p}
  <2>1. /\ step' = [h \in Handlers |-> IF h \in here THEN "idle" ELSE step[h]]
        /\ msg' = [h \in Handlers |-> IF h \in here THEN None ELSE msg[h]]
        /\ loop' = [loop EXCEPT ![p] = None]
        /\ UNCHANGED <<dispute, thread, stored, confirmed>>
    BY <1>12 DEF Crash, row, firestore
  <2>2. \A h \in Handlers : step'[h] # "idle" =>
          ProcessOf[h] # p /\ step'[h] = step[h] /\ msg'[h] = msg[h]
    BY <2>1
  <2>3. HandlingType'
    BY <2>1 DEF HandlingType
  <2>4. LoopHeld'
    BY <2>1, <2>2, ThreadAssumption DEF LoopHeld, HandlingType
  <2>5. ReadingsHold'
    BY <2>1, <2>2 DEF ReadingsHold, Stored
  <2>6. MarkFollowsRow' /\ ConfirmedIsStored'
    BY <2>1 DEF MarkFollowsRow, ConfirmedIsStored, Stored
  <2>7. QED
    BY <2>3, <2>4, <2>5, <2>6
<1>13. CASE UNCHANGED vars
  BY <1>11, <1>13 DEF vars
<1>14. ASSUME NEW s \in Streams, CheckViewer(s) \/ Subscribe(s) \/ Deliver(s) \/ Disconnect(s)
       PROVE  ThreadInv'
  BY <1>11, <1>14 DEF CheckViewer, Subscribe, Deliver, Disconnect
<1>15. QED
  BY <1>1, <1>2, <1>3, <1>5, <1>7, <1>8, <1>9, <1>10, <1>12, <1>13, <1>14 DEF Next, Work

-----------------------------------------------------------------------------

\* With one server process, the invariant holds in every reachable state.
THEOREM ThreadInvariant ==
  ASSUME OneServer
  PROVE  Spec => []ThreadInv
<1>1. ThreadInv /\ [Next]_vars => ThreadInv'
  BY ThreadInvStep
<1>2. QED
  BY <1>1, ThreadInvInit, PTL DEF Spec

\* What was answered with 201 is in Firestore, whichever calls fail, whoever
\* crashes.
THEOREM ConfirmedMessagesStored ==
  ASSUME OneServer
  PROVE  Spec => []ConfirmedIsStored
<1>1. ThreadInv => ConfirmedIsStored
  BY DEF ThreadInv
<1>2. QED
  BY <1>1, ThreadInvariant, PTL

\* A resolved document is never opened again: whoever is about to create it
\* holds the loop, so the dispute is open and nobody has marked it.
THEOREM ThreadStaysClosed ==
  ASSUME OneServer
  PROVE  Spec => ThreadClosedForGood
<1>1. ThreadInv /\ [Next]_vars => [thread = "resolved" => thread' = "resolved"]_vars
  <2> SUFFICES ASSUME ThreadInv, [Next]_vars, thread = "resolved"
               PROVE  thread' = "resolved"
    OBVIOUS
  <2> USE DEF ThreadInv
  <2>1. ASSUME NEW h \in Handlers, CreateThread(h)
        PROVE  FALSE
    BY <2>1 DEF CreateThread, ReadingsHold, MarkFollowsRow
  <2>2. ASSUME NEW h \in Handlers, AddMessage(h) \/ PublishMessage(h) \/ AnnounceResolution(h)
                 \/ OpenDispute(h) \/ ResolveDispute(h)
        PROVE  thread' = thread
    BY <2>2 DEF AddMessage, PublishMessage, AnnounceResolution, OpenDispute, ResolveDispute, firestore
  <2>3. ASSUME NEW h \in Handlers, MarkThread(h)
        PROVE  thread' \in {"resolved", thread}
    BY <2>3 DEF MarkThread
  <2>4. ASSUME NEW h \in Handlers, NEW m \in Messages, PostMessage(h, m)
        PROVE  thread' = thread
    BY <2>4 DEF PostMessage, firestore
  <2>5. ASSUME NEW s \in Streams, CheckViewer(s) \/ Subscribe(s) \/ Deliver(s) \/ Disconnect(s)
        PROVE  thread' = thread
    BY <2>5 DEF CheckViewer, Subscribe, Deliver, Disconnect, firestore
  <2>6. ASSUME NEW p \in Processes, Crash(p)
        PROVE  thread' = thread
    BY <2>6 DEF Crash, firestore
  <2>7. CASE UNCHANGED vars
    BY <2>7 DEF vars, firestore
  <2>8. QED
    BY <2>1, <2>2, <2>3, <2>4, <2>5, <2>6, <2>7 DEF Next, Work
<1>2. QED
  BY <1>1, ThreadInvariant, PTL DEF Spec, ThreadClosedForGood

\* Every step is a step of the thread or leaves it as it is.
LEMMA ThreadStep ==
  ASSUME OneServer, ThreadInv, [Next]_vars
  PROVE  [T!Next]_<<dispute, stored>>
<1> USE DEF ThreadInv
<1>1. ASSUME NEW h \in Handlers, OpenDispute(h)
      PROVE  T!Open
  BY <1>1 DEF OpenDispute, firestore, T!Open
<1>2. ASSUME NEW h \in Handlers, ResolveDispute(h)
      PROVE  T!Resolve
  BY <1>2 DEF ResolveDispute, firestore, T!Resolve
<1>3. ASSUME NEW h \in Handlers, AddMessage(h)
      PROVE  (stored' = stored /\ dispute' = dispute) \/ \E m \in Messages : T!Post(m)
  <2>1. dispute = "open" /\ msg[h] \in Messages /\ ~Stored(msg[h])
    BY <1>3 DEF AddMessage, ReadingsHold
  <2>2. stored' \in {stored, Append(stored, msg[h])} /\ dispute' = dispute
    BY <1>3 DEF AddMessage, row
  <2>3. CASE stored' = Append(stored, msg[h])
    BY <2>1, <2>2, <2>3 DEF T!Post, Stored
  <2>4. QED
    BY <2>2, <2>3
<1>4. ASSUME NEW h \in Handlers,
             CreateThread(h) \/ PublishMessage(h) \/ MarkThread(h) \/ AnnounceResolution(h)
      PROVE  UNCHANGED <<dispute, stored>>
  BY <1>4 DEF CreateThread, PublishMessage, MarkThread, AnnounceResolution, row, firestore
<1>5. ASSUME NEW h \in Handlers, NEW m \in Messages, PostMessage(h, m)
      PROVE  UNCHANGED <<dispute, stored>>
  BY <1>5 DEF PostMessage, row, firestore
<1>6. ASSUME NEW s \in Streams, CheckViewer(s) \/ Subscribe(s) \/ Deliver(s) \/ Disconnect(s)
      PROVE  UNCHANGED <<dispute, stored>>
  BY <1>6 DEF CheckViewer, Subscribe, Deliver, Disconnect, row, firestore
<1>7. ASSUME NEW p \in Processes, Crash(p)
      PROVE  UNCHANGED <<dispute, stored>>
  BY <1>7 DEF Crash, row, firestore
<1>8. CASE UNCHANGED vars
  BY <1>8 DEF vars, row, firestore
<1>9. QED
  BY <1>1, <1>2, <1>3, <1>4, <1>5, <1>6, <1>7, <1>8 DEF Next, Work, T!Next

\* The three stores behave as one thread: no message is stored after the
\* resolution, or twice, whatever is lost and whoever crashes.
THEOREM ThreadRefinement ==
  ASSUME OneServer
  PROVE  Spec => KeepsThread
<1>1. Init => T!Init
  BY DEF Init, T!Init
<1>2. ThreadInv /\ [Next]_vars => [T!Next]_<<dispute, stored>>
  BY ThreadStep
<1>3. QED
  BY <1>1, <1>2, ThreadInvariant, PTL DEF Spec, KeepsThread, T!Spec, T!tvars

-----------------------------------------------------------------------------
(***************************************************************************)
(* Sequences of which one grows at its end as another does.                *)
(***************************************************************************)

LEMMA ConcatAppend ==
  ASSUME NEW S, NEW a \in Seq(S), NEW b \in Seq(S), NEW e \in S
  PROVE  a \o Append(b, e) = Append(a \o b, e)
<1>1. Append(b, e) = b \o <<e>> /\ <<e>> \in Seq(S)
  BY AppendIsConcat
<1>2. (a \o b) \o <<e>> = a \o (b \o <<e>>)
  BY <1>1, ConcatAssociative
<1>3. a \o b \in Seq(S)
  BY ConcatProperties
<1>4. Append(a \o b, e) = (a \o b) \o <<e>>
  BY <1>3, AppendIsConcat
<1>5. QED
  BY <1>1, <1>2, <1>4

LEMMA SubSeqAppend ==
  ASSUME NEW S, NEW s \in Seq(S), NEW e \in S, NEW k \in 0..Len(s)
  PROVE  SubSeq(Append(s, e), k + 1, Len(s) + 1) = Append(SubSeq(s, k + 1, Len(s)), e)
<1>1. Len(s) \in Nat /\ k \in Nat /\ k <= Len(s)
  BY LenProperties
<1> DEFINE t == Append(s, e)
<1>2. t \in Seq(S) /\ Len(t) = Len(s) + 1 /\ \A i \in 1..Len(s) : t[i] = s[i]
  BY AppendProperties
<1>3. t[Len(s) + 1] = e
  BY AppendProperties
<1>4. SubSeq(t, k + 1, Len(t)) = SubSeq(t, k + 1, Len(t) - 1) \o <<t[Len(t)]>>
  <2>1. k + 1 \in 1..Len(t) /\ Len(t) \in (k + 1)..Len(t)
    BY <1>1, <1>2
  <2> HIDE DEF t
  <2>2. QED
    BY <2>1, <1>2, SubSeqRecursiveSecond
<1>5. SubSeq(t, k + 1, Len(s)) = SubSeq(s, k + 1, Len(s))
  <2> DEFINE u == SubSeq(t, k + 1, Len(s))
             v == SubSeq(s, k + 1, Len(s))
             n == Len(s) - k
  <2>1. \A i \in (k + 1)..Len(s) : t[i] = s[i] /\ t[i] \in S /\ s[i] \in S
    BY <1>1, <1>2, ElementOfSeq
  <2> HIDE DEF t
  <2>2. /\ u \in Seq(S) /\ Len(u) = IF k + 1 <= Len(s) THEN Len(s) - (k + 1) + 1 ELSE 0
        /\ \A i \in 1..(Len(s) - (k + 1) + 1) : u[i] = t[k + 1 + i - 1]
    BY <1>1, <2>1, SubSeqProperties
  <2>3. /\ v \in Seq(S) /\ Len(v) = IF k + 1 <= Len(s) THEN Len(s) - (k + 1) + 1 ELSE 0
        /\ \A i \in 1..(Len(s) - (k + 1) + 1) : v[i] = s[k + 1 + i - 1]
    BY <1>1, <2>1, SubSeqProperties
  <2> HIDE DEF u, v
  <2>4. Len(u) = n /\ Len(v) = n
    BY <1>1, <2>2, <2>3
  <2>5. ASSUME NEW i \in 1..n PROVE u[i] = v[i]
    <3>1. i \in 1..(Len(s) - (k + 1) + 1) /\ k + 1 + i - 1 \in (k + 1)..Len(s)
      BY <1>1, <2>5
    <3>2. QED
      BY <3>1, <2>1, <2>2, <2>3
  <2>6. u = v
    BY <2>2, <2>3, <2>4, <2>5, SeqEqual
  <2>7. QED
    BY <2>6 DEF u, v
<1>6. SubSeq(s, k + 1, Len(s)) \in Seq(S)
  <2>1. \A i \in (k + 1)..Len(s) : s[i] \in S
    BY <1>1, ElementOfSeq
  <2>2. QED
    BY <1>1, <2>1, SubSeqProperties
<1>7. Append(SubSeq(s, k + 1, Len(s)), e) = SubSeq(s, k + 1, Len(s)) \o <<e>>
  BY <1>6, AppendIsConcat
<1>8. Len(t) - 1 = Len(s)
  BY <1>1, <1>2
<1>9. QED
  BY <1>2, <1>3, <1>4, <1>5, <1>7, <1>8

LEMMA ConcatHeadTail ==
  ASSUME NEW S, NEW a \in Seq(S), NEW b \in Seq(S), b # <<>>
  PROVE  Append(a, Head(b)) \o Tail(b) = a \o b
<1>1. Head(b) \in S /\ Tail(b) \in Seq(S) /\ <<Head(b)>> \in Seq(S)
  BY HeadTailProperties
<1>2. Append(a, Head(b)) = a \o <<Head(b)>>
  BY <1>1, AppendIsConcat
<1>3. (a \o <<Head(b)>>) \o Tail(b) = a \o (<<Head(b)>> \o Tail(b))
  BY <1>1, ConcatAssociative
<1>4. <<Head(b)>> \o Tail(b) = b
  <2>1. Len(b) \in Nat \ {0}
    BY EmptySeq
  <2>2. 1 \in 1..Len(b) /\ Len(b) \in 1..Len(b)
    BY <2>1
  <2>3. SubSeq(b, 1, Len(b)) = <<b[1]>> \o SubSeq(b, 1 + 1, Len(b))
    BY <2>2, SubSeqRecursiveFirst
  <2>4. SubSeq(b, 1, Len(b)) = b /\ Tail(b) = SubSeq(b, 2, Len(b)) /\ Head(b) = b[1]
    BY SubSeqFull, TailIsSubSeq
  <2>5. QED
    BY <2>3, <2>4
<1>5. QED
  BY <1>2, <1>3, <1>4

-----------------------------------------------------------------------------
(***************************************************************************)
(* Types and streams.  These hold however many server processes there are. *)
(***************************************************************************)

LEMMA TypeInvInit == Init => TypeInv
<1> SUFFICES ASSUME Init PROVE TypeInv
  OBVIOUS
<1>1. <<>> \in Seq(Messages) /\ <<>> \in Seq(Events)
  OBVIOUS
<1>2. TypeOK
  BY <1>1, ThreadAssumption DEF Init, TypeOK
<1>3. PostsHaveMessages
  BY DEF Init, PostsHaveMessages
<1>4. QED
  BY <1>2, <1>3 DEF TypeInv

\* What publishing leaves of the types.
LEMMA PublishType ==
  ASSUME TypeOK, NEW p \in Processes, NEW e \in Events, Publish(p, e)
  PROVE  /\ published' \in [Processes -> Seq(Events)]
         /\ queue' \in [Streams -> Seq(Events)]
         /\ UNCHANGED <<subscribers, conn, watched, from, sent>>
<1>1. /\ published' = [published EXCEPT ![p] = Append(@, e)]
      /\ queue' = [s \in Streams |->
           IF s \in subscribers[p] THEN Append(queue[s], e) ELSE queue[s]]
      /\ UNCHANGED <<subscribers, conn, watched, from, sent>>
  BY DEF Publish
<1>2. published \in [Processes -> Seq(Events)] /\ queue \in [Streams -> Seq(Events)]
  BY DEF TypeOK
<1>3. Append(published[p], e) \in Seq(Events)
  BY <1>2, AppendProperties
<1>4. \A s \in Streams : Append(queue[s], e) \in Seq(Events)
  BY <1>2, AppendProperties
<1>5. QED
  BY <1>1, <1>2, <1>3, <1>4

\* What the handlers leave of the types.
LEMMA HandlersType ==
  ASSUME TypeInv, NEW h \in Handlers,
         \/ OpenDispute(h) \/ ResolveDispute(h) \/ Work(h)
         \/ \E m \in Messages : PostMessage(h, m)
  PROVE  TypeInv'
<1> USE DEF TypeInv
<1>0. ProcessOf[h] \in Processes
  BY ThreadAssumption
<1>1. ASSUME NEW s \in {"create", "store", "mark"}, NEW m \in Messages \cup {None},
             Enter(h, s, m), s = "store" => m \in Messages,
             dispute' \in {"none", "open", "resolved"},
             UNCHANGED <<firestore, confirmed, streaming, crashes>>
      PROVE  TypeInv'
  <2>1. /\ step' = [step EXCEPT ![h] = s]
        /\ msg' = [msg EXCEPT ![h] = m]
        /\ loop' = [loop EXCEPT ![ProcessOf[h]] = h]
    BY <1>1 DEF Enter
  <2>2. TypeOK'
    BY <1>1, <2>1 DEF TypeOK, firestore, streaming
  <2>3. PostsHaveMessages'
    BY <1>1, <2>1 DEF PostsHaveMessages, TypeOK
  <2>4. QED
    BY <2>2, <2>3
<1>2. ASSUME Answer(h),
             dispute' \in {"none", "open", "resolved"}, thread' \in {"none", "open", "resolved"},
             stored' \in Seq(Messages), confirmed' \subseteq Messages,
             published' \in [Processes -> Seq(Events)], queue' \in [Streams -> Seq(Events)],
             UNCHANGED <<subscribers, conn, watched, from, sent, crashes>>
      PROVE  TypeInv'
  <2>1. /\ step' = [step EXCEPT ![h] = "idle"]
        /\ msg' = [msg EXCEPT ![h] = None]
        /\ loop' = [loop EXCEPT ![ProcessOf[h]] = None]
    BY <1>2 DEF Answer
  <2>2. TypeOK'
    BY <1>2, <2>1 DEF TypeOK
  <2>3. PostsHaveMessages'
    BY <2>1 DEF PostsHaveMessages, TypeOK
  <2>4. QED
    BY <2>2, <2>3
<1>3. ASSUME NEW s \in {"publish", "announce"}, Go(h, s),
             s = "publish" => step[h] = "store",
             dispute' = dispute, thread' \in {"none", "open", "resolved"},
             stored' \in Seq(Messages),
             UNCHANGED <<confirmed, streaming, crashes>>
      PROVE  TypeInv'
  <2>1. step' = [step EXCEPT ![h] = s] /\ UNCHANGED <<msg, loop>>
    BY <1>3 DEF Go
  <2>2. TypeOK'
    BY <1>3, <2>1 DEF TypeOK, streaming
  <2>3. PostsHaveMessages'
    BY <1>3, <2>1 DEF PostsHaveMessages, TypeOK
  <2>4. QED
    BY <2>2, <2>3
<1>4. CASE OpenDispute(h)
  BY <1>1, <1>4 DEF OpenDispute
<1>5. CASE \E m \in Messages : PostMessage(h, m)
  <2>1. PICK m \in Messages : PostMessage(h, m)
    BY <1>5
  <2>2. Enter(h, "store", m) /\ UNCHANGED <<row, firestore, confirmed, streaming, crashes>>
    BY <2>1 DEF PostMessage
  <2>3. dispute' \in {"none", "open", "resolved"}
    BY <2>2 DEF row, TypeOK
  <2>4. QED
    BY <1>1, <2>2, <2>3
<1>6. CASE ResolveDispute(h)
  BY <1>1, <1>6 DEF ResolveDispute
<1>7. CASE CreateThread(h)
  BY <1>2, <1>7 DEF CreateThread, row, streaming, TypeOK
<1>8. CASE AddMessage(h)
  <2>1. PICK o \in Outcomes :
          /\ stored' = IF o.done THEN Append(stored, msg[h]) ELSE stored
          /\ IF o.raises THEN Answer(h) ELSE Go(h, "publish")
    BY <1>8 DEF AddMessage
  <2>2. step[h] = "store" /\ UNCHANGED <<row, thread, confirmed, streaming, crashes>>
    BY <1>8 DEF AddMessage
  <2>3. msg[h] \in Messages /\ stored \in Seq(Messages)
    BY <2>2 DEF PostsHaveMessages, TypeOK
  <2>4. stored' \in Seq(Messages)
    BY <2>1, <2>3, AppendProperties
  <2>5. CASE o.raises
    BY <1>2, <2>1, <2>2, <2>4, <2>5 DEF row, streaming, TypeOK
  <2>6. CASE ~o.raises
    BY <1>3, <2>1, <2>2, <2>4, <2>6 DEF row, TypeOK
  <2>7. QED
    BY <2>5, <2>6
<1>9. CASE PublishMessage(h)
  <2>1. /\ step[h] = "publish" /\ Publish(ProcessOf[h], msg[h]) /\ Answer(h)
        /\ confirmed' = confirmed \cup {msg[h]}
        /\ UNCHANGED <<row, firestore, crashes>>
    BY <1>9 DEF PublishMessage
  <2>2. msg[h] \in Messages /\ msg[h] \in Events
    BY <2>1 DEF PostsHaveMessages, Events
  <2>3. QED
    BY <1>0, <1>2, <2>1, <2>2, PublishType DEF row, firestore, TypeOK
<1>10. CASE MarkThread(h)
  BY <1>3, <1>10 DEF MarkThread, row, TypeOK
<1>11. CASE AnnounceResolution(h)
  <2>1. /\ Publish(ProcessOf[h], Resolved) /\ Answer(h)
        /\ UNCHANGED <<row, firestore, confirmed, crashes>>
    BY <1>11 DEF AnnounceResolution
  <2>2. Resolved \in Events
    BY DEF Events
  <2>3. QED
    BY <1>0, <1>2, <2>1, <2>2, PublishType DEF row, firestore, TypeOK
<1>12. QED
  BY <1>4, <1>5, <1>6, <1>7, <1>8, <1>9, <1>10, <1>11 DEF Work

\* What the streams and the crashes leave of the types.
LEMMA StreamsType ==
  ASSUME TypeInv, NEW s \in Streams,
         CheckViewer(s) \/ Subscribe(s) \/ Deliver(s) \/ Disconnect(s)
  PROVE  TypeInv'
<1> USE DEF TypeInv
<1>0. ProcessOf[s] \in Processes
  BY ThreadAssumption
<1>1. UNCHANGED <<row, firestore, confirmed, handling, crashes, published>>
  BY DEF CheckViewer, Subscribe, Deliver, Disconnect
<1>2. PostsHaveMessages'
  BY <1>1 DEF PostsHaveMessages, handling
<1>3. ASSUME subscribers' \in [Processes -> SUBSET Streams],
             conn' \in [Streams -> {"new", "checked", "open", "gone"}],
             watched' \in [Streams -> {"none", "open", "resolved"}],
             from' \in [Streams -> Nat],
             queue' \in [Streams -> Seq(Events)],
             sent' \in [Streams -> Seq(Events)]
      PROVE  TypeInv'
  BY <1>1, <1>2, <1>3 DEF TypeOK, row, firestore, handling
<1>4. CASE CheckViewer(s)
  BY <1>3, <1>4 DEF CheckViewer, TypeOK
<1>5. CASE Subscribe(s)
  <2>1. /\ conn' = [conn EXCEPT ![s] = "open"]
        /\ subscribers' = [subscribers EXCEPT ![ProcessOf[s]] = @ \cup {s}]
        /\ watched' = [watched EXCEPT ![s] = dispute]
        /\ from' = [from EXCEPT ![s] = Len(published[ProcessOf[s]])]
        /\ UNCHANGED <<queue, sent>>
    BY <1>5 DEF Subscribe
  <2>2. Len(published[ProcessOf[s]]) \in Nat
    BY <1>0, LenProperties DEF TypeOK
  <2>3. QED
    BY <1>0, <1>3, <2>1, <2>2 DEF TypeOK
<1>6. CASE Deliver(s)
  <2>1. /\ queue[s] # <<>>
        /\ sent' = [sent EXCEPT ![s] = Append(@, Head(queue[s]))]
        /\ queue' = [queue EXCEPT ![s] = Tail(@)]
        /\ UNCHANGED <<subscribers, conn, watched, from>>
    BY <1>6 DEF Deliver
  <2>2. queue[s] \in Seq(Events) /\ sent[s] \in Seq(Events)
    BY DEF TypeOK
  <2>3. Head(queue[s]) \in Events /\ Tail(queue[s]) \in Seq(Events)
    BY <2>1, <2>2, HeadTailProperties
  <2>4. Append(sent[s], Head(queue[s])) \in Seq(Events)
    BY <2>2, <2>3, AppendProperties
  <2>5. QED
    BY <1>3, <2>1, <2>3, <2>4 DEF TypeOK
<1>7. CASE Disconnect(s)
  BY <1>0, <1>3, <1>7 DEF Disconnect, Leaving, TypeOK
<1>8. QED
  BY <1>4, <1>5, <1>6, <1>7

LEMMA CrashType ==
  ASSUME TypeInv, NEW p \in Processes, Crash(p)
  PROVE  TypeInv'
<1> DEFINE here == {x \in Handlers \cup Streams : ProcessOf[x] = p}
<1>1. /\ crashes < MaxCrashes /\ crashes' = crashes + 1
      /\ step' = [h \in Handlers |-> IF h \in here THEN "idle" ELSE step[h]]
      /\ msg' = [h \in Handlers |-> IF h \in here THEN None ELSE msg[h]]
      /\ loop' = [loop EXCEPT ![p] = None]
      /\ published' = [published EXCEPT ![p] = <<>>]
      /\ subscribers' = [subscribers EXCEPT ![p] = {}]
      /\ conn' = [s \in Streams |-> IF s \in here /\ conn[s] # "new" THEN "gone" ELSE conn[s]]
      /\ UNCHANGED <<row, firestore, confirmed, watched, from, queue, sent>>
  BY DEF Crash
<1> HIDE DEF here
<1>2. <<>> \in Seq(Events)
  OBVIOUS
<1>3. crashes' \in 0..MaxCrashes
  BY <1>1, ThreadAssumption DEF TypeInv, TypeOK
<1>4. /\ step' \in [Handlers -> {"idle", "create", "store", "publish", "mark", "announce"}]
      /\ msg' \in [Handlers -> Messages \cup {None}]
      /\ loop' \in [Processes -> Handlers \cup {None}]
  BY <1>1 DEF TypeInv, TypeOK
<1>5. /\ published' \in [Processes -> Seq(Events)]
      /\ subscribers' \in [Processes -> SUBSET Streams]
      /\ conn' \in [Streams -> {"new", "checked", "open", "gone"}]
  BY <1>1, <1>2 DEF TypeInv, TypeOK
<1>6. TypeOK'
  BY <1>1, <1>3, <1>4, <1>5 DEF TypeInv, TypeOK, row, firestore
<1>7. PostsHaveMessages'
  BY <1>1 DEF TypeInv, PostsHaveMessages
<1>8. QED
  BY <1>6, <1>7 DEF TypeInv

LEMMA TypeInvStep == TypeInv /\ [Next]_vars => TypeInv'
<1> SUFFICES ASSUME TypeInv, [Next]_vars PROVE TypeInv'
  OBVIOUS
<1>1. CASE UNCHANGED vars
  BY <1>1 DEF vars, row, firestore, handling, streaming, TypeInv, TypeOK, PostsHaveMessages
<1>2. CASE Next
  BY <1>2, HandlersType, StreamsType, CrashType DEF Next
<1>3. QED
  BY <1>1, <1>2

\* Every variable keeps its type, with any number of processes.
THEOREM ThreadTypeCorrect == Spec => []TypeOK
<1>1. TypeInv => TypeOK
  BY DEF TypeInv
<1>2. QED
  BY <1>1, TypeInvInit, TypeInvStep, PTL DEF Spec

LEMMA StreamInvInit == Init => StreamInv
<1> SUFFICES ASSUME Init PROVE StreamInv
  OBVIOUS
<1>1. TypeInv
  BY TypeInvInit
<1>2. SubscribedAreOpen /\ StartEmpty /\ FromPublished /\ StreamsExact
  BY DEF Init, SubscribedAreOpen, StartEmpty, FromPublished, StreamsExact
<1>3. QED
  BY <1>1, <1>2 DEF StreamInv

\* Publishing reaches exactly the open connections of the process.
LEMMA PublishStreams ==
  ASSUME StreamInv, NEW p \in Processes, NEW e \in Events, Publish(p, e)
  PROVE  SubscribedAreOpen' /\ StartEmpty' /\ FromPublished' /\ StreamsExact'
<1> USE DEF StreamInv
<1>1. /\ published' = [published EXCEPT ![p] = Append(@, e)]
      /\ queue' = [s \in Streams |->
           IF s \in subscribers[p] THEN Append(queue[s], e) ELSE queue[s]]
      /\ UNCHANGED <<subscribers, conn, watched, from, sent>>
  BY DEF Publish
<1>2. /\ published \in [Processes -> Seq(Events)]
      /\ queue \in [Streams -> Seq(Events)] /\ sent \in [Streams -> Seq(Events)]
      /\ from \in [Streams -> Nat]
  BY DEF TypeInv, TypeOK
<1>3. SubscribedAreOpen'
  BY <1>1 DEF SubscribedAreOpen
<1>4. StartEmpty'
  <2> SUFFICES ASSUME NEW s \in Streams, conn[s] \in {"new", "checked"}
               PROVE  queue'[s] = <<>> /\ sent'[s] = <<>>
    BY <1>1 DEF StartEmpty
  <2>1. s \notin subscribers[p]
    BY DEF SubscribedAreOpen
  <2>2. QED
    BY <1>1, <2>1 DEF StartEmpty
<1>5. \A q \in Processes : q # p => published'[q] = published[q]
  BY <1>1, <1>2
<1>6. published'[p] = Append(published[p], e) /\ published[p] \in Seq(Events)
  BY <1>1, <1>2
<1>7. Len(published'[p]) = Len(published[p]) + 1 /\ Len(published[p]) \in Nat
  BY <1>6, AppendProperties, LenProperties
<1>8. FromPublished'
  BY <1>1, <1>2, <1>5, <1>7, ThreadAssumption DEF FromPublished
<1>9. StreamsExact'
  <2> SUFFICES ASSUME NEW s \in Streams, conn[s] = "open"
               PROVE  sent'[s] \o queue'[s]
                        = SubSeq(published'[ProcessOf[s]], from'[s] + 1,
                                 Len(published'[ProcessOf[s]]))
    BY <1>1 DEF StreamsExact
  <2>1. sent[s] \o queue[s]
          = SubSeq(published[ProcessOf[s]], from[s] + 1, Len(published[ProcessOf[s]]))
    BY DEF StreamsExact
  <2>2. ProcessOf[s] \in Processes /\ sent'[s] = sent[s] /\ from'[s] = from[s]
    BY <1>1, ThreadAssumption
  <2>3. CASE ProcessOf[s] # p
    <3>1. s \notin subscribers[p]
      BY <2>3 DEF SubscribedAreOpen
    <3>2. queue'[s] = queue[s]
      BY <1>1, <3>1
    <3>3. QED
      BY <1>5, <2>1, <2>2, <2>3, <3>2
  <2>4. CASE ProcessOf[s] = p
    <3>1. s \in subscribers[p]
      BY <2>4 DEF SubscribedAreOpen
    <3>2. queue'[s] = Append(queue[s], e)
      BY <1>1, <3>1
    <3>3. sent[s] \o Append(queue[s], e) = Append(sent[s] \o queue[s], e)
      BY <1>2, ConcatAppend
    <3>4. from[s] \in 0..Len(published[p])
      BY <1>2, <1>7, <2>4 DEF FromPublished
    <3>5. SubSeq(Append(published[p], e), from[s] + 1, Len(published[p]) + 1)
            = Append(SubSeq(published[p], from[s] + 1, Len(published[p])), e)
      BY <1>6, <3>4, SubSeqAppend
    <3>6. QED
      BY <1>6, <1>7, <2>1, <2>2, <2>4, <3>2, <3>3, <3>5
  <2>5. QED
    BY <2>3, <2>4
<1>10. QED
  BY <1>3, <1>4, <1>8, <1>9

\* Each step of a connection, and each crash.
LEMMA SubscribeStreams ==
  ASSUME StreamInv, NEW s \in Streams, Subscribe(s)
  PROVE  SubscribedAreOpen' /\ StartEmpty' /\ FromPublished' /\ StreamsExact'
<1> USE DEF StreamInv
<1>0. PICK p \in Processes : p = ProcessOf[s]
  BY ThreadAssumption
<1>1. /\ conn[s] = "checked"
      /\ conn' = [conn EXCEPT ![s] = "open"]
      /\ subscribers' = [subscribers EXCEPT ![p] = @ \cup {s}]
      /\ from' = [from EXCEPT ![s] = Len(published[p])]
      /\ UNCHANGED <<published, queue, sent>>
  BY <1>0 DEF Subscribe
<1>2. /\ published \in [Processes -> Seq(Events)]
      /\ subscribers \in [Processes -> SUBSET Streams]
      /\ conn \in [Streams -> {"new", "checked", "open", "gone"}]
      /\ from \in [Streams -> Nat]
  BY DEF TypeInv, TypeOK
<1>3. SubscribedAreOpen'
  BY <1>0, <1>1, <1>2 DEF SubscribedAreOpen
<1>4. StartEmpty'
  BY <1>1, <1>2 DEF StartEmpty
<1>5. Len(published[p]) \in Nat
  BY <1>2, LenProperties
<1>6. FromPublished'
  BY <1>0, <1>1, <1>2, <1>5 DEF FromPublished
<1>7. queue[s] = <<>> /\ sent[s] = <<>>
  BY <1>1 DEF StartEmpty
<1>8. SubSeq(published[p], Len(published[p]) + 1, Len(published[p])) = <<>>
  BY <1>5, SubSeqEmpty
<1>9. <<>> \o <<>> = <<>>
  <2>1. <<>> \in Seq(Events)
    OBVIOUS
  <2>2. QED
    BY <2>1, ConcatEmptySeq
<1>10. StreamsExact'
  <2> SUFFICES ASSUME NEW t \in Streams, conn'[t] = "open"
               PROVE  sent[t] \o queue[t]
                        = SubSeq(published[ProcessOf[t]], from'[t] + 1,
                                 Len(published[ProcessOf[t]]))
    BY <1>1 DEF StreamsExact
  <2>1. CASE t = s
    BY <1>0, <1>1, <1>2, <1>7, <1>8, <1>9, <2>1
  <2>2. CASE t # s
    BY <1>1, <1>2, <2>2 DEF StreamsExact
  <2>3. QED
    BY <2>1, <2>2
<1>11. QED
  BY <1>3, <1>4, <1>6, <1>10

LEMMA DeliverStreams ==
  ASSUME StreamInv, NEW s \in Streams, Deliver(s)
  PROVE  SubscribedAreOpen' /\ StartEmpty' /\ FromPublished' /\ StreamsExact'
<1> USE DEF StreamInv
<1>1. /\ conn[s] = "open" /\ queue[s] # <<>>
      /\ sent' = [sent EXCEPT ![s] = Append(@, Head(queue[s]))]
      /\ queue' = [queue EXCEPT ![s] = Tail(@)]
      /\ UNCHANGED <<published, subscribers, conn, from>>
  BY DEF Deliver
<1>2. queue \in [Streams -> Seq(Events)] /\ sent \in [Streams -> Seq(Events)]
  BY DEF TypeInv, TypeOK
<1>3. Append(sent[s], Head(queue[s])) \o Tail(queue[s]) = sent[s] \o queue[s]
  BY <1>1, <1>2, ConcatHeadTail
<1>4. \A t \in Streams : sent'[t] \o queue'[t] = sent[t] \o queue[t]
  BY <1>1, <1>2, <1>3
<1>5. SubscribedAreOpen' /\ FromPublished'
  BY <1>1 DEF SubscribedAreOpen, FromPublished
<1>6. StartEmpty'
  BY <1>1, <1>2 DEF StartEmpty
<1>7. StreamsExact'
  BY <1>1, <1>4 DEF StreamsExact
<1>8. QED
  BY <1>5, <1>6, <1>7

LEMMA DisconnectStreams ==
  ASSUME StreamInv, NEW s \in Streams, Disconnect(s)
  PROVE  SubscribedAreOpen' /\ StartEmpty' /\ FromPublished' /\ StreamsExact'
<1> USE DEF StreamInv
<1>0. PICK p \in Processes : p = ProcessOf[s]
  BY ThreadAssumption
<1>1. /\ conn' = [conn EXCEPT ![s] = "gone"]
      /\ subscribers' = [subscribers EXCEPT ![p] = @ \ {s}]
      /\ UNCHANGED <<published, from, queue, sent>>
  BY <1>0 DEF Disconnect, Leaving
<1>2. /\ subscribers \in [Processes -> SUBSET Streams]
      /\ conn \in [Streams -> {"new", "checked", "open", "gone"}]
  BY DEF TypeInv, TypeOK
<1>3. SubscribedAreOpen'
  BY <1>0, <1>1, <1>2 DEF SubscribedAreOpen
<1>4. \A t \in Streams : conn'[t] # "gone" => conn'[t] = conn[t]
  BY <1>1, <1>2
<1>5. StartEmpty' /\ FromPublished' /\ StreamsExact'
  BY <1>1, <1>4 DEF StartEmpty, FromPublished, StreamsExact
<1>6. QED
  BY <1>3, <1>5

LEMMA CrashStreams ==
  ASSUME StreamInv, NEW p \in Processes, Crash(p)
  PROVE  SubscribedAreOpen' /\ StartEmpty' /\ FromPublished' /\ StreamsExact'
<1> USE DEF StreamInv
<1>1. /\ published' = [published EXCEPT ![p] = <<>>]
      /\ subscribers' = [subscribers EXCEPT ![p] = {}]
      /\ \A s \in Streams : conn'[s] =
           IF ProcessOf[s] = p /\ conn[s] # "new" THEN "gone" ELSE conn[s]
      /\ UNCHANGED <<from, queue, sent>>
  BY DEF Crash
<1>2. /\ published \in [Processes -> Seq(Events)]
      /\ subscribers \in [Processes -> SUBSET Streams]
  BY DEF TypeInv, TypeOK
<1>3. \A s \in Streams : conn'[s] \in {"open", "checked"} => conn'[s] = conn[s] /\ ProcessOf[s] # p
  BY <1>1
<1>4. \A s \in Streams : conn[s] \in {"new", "checked"} \/ conn'[s] # "new"
  BY <1>1
<1>5. \A q \in Processes : q # p => published'[q] = published[q] /\ subscribers'[q] = subscribers[q]
  BY <1>1, <1>2
<1>6. SubscribedAreOpen'
  <2>1. ASSUME NEW s \in Streams, conn'[s] = "open"
        PROVE  s \in subscribers'[ProcessOf[s]]
    BY <1>3, <1>5, <2>1, ThreadAssumption DEF SubscribedAreOpen
  <2>2. ASSUME NEW q \in Processes, NEW s \in subscribers'[q]
        PROVE  ProcessOf[s] = q /\ conn'[s] = "open"
    <3>1. q # p /\ s \in subscribers[q] /\ s \in Streams
      BY <1>1, <1>2, <2>2
    <3>2. QED
      BY <1>1, <3>1 DEF SubscribedAreOpen
  <2>3. QED
    BY <2>1, <2>2 DEF SubscribedAreOpen
<1>7. StartEmpty'
  BY <1>1, <1>3, <1>4 DEF StartEmpty
<1>8. FromPublished' /\ StreamsExact'
  BY <1>1, <1>3, <1>5, ThreadAssumption DEF FromPublished, StreamsExact
<1>9. QED
  BY <1>6, <1>7, <1>8

LEMMA StreamInvStep == StreamInv /\ [Next]_vars => StreamInv'
<1> SUFFICES ASSUME StreamInv, [Next]_vars PROVE StreamInv'
  OBVIOUS
<1>1. TypeInv'
  BY TypeInvStep DEF StreamInv
<1>2. ASSUME UNCHANGED <<published, subscribers, conn, from, queue, sent>>
      PROVE  SubscribedAreOpen' /\ StartEmpty' /\ FromPublished' /\ StreamsExact'
  BY <1>2 DEF StreamInv, SubscribedAreOpen, StartEmpty, FromPublished, StreamsExact
<1>3. ASSUME NEW h \in Handlers, PublishMessage(h) \/ AnnounceResolution(h)
      PROVE  SubscribedAreOpen' /\ StartEmpty' /\ FromPublished' /\ StreamsExact'
  <2>1. ProcessOf[h] \in Processes
    BY ThreadAssumption
  <2>2. CASE PublishMessage(h)
    <3>1. msg[h] \in Events /\ Publish(ProcessOf[h], msg[h])
      BY <2>2 DEF PublishMessage, StreamInv, TypeInv, PostsHaveMessages, Events
    <3>2. QED
      BY <2>1, <3>1, PublishStreams
  <2>3. CASE AnnounceResolution(h)
    <3>1. Resolved \in Events /\ Publish(ProcessOf[h], Resolved)
      BY <2>3 DEF AnnounceResolution, Events
    <3>2. QED
      BY <2>1, <3>1, PublishStreams
  <2>4. QED
    BY <1>3, <2>2, <2>3
<1>4. ASSUME NEW h \in Handlers,
             \/ OpenDispute(h) \/ ResolveDispute(h)
             \/ CreateThread(h) \/ AddMessage(h) \/ MarkThread(h)
             \/ \E m \in Messages : PostMessage(h, m)
      PROVE  UNCHANGED <<published, subscribers, conn, from, queue, sent>>
  BY <1>4 DEF OpenDispute, ResolveDispute, CreateThread, AddMessage, MarkThread, PostMessage,
    streaming
<1>5. ASSUME NEW s \in Streams, CheckViewer(s)
      PROVE  SubscribedAreOpen' /\ StartEmpty' /\ FromPublished' /\ StreamsExact'
  <2>1. /\ conn[s] = "new" /\ conn' = [conn EXCEPT ![s] = "checked"]
        /\ UNCHANGED <<published, subscribers, from, queue, sent>>
    BY <1>5 DEF CheckViewer
  <2>2. conn \in [Streams -> {"new", "checked", "open", "gone"}]
        /\ subscribers \in [Processes -> SUBSET Streams]
    BY DEF StreamInv, TypeInv, TypeOK
  <2>3. SubscribedAreOpen' /\ StartEmpty'
    BY <2>1, <2>2 DEF StreamInv, SubscribedAreOpen, StartEmpty
  <2>4. FromPublished' /\ StreamsExact'
    BY <2>1, <2>2 DEF StreamInv, FromPublished, StreamsExact
  <2>5. QED
    BY <2>3, <2>4
<1>6. SubscribedAreOpen' /\ StartEmpty' /\ FromPublished' /\ StreamsExact'
  <2>1. CASE UNCHANGED vars
    BY <1>2, <2>1 DEF vars, streaming
  <2>2. CASE Next
    BY <1>2, <1>3, <1>4, <1>5, <2>2, SubscribeStreams, DeliverStreams, DisconnectStreams,
      CrashStreams DEF Next, Work
  <2>3. QED
    BY <2>1, <2>2
<1>7. QED
  BY <1>1, <1>6 DEF StreamInv

\* A connection gets every event that its process publishes while it is open,
\* once and in order, whoever else comes, goes or crashes.
THEOREM StreamsAreExact == Spec => []StreamsExact
<1>1. StreamInv => StreamsExact
  BY DEF StreamInv
<1>2. QED
  BY <1>1, StreamInvInit, StreamInvStep, PTL DEF Spec

-----------------------------------------------------------------------------
(***************************************************************************)
(* The order of events.                                                    *)
(***************************************************************************)

OrderParts == StoredOnce /\ PublishedIsTrue /\ PublishesLast /\ AnnouncesRuling /\ AnnouncedInOrder

LEMMA OrderInvInit == Init => OrderInv
<1> SUFFICES ASSUME Init PROVE OrderInv
  OBVIOUS
<1>1. ThreadInv
  BY ThreadInvInit
<1>2. \A e : ~Published(e)
  BY DEF Init, Published
<1>3. StoredOnce /\ PublishedIsTrue /\ PublishesLast /\ AnnouncesRuling /\ AnnouncedInOrder
  BY <1>2 DEF Init, StoredOnce, PublishedIsTrue, PublishesLast, AnnouncesRuling, AnnouncedInOrder
<1>4. QED
  BY <1>1, <1>3 DEF OrderInv

\* A handler that leaves the stored and the published events as they are.
LEMMA OrderQuiet ==
  ASSUME OrderInv, UNCHANGED <<stored, published>>,
         dispute = "open" \/ dispute' = dispute,
         \A h \in Handlers : step'[h] = "publish" =>
           step[h] = "publish" /\ msg'[h] = msg[h] /\ dispute' = dispute,
         \A h \in Handlers : step'[h] = "announce" => dispute' = "resolved",
         Published(Resolved) => dispute' = "resolved" /\
           \A h \in Handlers : step'[h] \in {"mark", "announce"} => step[h] \in {"mark", "announce"}
  PROVE  OrderParts'
<1> USE DEF OrderInv
<1>1. \A e : Published(e)' <=> Published(e)
  BY DEF Published
<1>2. \A e : Stored(e)' <=> Stored(e)
  BY DEF Stored
<1>3. StoredOnce' /\ AnnouncedInOrder'
  BY DEF StoredOnce, AnnouncedInOrder, Before
<1>4. PublishedIsTrue'
  BY <1>1, <1>2 DEF PublishedIsTrue
<1>5. PublishesLast' /\ AnnouncesRuling'
  BY <1>1 DEF PublishesLast, AnnouncesRuling
<1>6. QED
  BY <1>3, <1>4, <1>5 DEF OrderParts

\* Publishing e, which nobody has published and which comes after all that was.
LEMMA OrderPublish ==
  ASSUME OrderInv, NEW p \in Processes, NEW e \in Events, Publish(p, e),
         published \in [Processes -> Seq(Events)],
         UNCHANGED <<dispute, stored>>,
         \A f \in Events : Published(f) => Before(f, e),
         e \in Messages => Stored(e),
         \A h \in Handlers : step'[h] = "idle",
         e = Resolved => dispute = "resolved"
  PROVE  OrderParts'
<1> USE DEF OrderInv
<1>1. published' = [published EXCEPT ![p] = Append(@, e)]
  BY DEF Publish
<1>2. published[p] \in Seq(Events) /\ published'[p] = Append(published[p], e)
  BY <1>1
<1>3. /\ Len(published'[p]) = Len(published[p]) + 1 /\ Len(published[p]) \in Nat
      /\ \A i \in 1..Len(published[p]) : published'[p][i] = published[p][i]
      /\ published'[p][Len(published[p]) + 1] = e
  BY <1>2, AppendProperties, LenProperties
<1>4. \A q \in Processes : q # p => published'[q] = published[q]
  BY <1>1
<1>5. ASSUME NEW f, Published(f)' PROVE f = e \/ Published(f)
  <2>1. PICK q \in Processes : \E i \in 1..Len(published'[q]) : published'[q][i] = f
    BY <1>5 DEF Published
  <2>2. PICK i \in 1..Len(published'[q]) : published'[q][i] = f
    BY <2>1
  <2>3. CASE q # p
    BY <1>4, <2>2, <2>3 DEF Published
  <2>4. CASE q = p
    <3>1. i = Len(published[p]) + 1 \/ i \in 1..Len(published[p])
      BY <1>3, <2>2, <2>4
    <3>2. QED
      BY <1>3, <2>2, <2>4, <3>1 DEF Published
  <2>5. QED
    BY <2>3, <2>4
<1>6. \A f : Stored(f)' <=> Stored(f)
  BY DEF Stored
<1>7. \A f, g : Before(f, g)' <=> Before(f, g)
  BY DEF Before
<1>8. StoredOnce' /\ PublishesLast' /\ AnnouncesRuling'
  BY DEF StoredOnce, PublishesLast, AnnouncesRuling
<1>9. PublishedIsTrue'
  <2>1. ASSUME NEW f \in Messages, Published(f)' PROVE Stored(f)'
    BY <1>5, <1>6, <2>1 DEF PublishedIsTrue
  <2>2. ASSUME Published(Resolved)'
        PROVE  dispute' = "resolved" /\ \A h \in Handlers : step'[h] \notin {"mark", "announce"}
    BY <1>5, <2>2 DEF PublishedIsTrue
  <2>3. QED
    BY <2>1, <2>2 DEF PublishedIsTrue
<1>10. AnnouncedInOrder'
  <2> SUFFICES ASSUME NEW q \in Processes,
                      NEW i \in 1..Len(published'[q]), NEW j \in 1..Len(published'[q]), i < j
               PROVE  Before(published'[q][i], published'[q][j])
    BY <1>7 DEF AnnouncedInOrder
  <2>1. CASE q # p
    BY <1>4, <2>1 DEF AnnouncedInOrder
  <2>2. CASE q = p /\ j \in 1..Len(published[p])
    <3>1. i \in 1..Len(published[p])
      BY <1>3, <2>2
    <3>2. QED
      BY <1>3, <2>2, <3>1 DEF AnnouncedInOrder
  <2>3. CASE q = p /\ j = Len(published[p]) + 1
    <3>1. i \in 1..Len(published[p])
      BY <1>3, <2>3
    <3>2. published[p][i] \in Events /\ Published(published[p][i])
      BY <1>2, <3>1, ElementOfSeq DEF Published
    <3>3. QED
      BY <1>3, <2>3, <3>1, <3>2
  <2>4. QED
    BY <1>3, <2>1, <2>2, <2>3
<1>11. QED
  BY <1>8, <1>9, <1>10 DEF OrderParts

\* Storing a message that is new.
LEMMA OrderStore ==
  ASSUME OrderInv, stored \in Seq(Messages), NEW h \in Handlers,
         step[h] = "store", dispute = "open", msg[h] \in Messages, ~Stored(msg[h]),
         stored' = Append(stored, msg[h]), UNCHANGED <<dispute, published>>,
         \A g \in Handlers : g # h => step'[g] = "idle",
         step'[h] \in {"idle", "publish"}, step'[h] = "publish" => msg'[h] = msg[h]
  PROVE  OrderParts'
<1> USE DEF OrderInv
<1>0. PICK m \in Messages : m = msg[h]
  OBVIOUS
<1>1. /\ Len(stored') = Len(stored) + 1 /\ Len(stored) \in Nat
      /\ \A i \in 1..Len(stored) : stored'[i] = stored[i] /\ stored'[i] # m
      /\ stored'[Len(stored) + 1] = m
  BY <1>0, AppendProperties, LenProperties DEF Stored
<1>2. \A e : Published(e)' <=> Published(e)
  BY DEF Published
<1>3. \A e : Stored(e) => Stored(e)'
  BY <1>1 DEF Stored
<1>4. ASSUME NEW e, NEW f, Before(e, f)
      PROVE  Before(e, f)'
  <2>1. CASE e # Resolved /\ f = Resolved
    BY <2>1 DEF Before
  <2>2. CASE \E i, j \in 1..Len(stored) : i < j /\ stored[i] = e /\ stored[j] = f
    <3>1. PICK i, j \in 1..Len(stored) : i < j /\ stored[i] = e /\ stored[j] = f
      BY <2>2
    <3>2. i \in 1..Len(stored') /\ j \in 1..Len(stored') /\ stored'[i] = e /\ stored'[j] = f
      BY <1>1, <3>1
    <3>3. QED
      BY <3>1, <3>2 DEF Before
  <2>3. QED
    BY <1>4, <2>1, <2>2 DEF Before
<1>5. StoredOnce'
  BY <1>1 DEF StoredOnce
<1>6. PublishedIsTrue'
  BY <1>2, <1>3 DEF PublishedIsTrue
<1>7. PublishesLast'
  <2>1. ~Published(m)
    BY <1>0 DEF PublishedIsTrue
  <2>2. Len(stored') # 0 /\ stored'[Len(stored')] = m
    BY <1>1
  <2>3. QED
    BY <1>0, <1>2, <2>1, <2>2 DEF PublishesLast
<1>8. AnnouncesRuling'
  BY DEF AnnouncesRuling
<1>9. AnnouncedInOrder'
  BY <1>4 DEF AnnouncedInOrder
<1>10. QED
  BY <1>5, <1>6, <1>7, <1>8, <1>9 DEF OrderParts

\* What each handler does to the order.
LEMMA OrderHandlers ==
  ASSUME OneServer, OrderInv, TypeInv, NEW h \in Handlers,
         \/ OpenDispute(h) \/ ResolveDispute(h) \/ Work(h)
         \/ \E m \in Messages : PostMessage(h, m)
  PROVE  OrderParts'
<1> USE DEF OrderInv
<1>0. /\ HandlingType /\ LoopHeld /\ ReadingsHold
      /\ step \in [Handlers -> {"idle", "create", "store", "publish", "mark", "announce"}]
      /\ msg \in [Handlers -> Messages \cup {None}]
      /\ stored \in Seq(Messages) /\ published \in [Processes -> Seq(Events)]
  BY DEF ThreadInv, HandlingType, TypeInv, TypeOK
<1>1. ProcessOf[h] \in Processes
  BY ThreadAssumption
<1>2. \A g \in Handlers : step[h] # "idle" /\ step[g] # "idle" => g = h
  BY <1>0, OneAtATime
<1>3. \A g \in Handlers : Free(ProcessOf[h]) => step[g] = "idle"
  BY <1>0, FreeMeansIdle
<1>4. ASSUME Answer(h) PROVE step' = [step EXCEPT ![h] = "idle"]
  BY <1>4 DEF Answer
<1>5. ASSUME Answer(h), step[h] # "idle" PROVE \A g \in Handlers : step'[g] = "idle"
  BY <1>0, <1>2, <1>4, <1>5
<1>6. CASE OpenDispute(h)
  <2>1. /\ dispute = "none" /\ dispute' = "open" /\ Free(ProcessOf[h])
        /\ step' = [step EXCEPT ![h] = "create"] /\ UNCHANGED <<stored, published>>
    BY <1>6 DEF OpenDispute, Enter, firestore, streaming
  <2>2. ~Published(Resolved) /\ \A g \in Handlers : step'[g] \in {"idle", "create"}
    BY <1>0, <1>3, <2>1 DEF PublishedIsTrue
  <2>3. \A e : Published(e)' <=> Published(e)
    BY <2>1 DEF Published
  <2>4. StoredOnce' /\ AnnouncedInOrder' /\ PublishesLast' /\ AnnouncesRuling'
    BY <2>1, <2>2 DEF StoredOnce, AnnouncedInOrder, Before, PublishesLast, AnnouncesRuling
  <2>5. PublishedIsTrue'
    BY <2>1, <2>2, <2>3 DEF PublishedIsTrue, Stored
  <2>6. QED
    BY <2>4, <2>5 DEF OrderParts
<1>7. CASE \E m \in Messages : PostMessage(h, m)
  <2>1. /\ dispute = "open" /\ dispute' = dispute /\ Free(ProcessOf[h])
        /\ step' = [step EXCEPT ![h] = "store"] /\ UNCHANGED <<stored, published>>
    BY <1>7 DEF PostMessage, Enter, row, firestore, streaming
  <2>2. \A g \in Handlers : step'[g] \in {"idle", "store"}
    BY <1>0, <1>3, <2>1
  <2>3. ~Published(Resolved)
    BY <2>1 DEF PublishedIsTrue
  <2>4. QED
    BY <2>1, <2>2, <2>3, OrderQuiet
<1>8. CASE ResolveDispute(h)
  <2>1. /\ dispute = "open" /\ dispute' = "resolved" /\ Free(ProcessOf[h])
        /\ step' = [step EXCEPT ![h] = "mark"] /\ UNCHANGED <<stored, published>>
    BY <1>8 DEF ResolveDispute, Enter, firestore, streaming
  <2>2. \A g \in Handlers : step'[g] \in {"idle", "mark"}
    BY <1>0, <1>3, <2>1
  <2>3. ~Published(Resolved)
    BY <2>1 DEF PublishedIsTrue
  <2>4. QED
    BY <2>1, <2>2, <2>3, OrderQuiet
<1>9. CASE CreateThread(h)
  <2>1. step[h] # "idle" /\ Answer(h) /\ UNCHANGED <<dispute, stored, published>>
    BY <1>9 DEF CreateThread, row, streaming
  <2>2. \A g \in Handlers : step'[g] = "idle"
    BY <1>5, <2>1
  <2>3. Published(Resolved) => dispute' = "resolved"
    BY <2>1 DEF PublishedIsTrue
  <2>4. QED
    BY <2>1, <2>2, <2>3, OrderQuiet
<1>10. CASE AddMessage(h)
  <2>1. PICK o \in Outcomes :
          /\ stored' = IF o.done THEN Append(stored, msg[h]) ELSE stored
          /\ IF o.raises THEN Answer(h) ELSE Go(h, "publish")
    BY <1>10 DEF AddMessage
  <2>2. step[h] = "store" /\ UNCHANGED <<dispute, published>>
    BY <1>10 DEF AddMessage, row, streaming
  <2>3. dispute = "open" /\ msg[h] \in Messages /\ ~Stored(msg[h])
    BY <1>0, <2>2 DEF ReadingsHold
  <2>4. \A g \in Handlers : g # h => step[g] = "idle"
    BY <1>2, <2>2
  <2>5. CASE o.done
    <3>1. stored' = Append(stored, msg[h])
      BY <2>1, <2>5
    <3>2. /\ \A g \in Handlers : g # h => step'[g] = "idle"
          /\ step'[h] \in {"idle", "publish"} /\ (step'[h] = "publish" => msg'[h] = msg[h])
      BY <1>0, <2>1, <2>4 DEF Answer, Go
    <3>3. QED
      BY <1>0, <2>2, <2>3, <3>1, <3>2, OrderStore
  <2>6. CASE ~o.done
    <3>1. o.raises /\ stored' = stored
      BY <2>1, <2>6 DEF Outcomes
    <3>2. \A g \in Handlers : step'[g] = "idle"
      BY <1>5, <2>1, <2>2, <3>1
    <3>3. Published(Resolved) => dispute' = "resolved"
      BY <2>2 DEF PublishedIsTrue
    <3>4. QED
      BY <2>2, <3>1, <3>2, <3>3, OrderQuiet
  <2>7. QED
    BY <2>5, <2>6
<1>11. CASE PublishMessage(h)
  <2>0. PICK m : m = msg[h]
    OBVIOUS
  <2>1. /\ step[h] = "publish" /\ Publish(ProcessOf[h], m) /\ Answer(h)
        /\ UNCHANGED <<dispute, stored>>
    BY <1>11, <2>0 DEF PublishMessage, row, firestore
  <2>2. m \in Messages /\ m \in Events /\ m # Resolved /\ Stored(m)
    BY <1>0, <2>0, <2>1, ThreadAssumption DEF ReadingsHold, Events
  <2>3. dispute = "open" /\ Len(stored) # 0 /\ stored[Len(stored)] = m /\ ~Published(m)
    BY <2>0, <2>1 DEF PublishesLast
  <2>4. ASSUME NEW f \in Events, Published(f) PROVE Before(f, m)
    <3>1. f # Resolved /\ f # m
      BY <2>3, <2>4 DEF PublishedIsTrue
    <3>2. Stored(f)
      BY <2>4, <3>1 DEF PublishedIsTrue, Events
    <3>3. PICK i \in 1..Len(stored) : stored[i] = f
      BY <3>2 DEF Stored
    <3>4. Len(stored) \in Nat
      BY <1>0, LenProperties
    <3>5. Len(stored) \in 1..Len(stored) /\ i < Len(stored)
      BY <2>3, <3>1, <3>3, <3>4
    <3>6. QED
      BY <2>3, <3>3, <3>5 DEF Before
  <2>5. \A g \in Handlers : step'[g] = "idle"
    BY <1>5, <2>1
  <2>6. QED
    BY <1>0, <1>1, <2>1, <2>2, <2>4, <2>5, OrderPublish
<1>12. CASE MarkThread(h)
  <2>1. /\ step[h] = "mark" /\ step' = [step EXCEPT ![h] = "announce"]
        /\ UNCHANGED <<dispute, stored, published, msg>>
    BY <1>12 DEF MarkThread, Go, row, streaming
  <2>2. dispute = "resolved"
    BY <1>0, <2>1 DEF ReadingsHold
  <2>3. ~Published(Resolved)
    BY <2>1 DEF PublishedIsTrue
  <2>4. \A g \in Handlers : step'[g] = "publish" => step[g] = "publish"
    BY <1>0, <2>1
  <2>5. QED
    BY <2>1, <2>2, <2>3, <2>4, OrderQuiet
<1>13. CASE AnnounceResolution(h)
  <2>1. /\ step[h] = "announce" /\ Publish(ProcessOf[h], Resolved) /\ Answer(h)
        /\ UNCHANGED <<dispute, stored>>
    BY <1>13 DEF AnnounceResolution, row, firestore
  <2>2. dispute = "resolved"
    BY <2>1 DEF AnnouncesRuling
  <2>3. ~Published(Resolved)
    BY <2>1 DEF PublishedIsTrue
  <2>4. ASSUME NEW f \in Events, Published(f) PROVE Before(f, Resolved)
    BY <2>3, <2>4 DEF Before
  <2>5. \A g \in Handlers : step'[g] = "idle"
    BY <1>5, <2>1
  <2>6. Resolved \in Events /\ Resolved \notin Messages
    BY ThreadAssumption DEF Events
  <2>7. QED
    BY <1>0, <1>1, <2>1, <2>2, <2>4, <2>5, <2>6, OrderPublish
<1>14. QED
  BY <1>6, <1>7, <1>8, <1>9, <1>10, <1>11, <1>12, <1>13 DEF Work

\* A crash forgets events and handlers of its process, and no others.
LEMMA OrderCrash ==
  ASSUME OrderInv, TypeInv, NEW p \in Processes, Crash(p)
  PROVE  OrderParts'
<1> USE DEF OrderInv
<1> DEFINE here == {x \in Handlers \cup Streams : ProcessOf[x] = p}
<1>1. /\ step' = [h \in Handlers |-> IF h \in here THEN "idle" ELSE step[h]]
      /\ msg' = [h \in Handlers |-> IF h \in here THEN None ELSE msg[h]]
      /\ published' = [published EXCEPT ![p] = <<>>]
      /\ UNCHANGED <<dispute, stored>>
  BY DEF Crash, row, firestore
<1> HIDE DEF here
<1>2. published \in [Processes -> Seq(Events)]
  BY DEF TypeInv, TypeOK
<1>3. \A q \in Processes : published'[q] = published[q] \/ Len(published'[q]) = 0
  BY <1>1, <1>2
<1>4. \A e : Published(e)' => Published(e)
  BY <1>3 DEF Published
<1>5. \A h \in Handlers : step'[h] # "idle" => step'[h] = step[h] /\ msg'[h] = msg[h]
  BY <1>1
<1>6. StoredOnce' /\ AnnouncesRuling'
  BY <1>1, <1>5 DEF StoredOnce, AnnouncesRuling
<1>7. AnnouncedInOrder'
  BY <1>1, <1>3 DEF AnnouncedInOrder, Before
<1>8. PublishedIsTrue'
  BY <1>1, <1>4, <1>5 DEF PublishedIsTrue, Stored
<1>9. PublishesLast'
  BY <1>1, <1>4, <1>5 DEF PublishesLast
<1>10. QED
  BY <1>6, <1>7, <1>8, <1>9 DEF OrderParts

LEMMA OrderInvStep ==
  ASSUME OneServer, OrderInv, TypeInv, [Next]_vars
  PROVE  OrderInv'
<1>1. ThreadInv'
  BY ThreadInvStep DEF OrderInv
<1>2. ASSUME UNCHANGED <<row, firestore, handling, published>>
      PROVE  OrderParts'
  BY <1>2 DEF row, firestore, handling, OrderParts, OrderInv, StoredOnce, PublishedIsTrue,
    PublishesLast, AnnouncesRuling, AnnouncedInOrder, Published, Stored, Before
<1>3. ASSUME NEW s \in Streams, CheckViewer(s) \/ Subscribe(s) \/ Deliver(s) \/ Disconnect(s)
      PROVE  OrderParts'
  BY <1>2, <1>3 DEF CheckViewer, Subscribe, Deliver, Disconnect
<1>4. CASE UNCHANGED vars
  BY <1>1, <1>2, <1>4 DEF vars, streaming, OrderParts, OrderInv
<1>5. CASE Next
  <2>1. OrderParts'
    BY <1>3, <1>5, OrderHandlers, OrderCrash DEF Next
  <2>2. QED
    BY <1>1, <2>1 DEF OrderParts, OrderInv
<1>6. QED
  BY <1>4, <1>5

\* With one server process, events are published in the order of the thread,
\* and nothing after the resolution.
THEOREM EventsInOrder ==
  ASSUME OneServer
  PROVE  Spec => []AnnouncedInOrder
<1>1. Init => OrderInv /\ TypeInv
  BY OrderInvInit, TypeInvInit
<1>2. OrderInv /\ TypeInv /\ [Next]_vars => (OrderInv /\ TypeInv)'
  BY OrderInvStep, TypeInvStep
<1>3. OrderInv => AnnouncedInOrder
  BY DEF OrderInv
<1>4. QED
  BY <1>1, <1>2, <1>3, PTL DEF Spec

=============================================================================
