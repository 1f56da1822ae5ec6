--------------------------- MODULE DisputeThread ----------------------------
(***************************************************************************)
(* The message thread of one dispute in its three places: the dispute row  *)
(* in Postgres, the thread's document and messages in Firestore, and the   *)
(* live streams of the clients that watch it.                              *)
(*                                                                         *)
(* disputes/services.py, disputes/firestore_client.py, disputes/router.py  *)
(* and platform/events/broadcaster.py under src/app.                       *)
(*                                                                         *)
(* A handler of an async route runs on its process's event loop and keeps  *)
(* it until it answers, also while it waits for Firestore.  There is no    *)
(* other protection between reading the dispute and writing the message.   *)
(* A call to Firestore is carried out and answered, fails, or is carried   *)
(* out while its answer is lost; it is never carried out later.            *)
(***************************************************************************)
EXTENDS Naturals, Sequences, SequencesExt

CONSTANTS
  Messages,     \* ids of messages; every attempt has a new one
  Handlers,     \* requests that open, post or resolve
  Streams,      \* connections of clients that watch
  Processes,    \* server processes
  ProcessOf,    \* where a handler or a connection is served
  Resolved,     \* the event of the resolution
  None,         \* nobody, no message
  MaxCrashes    \* bound on crashes

ASSUME ThreadAssumption ==
  /\ ProcessOf \in [Handlers \cup Streams -> Processes]
  /\ None \notin Handlers
  /\ Resolved \notin Messages
  /\ MaxCrashes \in Nat

Events == Messages \cup {Resolved}

VARIABLES
  dispute,      \* status of the dispute's row
  thread,       \* status in the thread's document
  stored,       \* messages in Firestore, in the order of their writes
  confirmed,    \* messages that were answered with 201 (history)
  step,         \* what a handler is at
  msg,          \* the message that a handler posts
  loop,         \* per process, the handler that holds its event loop
  published,    \* per process, events published since it started (history)
  subscribers,  \* per process, the set of the subscribed connections
  conn,         \* state of a connection
  watched,      \* the dispute's status when it subscribed (history)
  from,         \* events published before it subscribed (history)
  queue,        \* its queue
  sent,         \* events sent on it
  crashes

row == <<dispute>>
firestore == <<thread, stored>>
handling == <<step, msg, loop>>
streaming == <<published, subscribers, conn, watched, from, queue, sent>>
vars == <<row, firestore, confirmed, handling, streaming, crashes>>

Stored(m) == \E i \in 1..Len(stored) : stored[i] = m

-----------------------------------------------------------------------------
(***************************************************************************)
(* The event loop.                                                         *)
(***************************************************************************)

\* Faulty: the services run in the thread pool.
FreeInThreads(p) == TRUE
Free(p) == loop[p] = None

\* Faulty: the message is not handed on.
EnterWithoutMessage(h, s, m) ==
  /\ step[h] = "idle"
  /\ Free(ProcessOf[h])
  /\ step' = [step EXCEPT ![h] = s]
  /\ loop' = [loop EXCEPT ![ProcessOf[h]] = h]
  /\ UNCHANGED msg

\* A request that passes its checks has the loop, until it is answered.
Enter(h, s, m) ==
  /\ step[h] = "idle"
  /\ Free(ProcessOf[h])
  /\ step' = [step EXCEPT ![h] = s]
  /\ msg' = [msg EXCEPT ![h] = m]
  /\ loop' = [loop EXCEPT ![ProcessOf[h]] = h]

\* It goes on to its next call.
Go(h, s) ==
  /\ step' = [step EXCEPT ![h] = s]
  /\ UNCHANGED <<msg, loop>>

Answer(h) ==
  /\ step' = [step EXCEPT ![h] = "idle"]
  /\ msg' = [msg EXCEPT ![h] = None]
  /\ loop' = [loop EXCEPT ![ProcessOf[h]] = None]

\* What a call to Firestore may do: carried out and answered, or an exception
\* either way.
Outcomes == [done : BOOLEAN, raises : BOOLEAN] \ {[done |-> FALSE, raises |-> FALSE]}

-----------------------------------------------------------------------------

Init ==
  /\ dispute = "none"
  /\ thread = "none"
  /\ stored = <<>>
  /\ confirmed = {}
  /\ step = [h \in Handlers |-> "idle"]
  /\ msg = [h \in Handlers |-> None]
  /\ loop = [p \in Processes |-> None]
  /\ published = [p \in Processes |-> <<>>]
  /\ subscribers = [p \in Processes |-> {}]
  /\ conn = [s \in Streams |-> "new"]
  /\ watched = [s \in Streams |-> "none"]
  /\ from = [s \in Streams |-> 0]
  /\ queue = [s \in Streams |-> <<>>]
  /\ sent = [s \in Streams |-> <<>>]
  /\ crashes = 0

(***************************************************************************)
(* open_dispute: the row is committed, then the document is set without    *)
(* merge, and an exception is only logged.                                 *)
(***************************************************************************)
\* Faulty: creating the document is left to a background task.
OpenDisputeFirst(h) ==
  /\ dispute = "none"
  /\ step[h] = "idle" /\ Free(ProcessOf[h])
  /\ step' = [step EXCEPT ![h] = "create"]
  /\ dispute' = "open"
  /\ UNCHANGED <<msg, loop, firestore, confirmed, streaming, crashes>>

OpenDispute(h) ==
  /\ dispute = "none"
  /\ Enter(h, "create", None)
  /\ dispute' = "open"
  /\ UNCHANGED <<firestore, confirmed, streaming, crashes>>

CreateThread(h) ==
  /\ step[h] = "create"
  /\ thread' \in {"open", thread}
  /\ Answer(h)
  /\ UNCHANGED <<row, stored, confirmed, streaming, crashes>>

(***************************************************************************)
(* post_message: the dispute's status is read, the message is written, and *)
(* only a message that was written is published.                           *)
(***************************************************************************)
PostMessage(h, m) ==
  /\ dispute = "open"
  /\ ~Stored(m) /\ \A g \in Handlers : msg[g] # m
  /\ Enter(h, "store", m)
  /\ UNCHANGED <<row, firestore, confirmed, streaming, crashes>>

\* Faulty: an exception is only logged, as in open_dispute.
AddMessageOrLog(h) ==
  /\ step[h] = "store"
  /\ stored' \in {stored, Append(stored, msg[h])}
  /\ Go(h, "publish")
  /\ UNCHANGED <<row, thread, confirmed, streaming, crashes>>

\* An exception is answered with 503, "please retry".
AddMessage(h) ==
  /\ step[h] = "store"
  /\ \E o \in Outcomes :
       /\ stored' = IF o.done THEN Append(stored, msg[h]) ELSE stored
       /\ IF o.raises THEN Answer(h) ELSE Go(h, "publish")
  /\ UNCHANGED <<row, thread, confirmed, streaming, crashes>>

\* publish puts the event into the queue of each subscriber of its process.
Publish(p, e) ==
  /\ published' = [published EXCEPT ![p] = Append(@, e)]
  /\ queue' = [s \in Streams |->
       IF s \in subscribers[p] THEN Append(queue[s], e) ELSE queue[s]]
  /\ UNCHANGED <<subscribers, conn, watched, from, sent>>

PublishMessage(h) ==
  /\ step[h] = "publish"
  /\ Publish(ProcessOf[h], msg[h])
  /\ confirmed' = confirmed \cup {msg[h]}
  /\ Answer(h)
  /\ UNCHANGED <<row, firestore, crashes>>

(***************************************************************************)
(* resolve_dispute: the ruling is committed, then announced: the document  *)
(* is merged, an exception is only logged, and the event is published.     *)
(***************************************************************************)
ResolveDispute(h) ==
  /\ dispute = "open"
  /\ Enter(h, "mark", None)
  /\ dispute' = "resolved"
  /\ UNCHANGED <<firestore, confirmed, streaming, crashes>>

\* Faulty: the event is published inside the try block.
MarkThreadOrLeave(h) ==
  /\ step[h] = "mark"
  /\ \E o \in Outcomes :
       /\ thread' = IF o.done THEN "resolved" ELSE thread
       /\ IF o.raises THEN Answer(h) ELSE Go(h, "announce")
  /\ UNCHANGED <<row, stored, confirmed, streaming, crashes>>

MarkThread(h) ==
  /\ step[h] = "mark"
  /\ thread' \in {"resolved", thread}
  /\ Go(h, "announce")
  /\ UNCHANGED <<row, stored, confirmed, streaming, crashes>>

AnnounceResolution(h) ==
  /\ step[h] = "announce"
  /\ Publish(ProcessOf[h], Resolved)
  /\ Answer(h)
  /\ UNCHANGED <<row, firestore, confirmed, crashes>>

-----------------------------------------------------------------------------
(***************************************************************************)
(* stream_dispute.  The check of the viewer runs in the thread pool; the   *)
(* stream subscribes when its response begins, on the loop.                *)
(***************************************************************************)
CheckViewer(s) ==
  /\ conn[s] = "new"
  /\ dispute # "none"
  /\ conn' = [conn EXCEPT ![s] = "checked"]
  /\ UNCHANGED <<row, firestore, confirmed, handling, crashes,
                 published, subscribers, watched, from, queue, sent>>

Subscribe(s) ==
  LET p == ProcessOf[s] IN
  /\ conn[s] = "checked"
  /\ Free(p)
  /\ conn' = [conn EXCEPT ![s] = "open"]
  /\ subscribers' = [subscribers EXCEPT ![p] = @ \cup {s}]
  /\ watched' = [watched EXCEPT ![s] = dispute]
  /\ from' = [from EXCEPT ![s] = Len(published[p])]
  /\ UNCHANGED <<row, firestore, confirmed, handling, crashes, published, queue, sent>>

\* The generator of the stream takes the next event of its queue and sends it.
Deliver(s) ==
  /\ conn[s] = "open"
  /\ Free(ProcessOf[s])
  /\ queue[s] # <<>>
  /\ sent' = [sent EXCEPT ![s] = Append(@, Head(queue[s]))]
  /\ queue' = [queue EXCEPT ![s] = Tail(@)]
  /\ UNCHANGED <<row, firestore, confirmed, handling, crashes,
                 published, subscribers, conn, watched, from>>

\* Faulty: the topic goes with the first that leaves.
LeavingAll(subs, s) == {}
Leaving(subs, s) == subs \ {s}

\* The client disconnects: the generator is cancelled and unsubscribes.
Disconnect(s) ==
  LET p == ProcessOf[s] IN
  /\ conn[s] = "open"
  /\ Free(p)
  /\ conn' = [conn EXCEPT ![s] = "gone"]
  /\ subscribers' = [subscribers EXCEPT ![p] = Leaving(@, s)]
  /\ UNCHANGED <<row, firestore, confirmed, handling, crashes,
                 published, watched, from, queue, sent>>

(***************************************************************************)
(* A process dies at any point, with its handlers, queues and connections, *)
(* and starts again.                                                       *)
(***************************************************************************)
Crash(p) ==
  LET here == {x \in Handlers \cup Streams : ProcessOf[x] = p} IN
  /\ crashes < MaxCrashes
  /\ crashes' = crashes + 1
  /\ step' = [h \in Handlers |-> IF h \in here THEN "idle" ELSE step[h]]
  /\ msg' = [h \in Handlers |-> IF h \in here THEN None ELSE msg[h]]
  /\ loop' = [loop EXCEPT ![p] = None]
  /\ published' = [published EXCEPT ![p] = <<>>]
  /\ subscribers' = [subscribers EXCEPT ![p] = {}]
  /\ conn' = [s \in Streams |-> IF s \in here /\ conn[s] # "new" THEN "gone" ELSE conn[s]]
  /\ UNCHANGED <<row, firestore, confirmed, watched, from, queue, sent>>

-----------------------------------------------------------------------------

Work(h) ==
  \/ CreateThread(h)
  \/ AddMessage(h)
  \/ PublishMessage(h)
  \/ MarkThread(h)
  \/ AnnounceResolution(h)

Next ==
  \/ \E h \in Handlers : OpenDispute(h)
  \/ \E h \in Handlers, m \in Messages : PostMessage(h, m)
  \/ \E h \in Handlers : ResolveDispute(h)
  \/ \E h \in Handlers : Work(h)
  \/ \E s \in Streams : CheckViewer(s)
  \/ \E s \in Streams : Subscribe(s)
  \/ \E s \in Streams : Deliver(s)
  \/ \E s \in Streams : Disconnect(s)
  \/ \E p \in Processes : Crash(p)

(***************************************************************************)
(* A handler goes on, since Firestore's client answers or times out; and a *)
(* callback that is ready has its turn on the loop, which runs them in     *)
(* order.                                                                  *)
(***************************************************************************)
Fairness ==
  /\ \A h \in Handlers : WF_vars(Work(h))
  /\ \A s \in Streams : SF_vars(Deliver(s))

Spec == Init /\ [][Next]_vars /\ Fairness

-----------------------------------------------------------------------------

\* Each variable has its type.
TypeOK ==
  /\ dispute \in {"none", "open", "resolved"}
  /\ thread \in {"none", "open", "resolved"}
  /\ stored \in Seq(Messages)
  /\ confirmed \subseteq Messages
  /\ step \in [Handlers -> {"idle", "create", "store", "publish", "mark", "announce"}]
  /\ msg \in [Handlers -> Messages \cup {None}]
  /\ loop \in [Processes -> Handlers \cup {None}]
  /\ published \in [Processes -> Seq(Events)]
  /\ subscribers \in [Processes -> SUBSET Streams]
  /\ conn \in [Streams -> {"new", "checked", "open", "gone"}]
  /\ watched \in [Streams -> {"none", "open", "resolved"}]
  /\ from \in [Streams -> Nat]
  /\ queue \in [Streams -> Seq(Events)]
  /\ sent \in [Streams -> Seq(Events)]
  /\ crashes \in 0..MaxCrashes

T == INSTANCE Thread WITH status <- dispute, posts <- stored

\* The dispute's row and the messages in Firestore behave as one thread: no
\* message is stored after the resolution has committed, or twice, or without
\* a dispute, although nothing but the event loop keeps a posting and a
\* resolution apart.
KeepsThread == T!Spec

\* A message that was answered with 201 is in Firestore, whatever failed.
ConfirmedIsStored == \A m \in confirmed : Stored(m)

\* e comes before f in the thread.
Before(e, f) ==
  \/ e # Resolved /\ f = Resolved
  \/ \E i, j \in 1..Len(stored) : i < j /\ stored[i] = e /\ stored[j] = f

\* Events are published in the order of the thread: messages as they were
\* stored, and the resolution after all of them.
AnnouncedInOrder ==
  \A p \in Processes : \A i, j \in 1..Len(published[p]) :
    i < j => Before(published[p][i], published[p][j])

\* A client that watches gets every event that was published since it
\* subscribed, once and in order, whoever else comes and goes.
StreamsExact ==
  \A s \in Streams :
    LET events == published[ProcessOf[s]] IN
    conn[s] = "open" => sent[s] \o queue[s] = SubSeq(events, from[s] + 1, Len(events))

\* A thread that is marked as resolved in Firestore is never shown as open
\* again: the document that opening sets does not arrive after the mark.
ThreadClosedForGood == [][thread = "resolved" => thread' = "resolved"]_vars

Told(s) == Contains(sent[s], Resolved)

\* Whoever watched the dispute when it was ruled on is told, or loses the
\* connection (the client leaves or the process dies), whether or not Firestore
\* could be reached.
WatchersTold ==
  \A s \in Streams :
    (dispute = "resolved" /\ conn[s] = "open" /\ watched[s] = "open")
      ~> (Told(s) \/ conn[s] = "gone")

=============================================================================
