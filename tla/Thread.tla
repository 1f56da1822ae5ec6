------------------------------- MODULE Thread -------------------------------
(***************************************************************************)
(* What the thread of one dispute promises: messages are added at its end  *)
(* while the dispute is open, and nothing after it is resolved.            *)
(***************************************************************************)
EXTENDS Naturals, Sequences

CONSTANTS Messages

VARIABLES
  status,       \* "none", "open", "resolved"
  posts         \* messages of the thread, in the order they came

tvars == <<status, posts>>

Init ==
  /\ status = "none"
  /\ posts = <<>>

Open ==
  /\ status = "none"
  /\ status' = "open"
  /\ UNCHANGED posts

Post(m) ==
  /\ status = "open"
  /\ \A i \in 1..Len(posts) : posts[i] # m
  /\ posts' = Append(posts, m)
  /\ UNCHANGED status

Resolve ==
  /\ status = "open"
  /\ status' = "resolved"
  /\ UNCHANGED posts

Next ==
  \/ Open
  \/ \E m \in Messages : Post(m)
  \/ Resolve

Spec == Init /\ [][Next]_tvars

=============================================================================
