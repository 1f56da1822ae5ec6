--------------------------- MODULE MCDisputeThread ---------------------------
(***************************************************************************)
(* A small instance of DisputeThread: one server process, as the           *)
(* Dockerfile starts it.                                                   *)
(***************************************************************************)
EXTENDS DisputeThread, TLC

CONSTANTS m1, m2, h1, h2, s1, s2, p1

OneProcess == [x \in Handlers \cup Streams |-> p1]

=============================================================================
