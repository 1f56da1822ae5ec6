-------------------------- MODULE MCStatementCache --------------------------
(***************************************************************************)
(* A small instance of StatementCache: two pages, two readers.             *)
(***************************************************************************)
EXTENDS StatementCache, TLC

CONSTANTS p1, p2, r1, r2

=============================================================================
