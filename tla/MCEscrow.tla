------------------------------ MODULE MCEscrow ------------------------------
(***************************************************************************)
(* Small instances of Escrow: one contract of two milestones beside one of *)
(* a single milestone.  The amounts 3 and 2 make a 50 percent ruling round *)
(* once and not the other time; 0 and 100 are the boundaries.              *)
(***************************************************************************)
EXTENDS Escrow, TLC

CONSTANTS c1, c2, m1, m2, m3

MCContracts == {c1, c2}
MCMilestones == {m1, m2, m3}
MCContractOf == m1 :> c1 @@ m2 :> c1 @@ m3 :> c2
MCAmount == m1 :> 3 @@ m2 :> 2 @@ m3 :> 1
\* Sum counts units; it agrees with the community modules' sum of values.
FSX == INSTANCE FiniteSetsExt
ASSUME SumIsSum ==
  \A S \in SUBSET MCMilestones :
    Sum(MCAmount, S) = FSX!MapThenSumSet(LAMBDA m : MCAmount[m], S)

MCPercents == {0, 50, 100}

\* An event may report one unit less than the total, the total, or more.
MCAnyAmount == c1 :> {4, 5, 6} @@ c2 :> {1, 2}

=============================================================================
