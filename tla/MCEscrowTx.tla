----------------------------- MODULE MCEscrowTx -----------------------------
(***************************************************************************)
(* Small instances of EscrowTx: one contract of two milestones, two or     *)
(* three requests at a time.  Half of the first milestone's amount rounds  *)
(* to zero, so that a ruling may leave nothing to pay out.                 *)
(***************************************************************************)
EXTENDS EscrowTx, TLC

CONSTANTS c1, m1, m2, s1, s2, s3, p1, p2

MCContracts == {c1}
MCMilestones == {m1, m2}
MCContractOf == m1 :> c1 @@ m2 :> c1
MCAmount == m1 :> 1 @@ m2 :> 2
MCPercents == {50}
MCPaidAmounts == c1 :> {3}

\* One milestone, perhaps funded through the API only.
OneMilestone == {m2}
OneContractOf == m2 :> c1
OneAmount == m2 :> 2
OnePaidAmount == c1 :> {2}
NoEvents == c1 :> {}

\* One process, as the Dockerfile starts it, or one for each of two requests.
TwoSlots == {s1, s2}
OneProcess == s1 :> p1 @@ s2 :> p1
ProcessEach == s1 :> p1 @@ s2 :> p2

ThreeSlots == {s1, s2, s3}
OneProcessOfThree == s1 :> p1 @@ s2 :> p1 @@ s3 :> p1

Unprotected == {"submit", "webhook"}

=============================================================================
