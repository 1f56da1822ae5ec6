----------------------------- MODULE MCAccounts ------------------------------
(***************************************************************************)
(* A small instance of Accounts: three emails, one of them that of the     *)
(* seed's admin, which somebody may register first.                        *)
(***************************************************************************)
EXTENDS Accounts, TLC

CONSTANTS e1, e2, e3, h1, h2

Form(email, role) == [email |-> email, role |-> role]

\* One registration asks for a role that it cannot have.
MCPublicForms ==
  {Form(e1, "client"), Form(e2, "freelancer"), Form(e3, "client"), Form(e3, "arbiter")}
MCAdminForms == {Form(e1, "arbiter"), Form(e2, "finance")}
MCSeedForms == {Form(e3, "admin")}

\* Handlers take any request.
Interchangeable == Permutations(Handlers)

=============================================================================
