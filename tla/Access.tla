------------------------------- MODULE Access -------------------------------
(***************************************************************************)
(* Who may enter a handler of a user's route: VerifiedUserGuard and the    *)
(* strategy behind it.  A token says who its bearer is and of what type it *)
(* is; whether the account may still use the service is read from the      *)
(* database at every request, since another service writes it meanwhile.   *)
(***************************************************************************)
CONSTANTS User,      \* the accounts
          Managed,   \* those that the platform changes while the model runs
          Rows       \* what it changes them to, of Account

Account == {"enabled", "deactivated", "unverified", "absent"}

ASSUME ManagedAssumption == Managed \subseteq User
ASSUME RowsAssumption == Rows \subseteq Account

VARIABLE account     \* what the row of user says, by user

AccountsOK == account \in [User -> Account]

\* Variant: isActive is not looked at.
ValidateVerifiedOnly(u) == account[u] \in {"enabled", "deactivated"}

\* validate(): the account is there, is active and has a verified identity.  A
\* request whose token is missing, expired, forged or limited has been refused
\* before this query and leaves no trace.
Validate(u) == account[u] = "enabled"

\* The platform's account and identity services change the row.
ChangeAccount(u, a) ==
    /\ u \in Managed /\ a \in Rows
    /\ account[u] # a
    /\ account' = [account EXCEPT ![u] = a]
=============================================================================
