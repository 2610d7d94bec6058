------------------------------ MODULE Accounts ------------------------------
(***************************************************************************)
(* The accounts of the lab and who may change them                         *)
(* (dml_core/services/auth_service.py, user_service.py,                    *)
(* dml_web/routers/admin_users.py and the start-up in dml_web/main.py).    *)
(*                                                                         *)
(* The bootstrap administrator is whoever the environment names when the   *)
(* program starts: a restart may name another account, one that exists or  *)
(* not.  Only that account makes and unmakes administrators.  An action    *)
(* stands for the whole request, made by the administrator `actor`; a      *)
(* request the code refuses is an action that is not enabled.  Passwords   *)
(* are not data here: who knows one is left to whoever signs in.           *)
(***************************************************************************)
EXTENDS Naturals

CONSTANTS
  Names,     \* usernames
  MaxUsers,  \* bound: account ids are 1..MaxUsers
  NoUser     \* an id with no row

ASSUME MaxUsersAssumption == MaxUsers \in Nat

Ids == 1..MaxUsers
User == [name : Names, admin : BOOLEAN, active : BOOLEAN]
ASSUME NoUserAssumption == NoUser \notin User

VARIABLES
  users,  \* users table
  boot    \* WEB_ADMIN_USERNAME of the running process

accountVars == <<users, boot>>

Exists(i) == users[i] # NoUser
IsBootstrapAdmin(i) == users[i].name = boot
SignsIn(i) == Exists(i) /\ users[i].active
TakenByActive(n) ==  \* a slip: deactivated accounts are forgotten
  \E i \in Ids : SignsIn(i) /\ users[i].name = n
Taken(n) == \E i \in Ids : Exists(i) /\ users[i].name = n

(* The active administrators, and among them the one of the environment.   *)
Admins == {i \in Ids : SignsIn(i) /\ users[i].admin}
BootAdmins == {i \in Admins : IsBootstrapAdmin(i)}

(* INTEGER PRIMARY KEY without AUTOINCREMENT: one more than the largest.   *)
IsNewId(i) == \A j \in Ids : /\ j >= i => ~Exists(j)
                             /\ j = i - 1 => Exists(j)

CreatedAs(n, admin) ==
  \E i \in Ids :
    /\ IsNewId(i)
    /\ users' = [users EXCEPT ![i] =
                   [name |-> n, admin |-> admin, active |-> TRUE]]

AccountsInit == users = [i \in Ids |-> NoUser] /\ boot \in Names

(* Start of the process.  An account that already has the name is left as  *)
(* it is, administrator or not; without a password nothing is seeded.      *)
Start(n, password) ==
  /\ boot' = n
  /\ IF password /\ ~Taken(n) THEN CreatedAs(n, TRUE) ELSE UNCHANGED users

CreateUser(actor, n) ==
  /\ actor \in Admins /\ ~Taken(n)
  /\ CreatedAs(n, FALSE)
  /\ UNCHANGED boot

SetActiveByAnyone(actor, i, on) ==  \* a slip: the bootstrap's own row too
  /\ actor \in Admins /\ Exists(i)
  /\ ~on /\ users[i].admin => actor \in BootAdmins
  /\ users' = [users EXCEPT ![i].active = on]
  /\ UNCHANGED boot
SetActive(actor, i, on) ==
  /\ actor \in Admins /\ Exists(i)
  /\ ~on /\ users[i].admin => ~IsBootstrapAdmin(i) /\ actor \in BootAdmins
  /\ users' = [users EXCEPT ![i].active = on]
  /\ UNCHANGED boot

(* The head count of the last guard is kept as the code has it.            *)
SetAdmin(actor, i, on) ==
  /\ actor \in Admins /\ Exists(i)
  /\ on # users[i].admin => actor \in BootAdmins
  /\ ~on /\ users[i].admin => /\ ~IsBootstrapAdmin(i)
                              /\ users[i].active => Admins \ {i} # {}
  /\ users' = [users EXCEPT ![i].admin = on]
  /\ UNCHANGED boot

DeleteAccount(actor, i) ==
  /\ actor \in Admins /\ Exists(i)
  /\ ~IsBootstrapAdmin(i)
  /\ users[i].admin => actor \in BootAdmins
  /\ users' = [users EXCEPT ![i] = NoUser]
  /\ UNCHANGED boot

AccountsNext ==
  \/ \E n \in Names, password \in BOOLEAN : Start(n, password)
  \/ \E actor \in Ids, n \in Names : CreateUser(actor, n)
  \/ \E actor, i \in Ids, on \in BOOLEAN : SetActive(actor, i, on)
  \/ \E actor, i \in Ids, on \in BOOLEAN : SetAdmin(actor, i, on)
  \/ \E actor, i \in Ids : DeleteAccount(actor, i)

AccountsSpec == AccountsInit /\ [][AccountsNext]_accountVars

-----------------------------------------------------------------------------
(* Properties                                                              *)

AccountsTypeOK ==
  /\ users \in [Ids -> User \cup {NoUser}]
  /\ boot \in Names

(* No two accounts share a username: sign-in and the bootstrap test look   *)
(* accounts up by it.                                                      *)
NamesUnique ==
  \A i, j \in Ids :
    Exists(i) /\ Exists(j) /\ users[i].name = users[j].name => i = j

(* The lab is never locked out: once somebody is an active administrator,  *)
(* somebody always is, whatever restarts, revocations and deletions.       *)
AdminRemains == [][Admins # {} => Admins' # {}]_accountVars

(* The administrator the environment names is not touched by any request:  *)
(* only a restart that names another account ends its protection.          *)
BootstrapIsSafe == [][boot' = boot => BootAdmins \subseteq BootAdmins']_accountVars

(* The buttons of the administrator's page of users                        *)
(* (web/frontend/src/pages/admin/AdminUsersPage.tsx:66-71 and 394-423),    *)
(* for an administrator `actor` who looks at the row of account i.         *)
CannotDeleteBootstrap(actor, i) ==  \* a slip: whoever looks
  users[i].admin /\ IsBootstrapAdmin(i)
CannotDelete(actor, i) ==
  users[i].admin /\ (IsBootstrapAdmin(i) \/ ~IsBootstrapAdmin(actor))
CannotDeactivate(actor, i) ==
  users[i].admin /\ (IsBootstrapAdmin(i) \/ ~IsBootstrapAdmin(actor))
CannotChangeAdminFlag(actor, i) == IsBootstrapAdmin(i) \/ ~IsBootstrapAdmin(actor)

(* The buttons offer what the server accepts and nothing else, as long as  *)
(* the row on screen is that of the table.  The exception is a bootstrap   *)
(* account that is no administrator, which a restart with the name of an   *)
(* existing student makes: its Delete button is answered with a refusal.   *)
ButtonsAgree ==
  \A actor \in Admins, i \in Ids :
    Exists(i) /\ (IsBootstrapAdmin(i) => users[i].admin) =>
      /\ CannotDelete(actor, i) <=> ~ENABLED DeleteAccount(actor, i)
      /\ (users[i].active /\ CannotDeactivate(actor, i))
           <=> ~ENABLED SetActive(actor, i, ~users[i].active)
      /\ CannotChangeAdminFlag(actor, i)
           <=> ~ENABLED SetAdmin(actor, i, ~users[i].admin)
=============================================================================
