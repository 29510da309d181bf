------------------------------ MODULE Accounts ------------------------------
(***************************************************************************)
(* The dashboard's accounts, apps/api-rs/src/accounts.rs and the parts of  *)
(* auth.rs that create and use them: rows of users with a role, sessions   *)
(* that refer to them, handlers that run at the same time over one pool of *)
(* connections, each statement a step of its own.  The process may stop at *)
(* any step; when it starts it imports the legacy accounts and, when there *)
(* is no account at all, creates the first administrator.                  *)
(*                                                                         *)
(* Passwords, rate limits, cookies and the lifetime of a session are left  *)
(* out: a session may end at any time.                                     *)
(***************************************************************************)
EXTENDS Naturals, FiniteSets

CONSTANTS Users,      \* the names
          First,      \* "admin", the name of the first administrator
          LegacyFiles,\* the users.json there may be: each account's role, None: not in it
          Removals,   \* remove_user requests that may run at the same time
          Logins,     \* login requests that may
          None

Roles == {"admin", "viewer"}

ASSUME AccountsAssumption ==
  /\ First \in Users /\ IsFiniteSet(Users) /\ None \notin Roles /\ None \notin Users
  /\ LegacyFiles \subseteq [Users -> Roles \cup {None}]

VARIABLES legacy,     \* the users.json of this installation
          role,       \* users: the role of each account, None when there is none
          sessions,   \* the accounts that have a session
          up,         \* the API serves
          removal,    \* where each remove_user is, for whom, and whom it removes
          login,      \* the account whose password a login has checked
          raced       \* history: two removals had both counted the administrators

accountsVars == <<legacy, role, sessions, up, removal, login, raced>>

Accounts == {u \in Users : role[u] # None}
Admins   == {u \in Users : role[u] = "admin"}
Idle     == [at |-> "idle", target |-> None]

AccountsInit ==
  /\ legacy \in LegacyFiles
  /\ role = [u \in Users |-> None]
  /\ sessions = {}
  /\ up = FALSE
  /\ removal = [h \in Removals |-> Idle]
  /\ login = [h \in Logins |-> None]
  /\ raced = FALSE

(***************************************************************************)
(* main: import_legacy_users inserts the accounts of users.json that are   *)
(* not there, ensure_initial_admin the first one when there is none (and   *)
(* without ADMIN_PASSWORD the start fails, which is no step).              *)
(***************************************************************************)
StartUp ==
  /\ ~up /\ up' = TRUE
  /\ LET imported == [u \in Users |-> IF role[u] = None THEN legacy[u] ELSE role[u]]
     IN role' = IF \A u \in Users : imported[u] = None
                THEN [imported EXCEPT ![First] = "admin"] ELSE imported
  /\ UNCHANGED <<legacy, sessions, removal, login, raced>>

\* The process stops: its requests are gone, the database is not.
Stop ==
  /\ up /\ up' = FALSE
  /\ removal' = [h \in Removals |-> Idle]
  /\ login' = [h \in Logins |-> None]
  /\ UNCHANGED <<legacy, role, sessions, raced>>

\* login has found the account and checked its password.
CheckPassword(h, u) ==
  /\ up /\ login[h] = None /\ role[u] # None
  /\ login' = [login EXCEPT ![h] = u]
  /\ UNCHANGED <<legacy, role, sessions, up, removal, raced>>

\* Mutant: the reference of a session to its account is not enforced.
CreateSession_NoReference(h) ==
  /\ login[h] # None
  /\ sessions' = sessions \cup {login[h]}
  /\ login' = [login EXCEPT ![h] = None]
  /\ UNCHANGED <<legacy, role, up, removal, raced>>

\* create_session: the reference to users makes the INSERT fail when the
\* account was removed meanwhile.
CreateSession(h) ==
  /\ login[h] # None
  /\ sessions' = IF role[login[h]] # None THEN sessions \cup {login[h]} ELSE sessions
  /\ login' = [login EXCEPT ![h] = None]
  /\ UNCHANGED <<legacy, role, up, removal, raced>>

\* logout, or the session's time is over.
EndSession(u) ==
  /\ u \in sessions
  /\ sessions' = sessions \ {u}
  /\ UNCHANGED <<legacy, role, up, removal, login, raced>>

\* create_user, by an administrator; a name that exists is refused, by the
\* SELECT or by the primary key, so the check and the INSERT are one step.
CreateUser(by, u, r) ==
  /\ up /\ by \in sessions /\ role[by] = "admin"
  /\ role[u] = None
  /\ role' = [role EXCEPT ![u] = r]
  /\ UNCHANGED <<legacy, sessions, up, removal, login, raced>>

\* remove_user: authorized_user, and not one's own account.
Authorize(h, by, u) ==
  /\ up /\ removal[h] = Idle
  /\ by \in sessions /\ role[by] = "admin" /\ u # by
  /\ removal' = [removal EXCEPT ![h] = [at |-> "role", target |-> u]]
  /\ UNCHANGED <<legacy, role, sessions, up, login, raced>>

\* SELECT role: nobody there is answered with 404.
ReadRole(h) ==
  /\ removal[h].at = "role"
  /\ removal' = [removal EXCEPT ![h] =
       CASE role[removal[h].target] = None     -> Idle
         [] role[removal[h].target] = "viewer" -> [@ EXCEPT !.at = "delete"]
         [] role[removal[h].target] = "admin"  -> [@ EXCEPT !.at = "count"]]
  /\ UNCHANGED <<legacy, role, sessions, up, login, raced>>

\* Mutant: one administrator left is enough to remove one.
CountAdmins_AtLeastOne(h) ==
  /\ removal[h].at = "count"
  /\ removal' = [removal EXCEPT ![h] =
       IF Cardinality(Admins) < 1 THEN Idle ELSE [@ EXCEPT !.at = "delete"]]
  /\ raced' = (raced \/ \E g \in Removals \ {h} : removal[g].at = "delete")
  /\ UNCHANGED <<legacy, role, sessions, up, login>>

\* SELECT COUNT(*): the last administrator stays.
CountAdmins(h) ==
  /\ removal[h].at = "count"
  /\ removal' = [removal EXCEPT ![h] =
       IF Cardinality(Admins) <= 1 THEN Idle ELSE [@ EXCEPT !.at = "delete"]]
  /\ raced' = (raced \/ \E g \in Removals \ {h} : removal[g].at = "delete")
  /\ UNCHANGED <<legacy, role, sessions, up, login>>

\* DELETE FROM users: the sessions go with the account.
DeleteUser(h) ==
  /\ removal[h].at = "delete"
  /\ role' = [role EXCEPT ![removal[h].target] = None]
  /\ sessions' = sessions \ {removal[h].target}
  /\ removal' = [removal EXCEPT ![h] = Idle]
  /\ UNCHANGED <<legacy, up, login, raced>>

AccountsNext ==
  \/ StartUp \/ Stop
  \/ \E h \in Logins, u \in Users : CheckPassword(h, u)
  \/ \E h \in Logins : CreateSession(h)
  \/ \E u \in Users : EndSession(u)
  \/ \E by, u \in Users, r \in Roles : CreateUser(by, u, r)
  \/ \E h \in Removals, by, u \in Users : Authorize(h, by, u)
  \/ \E h \in Removals : ReadRole(h) \/ CountAdmins(h) \/ DeleteUser(h)

AccountsSpec == AccountsInit /\ [][AccountsNext]_accountsVars

-----------------------------------------------------------------------------
AccountsTypeOK ==
  /\ legacy \in LegacyFiles
  /\ role \in [Users -> Roles \cup {None}]
  /\ sessions \subseteq Users
  /\ up \in BOOLEAN /\ raced \in BOOLEAN
  /\ removal \in [Removals -> [at : {"idle", "role", "count", "delete"},
                               target : Users \cup {None}]]
  /\ login \in [Logins -> Users \cup {None}]

(***************************************************************************)
(* Safety: a session belongs to an account that exists, although a login   *)
(* and the removal of its account run at the same time (create_session,    *)
(* remove_user and the reference between their tables).                    *)
(***************************************************************************)
SessionHasAccount == sessions \subseteq Accounts

(***************************************************************************)
(* Safety: a dashboard that serves has an administrator, whether there is  *)
(* a legacy file with one or no legacy account at all, unless two removals *)
(* ran between each other's count and delete.  (Legacy accounts that are   *)
(* all viewers keep ensure_initial_admin from making one.)                 *)
(***************************************************************************)
LegacyOfViewers ==
  (\E u \in Users : legacy[u] # None) /\ \A u \in Users : legacy[u] # "admin"

AdminUnlessRaced == up /\ ~raced /\ ~LegacyOfViewers => Admins # {}
=============================================================================
