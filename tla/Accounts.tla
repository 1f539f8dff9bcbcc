------------------------------ MODULE Accounts ------------------------------
(***************************************************************************)
(* Accounts and sessions: app/auth/__init__.py, app/auth/perms.py and the  *)
(* user handlers of app/settings/__init__.py.  A request reads the row and *)
(* the permissions of its account before its transaction and goes by what  *)
(* it read (g.user, g.perms).  Passwords, lock-out after failed logins,    *)
(* names and category scopes are left out.                                 *)
(***************************************************************************)
EXTENDS Naturals, FiniteSets

CONSTANTS
  Staff,      \* users.id
  Perms,      \* PERM_CODES
  Callers,   \* requests in flight
  Nobody     \* a request that does not run

ASSUME ManageIsPerm == "users.manage" \in Perms
ASSUME NobodyIsNone == Nobody \notin Staff

VARIABLES
  account,    \* users with user_perms
  sessions,   \* accounts with a row in sessions
  caller      \* what each request in flight has read of its account

accountVars == <<account, sessions, caller>>

NoAccount == [exists |-> FALSE, admin |-> FALSE, enabled |-> FALSE, perms |-> {}]
NotCalled == [as |-> Nobody, admin |-> FALSE, perms |-> {}]

AccountsOK ==
  /\ account \in [Staff -> [exists : BOOLEAN, admin : BOOLEAN, enabled : BOOLEAN,
                             perms : SUBSET Perms]]
  /\ sessions \subseteq Staff
  /\ caller \in [Callers -> [as : Staff \cup {Nobody}, admin : BOOLEAN, perms : SUBSET Perms]]

Known == {p \in Staff : account[p].exists}
Usable(p) == account[p].exists /\ account[p].enabled
-----------------------------------------------------------------------------
\* the gate before every handler: load_session drops the session of a disabled account
Call(c, p) ==
  /\ caller[c].as = Nobody
  /\ p \in sessions
  /\ IF Usable(p)
     THEN /\ caller' = [caller EXCEPT ![c] = [as |-> p, admin |-> account[p].admin,
                                              perms |-> account[p].perms]]
          /\ UNCHANGED sessions
     ELSE sessions' = sessions \ {p} /\ UNCHANGED caller
  /\ UNCHANGED account

\* the request ends, whatever it did or was refused
Ends(c) == caller' = [caller EXCEPT ![c] = NotCalled]
GiveUp(c) == caller[c].as # Nobody /\ Ends(c) /\ UNCHANGED <<account, sessions>>

MayManage(c) == /\ caller[c].as # Nobody
                /\ caller[c].admin \/ "users.manage" \in caller[c].perms

\* _require_admin_for_admin_target
MayTouch(c, p) == p \in Known /\ (account[p].admin => caller[c].admin)

\* _check_grantable
Grantable(c, perms, p) ==
  caller[c].admin \/ (p # caller[c].as /\ perms \subseteq caller[c].perms)

NotLastAdminDisabled(p) == \E q \in Known \ {p} : account[q].admin    \* mutant
\* _assert_not_last_admin
NotLastAdmin(p) == \E q \in Known \ {p} : account[q].admin /\ account[q].enabled
-----------------------------------------------------------------------------
\* the first account is an administrator, and there is only one first account
Setup(p) ==
  /\ Known = {}
  /\ account' = [account EXCEPT ![p] = [exists |-> TRUE, admin |-> TRUE, enabled |-> TRUE,
                                        perms |-> {}]]
  /\ sessions' = sessions \cup {p}
  /\ UNCHANGED caller

Login(p) ==
  /\ Usable(p)
  /\ sessions' = sessions \cup {p}
  /\ UNCHANGED <<account, caller>>

\* logout, and a session that expires
Logout(p) == sessions' = sessions \ {p} /\ UNCHANGED <<account, caller>>

CreateUser(c, p, admin, perms) ==
  /\ MayManage(c)
  /\ admin => caller[c].admin
  /\ Grantable(c, perms, p)
  /\ p \notin Known
  /\ account' = [account EXCEPT ![p] = [exists |-> TRUE, admin |-> admin, enabled |-> TRUE,
                                        perms |-> perms]]
  /\ Ends(c)
  /\ UNCHANGED sessions

\* update_user: the fields of one request one after the other, all guards on the row as it was
\* at the beginning of the transaction
UpdateUser(c, p, enabled, admin) ==
  LET was == account[p] IN
  /\ MayManage(c) /\ MayTouch(c, p)
  /\ ~enabled /\ was.admin => NotLastAdmin(p)
  /\ admin # was.admin => caller[c].admin
  /\ ~admin /\ was.admin => NotLastAdmin(p)
  /\ account' = [account EXCEPT ![p].enabled = enabled, ![p].admin = admin]
  /\ sessions' = IF enabled THEN sessions ELSE sessions \ {p}
  /\ Ends(c)

\* a new password for somebody who may not do more than the caller
ResetPassword(c, p) ==
  /\ MayManage(c) /\ MayTouch(c, p)
  /\ caller[c].admin \/ (p # caller[c].as /\ account[p].perms \subseteq account[caller[c].as].perms)
  /\ sessions' = sessions \ {p}
  /\ Ends(c)
  /\ UNCHANGED account

DeleteUser(c, p) ==
  /\ MayManage(c) /\ MayTouch(c, p)
  /\ p # caller[c].as
  /\ account[p].admin => NotLastAdmin(p)
  /\ Known # {p}
  /\ account' = [account EXCEPT ![p] = NoAccount]
  /\ sessions' = sessions \ {p}
  /\ Ends(c)

SetUserPerms(c, p, perms) ==
  /\ MayManage(c) /\ Grantable(c, perms, p) /\ MayTouch(c, p)
  /\ account' = [account EXCEPT ![p].perms = perms]
  /\ Ends(c)
  /\ UNCHANGED sessions

AccountNext ==
  \/ \E p \in Staff : Setup(p) \/ Login(p) \/ Logout(p)
  \/ \E c \in Callers :
       \/ GiveUp(c)
       \/ \E p \in Staff :
            \/ Call(c, p) \/ ResetPassword(c, p) \/ DeleteUser(c, p)
            \/ \E admin \in BOOLEAN, enabled \in BOOLEAN : UpdateUser(c, p, enabled, admin)
            \/ \E perms \in SUBSET Perms :
                 \/ SetUserPerms(c, p, perms)
                 \/ \E admin \in BOOLEAN : CreateUser(c, p, admin, perms)

AccountInit ==
  /\ account = [p \in Staff |-> NoAccount]
  /\ sessions = {}
  /\ caller = [c \in Callers |-> NotCalled]

AccountSpec == AccountInit /\ [][AccountNext]_accountVars
-----------------------------------------------------------------------------
\* Once set up, the program always has an administrator who can log in: two of them that
\* demote, disable or delete each other at once, each by what it read before, do not lock
\* everybody out (_assert_not_last_admin inside the transaction)
AdminRemains == Known # {} => \E p \in Known : account[p].admin /\ account[p].enabled
=============================================================================
