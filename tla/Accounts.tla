------------------------------- MODULE Accounts -------------------------------
(***************************************************************************)
(* Users, their sessions and password resets (services/authentication.py,  *)
(* services/users.py, repositories/users.py and the routes auth and        *)
(* users).  A session is a refresh token; access tokens are not stored,    *)
(* every request reads its user again.                                     *)
(*                                                                         *)
(* A request reads and decides, then writes and commits in one step, and   *)
(* then adds its entry to the audit trail in a transaction of its own.     *)
(* Requests that are refused change nothing but the entry of a refused     *)
(* login, which is left out.  Password hashes and token strings are        *)
(* numbers that differ when the secrets do.                                *)
(***************************************************************************)
EXTENDS Naturals, Sequences, FiniteSets, UnitOfWork

CONSTANTS
    Users,        \* e-mail addresses
    Founder,      \* the administrator the company starts with
    Roles,
    Requests,     \* concurrent requests
    MaxTokens,    \* bound: refresh tokens
    MaxResets,    \* bound: password reset tokens
    MaxChanges    \* bound: changes to users, and crashes

VARIABLES
    users,       \* the users table: one row for each address
    tokens,      \* refresh_tokens, in the order of their commit
    resets,      \* password_reset_tokens
    request,     \* the local state of every request
    changes,     \* changes and crashes so far
    unrecorded,  \* committed changes without an entry in the audit trail
    died         \* requests that died between the commit and the entry

vars == <<users, tokens, resets, request, changes, unrecorded, died>>

NoUser == [company |-> "none", role |-> "none", active |-> FALSE, password |-> 0]

NoRequest == [pc |-> "free"]

Member(company, role, active) ==
    [company |-> company, role |-> role, active |-> active, password |-> 0]

\* The company has its first administrator, and may have other members.
Init ==
    /\ users \in [Users -> {NoUser} \cup {Member("shared", role, active) :
                                          role \in Roles, active \in BOOLEAN}]
    /\ users[Founder] = Member("shared", "admin", TRUE)
    /\ tokens = <<>> /\ resets = <<>>
    /\ request = [r \in Requests |-> NoRequest]
    /\ changes = 0 /\ unrecorded = 0 /\ died = 0

ActiveAdmins == {u \in Users : users[u].company = "shared" /\ users[u].role = "admin"
                               /\ users[u].active}

Begin(r, record) ==
    /\ request[r] = NoRequest
    /\ request' = [request EXCEPT ![r] = record]
    /\ UNCHANGED <<users, tokens, resets, changes, unrecorded, died>>

\* The commit of a request, whose audit entry is still to be written.
Commit(r) ==
    /\ request' = [request EXCEPT ![r] = [pc |-> "audit"]]
    /\ unrecorded' = unrecorded + 1
    /\ UNCHANGED died

Change == changes' = changes + 1

\* The bounds leave room for what is under way.
UnderWay(pcs) == Cardinality({r \in Requests : request[r].pc \in pcs})

RoomForToken == Len(tokens) + UnderWay({"login", "refresh"}) < MaxTokens

RoomForChange == changes + UnderWay({"password", "reset", "update"}) < MaxChanges

-----------------------------------------------------------------------------
(* Sessions. *)

\* began: how many tokens there were when the request read its rows.
Issue(list, u, parent, began) ==
    Append(list, [user |-> u, revoked |-> FALSE, parent |-> parent, began |-> began])

RevokeNewest(list, u) ==
    [i \in DOMAIN list |->
        IF i = Len(list) /\ list[i].user = u THEN [list[i] EXCEPT !.revoked = TRUE] ELSE list[i]]

revoke_user_refresh_tokens(list, u) ==
    [i \in DOMAIN list |->
        IF list[i].user = u THEN [list[i] EXCEPT !.revoked = TRUE] ELSE list[i]]

\* login reads the user and verifies the password ...
ReadLogin(r) ==
    /\ RoomForToken
    /\ \E u \in Users :
         /\ users[u].active
         /\ Begin(r, [pc |-> "login", user |-> u, parent |-> 0, began |-> Len(tokens)])

\* ... and issues a pair of tokens.
login(r) ==
    /\ request[r].pc = "login"
    /\ tokens' = Issue(tokens, request[r].user, 0, request[r].began)
    /\ Commit(r)
    /\ UNCHANGED <<users, resets, changes>>

UsableAlways(i) == TRUE

\* An expired token is as good as a revoked one.
Usable(i) == ~tokens[i].revoked

ReadRefresh(r) ==
    /\ RoomForToken
    /\ \E i \in DOMAIN tokens :
         /\ Usable(i) /\ users[tokens[i].user].active
         /\ Begin(r, [pc |-> "refresh", user |-> tokens[i].user, parent |-> i,
                      began |-> Len(tokens)])

\* The rotation: the token that was read is revoked, whatever it is by now.
refresh(r) ==
    /\ request[r].pc = "refresh"
    /\ tokens' = Issue([tokens EXCEPT ![request[r].parent].revoked = TRUE],
                       request[r].user, request[r].parent, request[r].began)
    /\ Commit(r)
    /\ UNCHANGED <<users, resets, changes>>

\* logout, which accepts a revoked token, and revoke_session.
logout(r) ==
    /\ request[r] = NoRequest
    /\ \E i \in DOMAIN tokens : tokens' = [tokens EXCEPT ![i].revoked = TRUE]
    /\ Commit(r)
    /\ UNCHANGED <<users, resets, changes>>

\* All sessions of a user but the one that is named.
revoke_other_sessions(r) ==
    /\ request[r] = NoRequest
    /\ \E i \in DOMAIN tokens :
         /\ ~tokens[i].revoked /\ users[tokens[i].user].active
         /\ tokens' = [revoke_user_refresh_tokens(tokens, tokens[i].user) EXCEPT ![i] = tokens[i]]
    /\ Commit(r)
    /\ UNCHANGED <<users, resets, changes>>

-----------------------------------------------------------------------------
(* Passwords. *)

\* The session's user is read and the current password verified.
ReadPassword(r) ==
    /\ RoomForChange
    /\ \E u \in Users :
         /\ users[u].active
         /\ Begin(r, [pc |-> "password", user |-> u, read |-> users[u]])

\* changes is a password that nobody had before.
NewPassword(u, read) ==
    [users EXCEPT ![u] = Flush(@, read, [read EXCEPT !.password = changes + 1])]

change_password(r) ==
    /\ request[r].pc = "password"
    /\ Change
    /\ users' = NewPassword(request[r].user, request[r].read)
    /\ tokens' = revoke_user_refresh_tokens(tokens, request[r].user)
    /\ Commit(r)
    /\ UNCHANGED resets

\* By the user, or for a user by an administrator of the company.
initiate_password_reset(r) ==
    /\ request[r] = NoRequest /\ Len(resets) < MaxResets
    /\ \E u \in Users :
         /\ users[u].active
         /\ resets' = Append(resets, [user |-> u, used |-> FALSE])
    /\ Commit(r)
    /\ UNCHANGED <<users, tokens, changes>>

\* An expired reset token is as good as a used one.
ReadReset(r) ==
    /\ RoomForChange
    /\ \E i \in DOMAIN resets :
         /\ ~resets[i].used /\ users[resets[i].user].active
         /\ Begin(r, [pc |-> "reset", user |-> resets[i].user, read |-> users[resets[i].user],
                      token |-> i])

complete_password_reset(r) ==
    /\ request[r].pc = "reset"
    /\ Change
    /\ users' = NewPassword(request[r].user, request[r].read)
    /\ resets' = [resets EXCEPT ![request[r].token].used = TRUE]
    /\ tokens' = revoke_user_refresh_tokens(tokens, request[r].user)
    /\ Commit(r)

-----------------------------------------------------------------------------
(* Users. *)

\* register opens a company of its own for the user, an administrator adds one to
\* theirs; the unique address refuses a second row.
create_user(r) ==
    /\ request[r] = NoRequest /\ RoomForChange
    /\ Change
    /\ \E u \in Users, role \in Roles, company \in {"shared", "own"} :
         /\ users[u] = NoUser
         /\ company = "own" => role # "admin"
         /\ company = "shared" => ActiveAdmins # {}
         /\ users' = [users EXCEPT ![u] = Member(company, role, TRUE)]
    /\ Commit(r)
    /\ UNCHANGED <<tokens, resets>>

\* An administrator's request reads its target.
ReadTarget(r) ==
    /\ RoomForChange /\ ActiveAdmins # {}
    /\ \E u \in Users, role \in Roles, active \in BOOLEAN :
         /\ users[u].company = "shared"
         /\ Begin(r, [pc |-> "update", user |-> u, read |-> users[u],
                      new |-> [users[u] EXCEPT !.role = role, !.active = active]])

\* The target was an active administrator and will not be one.
RemovesActiveAdmin(r) ==
    /\ request[r].read.role = "admin" /\ request[r].read.active
    /\ request[r].new.role # "admin" \/ ~request[r].new.active

CountedBefore(r) == 2

\* count_active_admins locks the rows it counts until the commit.
count_active_admins(r) == Cardinality(ActiveAdmins)

\* The request is refused when it would remove the last administrator.
update_company_user(r) ==
    /\ request[r].pc = "update"
    /\ IF RemovesActiveAdmin(r) /\ count_active_admins(r) <= 1
       THEN /\ request' = [request EXCEPT ![r] = NoRequest]
            /\ UNCHANGED <<users, tokens, changes, unrecorded, died>>
       ELSE /\ Change
            /\ users' = [users EXCEPT ![request[r].user] =
                            Flush(@, request[r].read, request[r].new)]
            /\ tokens' = IF request[r].new.active THEN tokens
                         ELSE revoke_user_refresh_tokens(tokens, request[r].user)
            /\ Commit(r)
    /\ UNCHANGED resets

-----------------------------------------------------------------------------

recordTwice == unrecorded - 2

\* The entry in the audit trail.
record == unrecorded - 1

Audit(r) ==
    /\ request[r].pc = "audit"
    /\ unrecorded' = record
    /\ request' = [request EXCEPT ![r] = NoRequest]
    /\ UNCHANGED <<users, tokens, resets, changes, died>>

\* The process dies, or a request that was only read is given up.
Crash(r) ==
    /\ request[r] # NoRequest /\ RoomForChange
    /\ Change
    /\ died' = IF request[r].pc = "audit" THEN died + 1 ELSE died
    /\ request' = [request EXCEPT ![r] = NoRequest]
    /\ UNCHANGED <<users, tokens, resets, unrecorded>>

Next ==
    \E r \in Requests :
        \/ ReadLogin(r) \/ login(r) \/ ReadRefresh(r) \/ refresh(r) \/ logout(r)
        \/ revoke_other_sessions(r) \/ ReadPassword(r) \/ change_password(r)
        \/ initiate_password_reset(r) \/ ReadReset(r) \/ complete_password_reset(r)
        \/ create_user(r) \/ ReadTarget(r) \/ update_company_user(r)
        \/ Audit(r) \/ Crash(r)

Spec == Init /\ [][Next]_vars

-----------------------------------------------------------------------------

TypeOK ==
    /\ \A u \in Users : /\ users[u].company \in {"none", "shared", "own"}
                        /\ users[u].role \in Roles \cup {"none"}
                        /\ users[u].active \in BOOLEAN
                        /\ users[u].password \in 0 .. MaxChanges
    /\ tokens \in Seq([user : Users, revoked : BOOLEAN, parent : 0 .. MaxTokens,
                       began : 0 .. MaxTokens])
    /\ resets \in Seq([user : Users, used : BOOLEAN])
    /\ changes \in 0 .. MaxChanges /\ unrecorded \in Nat /\ died \in 0 .. MaxChanges

\* A refresh token is rotated once: a second session comes from one token only
\* through a request that had read it before the first rotation was committed.
RotationIsLinear ==
    \A i, j \in DOMAIN tokens :
        /\ i < j /\ tokens[i].parent = tokens[j].parent /\ tokens[i].parent # 0
        => tokens[j].began < i

\* A new password ends the user's sessions, and so does a deactivation: the one
\* that lives on was issued by a request under way at the time.
RevocationReaches ==
    [][\A u \in Users :
        users'[u].password # users[u].password \/ (users[u].active /\ ~users'[u].active)
        => \A i \in DOMAIN tokens : tokens[i].user = u => tokens'[i].revoked]_vars

\* The company keeps an administrator, whoever is demoted or deactivated at once:
\* the last one goes only through a request that did not see an active
\* administrator in its target, because another request made it one meanwhile.
AdministratorRemains ==
    [][ActiveAdmins # {} /\ ActiveAdmins' = {} =>
        \E r \in Requests : request[r].pc = "update" /\ request'[r] # request[r]
                            /\ ~(request[r].read.role = "admin" /\ request[r].read.active)]_vars

\* Every committed change is in the audit trail, except those whose request is
\* about to write its entry or died before it did.
TrailIsComplete ==
    unrecorded = died + Cardinality({r \in Requests : request[r].pc = "audit"})
=============================================================================
