------------------------------ MODULE Accounts ------------------------------
(***************************************************************************)
(* The rows of the table users: registration, login and lockout, e-mail    *)
(* verification, profile and password changes, the deletion a user asks    *)
(* for (app/modules/auth/service.py, gdpr.py) and the deletion by an       *)
(* administrator (app/modules/admin/service.py).                           *)
(*                                                                         *)
(* A request loads the row, decides on what it loaded, and commits the     *)
(* columns it changed.  Times are kept as whether they are over.           *)
(***************************************************************************)
EXTENDS Integers

CONSTANTS
    Users,              \* ids that rows may have
    Emails,             \* addresses people register with
    Slots,              \* slots for requests in progress
    MaxLoginAttempts,   \* MAX_LOGIN_ATTEMPTS
    FailureBound,       \* bound: failed logins counted
    OverlapBound        \* bound: overlaps

ASSUME AttemptsAssumption ==
    /\ MaxLoginAttempts \in Nat \ {0}
    /\ FailureBound \in Nat
    /\ MaxLoginAttempts <= FailureBound
    /\ OverlapBound \in Nat

VARIABLES
    user,       \* user[u]: the row, or NoUser
    request,    \* request[s]: the changes that the request in slot s commits
    failures,   \* failures[u]: failed logins since the last success
    overlaps    \* how often a request arrived during another one

accountVars == <<user, request, failures, overlaps>>

-----------------------------------------------------------------------------
(* Rows *)

Anonymous == "anonymous"    \* deleted+{id}@example.com

ASSUME EmailsAssumption == Anonymous \notin Emails

UserRow ==
    [email : Emails \cup {Anonymous},
     password : {"own", "random"},
     profile : {"own", "none"},
     role : {"creator", "other", "consumer"},
     verified : BOOLEAN,
     status : {"active", "inactive", "deleted"},
     login_attempts : 0 .. FailureBound,
     locked : {"no", "yes", "over"},            \* locked_until
     deletion : {"none", "scheduled", "due"}]   \* deletion_scheduled_at

NoUser == [status |-> "none"]

Exists(u) == user[u] # NoUser

NewUser(e) ==
    [email |-> e, password |-> "own", profile |-> "own", role |-> "creator",
     verified |-> FALSE, status |-> "active", login_attempts |-> 0,
     locked |-> "no", deletion |-> "none"]

-----------------------------------------------------------------------------
(* What a request changes in the row it loaded *)

\* authenticate_user, up to the decision.
NotLocked(r) == r.locked # "yes"

MayLogIn(r) ==
    /\ NotLocked(r)
    /\ r.password = "own"
    /\ r.verified
    /\ r.status = "active" \/ r.deletion = "scheduled"

LoginSucceeds(r) == [r EXCEPT !.login_attempts = 0, !.locked = "no"]

\* Variant: the account locks one attempt late.
LoginFails_Late(r) ==
    LET n == r.login_attempts + 1 IN
    [r EXCEPT !.login_attempts = n,
              !.locked = IF n > MaxLoginAttempts THEN "yes" ELSE @]

\* record_failed_login: of a wrong password, or of an unverified address.
LoginFails(r) ==
    LET n == r.login_attempts + 1 IN
    [r EXCEPT !.login_attempts = n,
              !.locked = IF n >= MaxLoginAttempts THEN "yes" ELSE @]

Verify(r) == [r EXCEPT !.verified = TRUE]

ChangeRole(r) == [r EXCEPT !.role = "other"]

\* update_user_profile, change_user_password: a new value of the user's own,
\* written whatever was loaded.
OwnValue(column) == [c \in {column} |-> "own"]

\* request_account_deletion, cancel_account_deletion
RequestDeletion(r) == [r EXCEPT !.deletion = "scheduled", !.status = "inactive"]
CancelDeletion(r) == [r EXCEPT !.deletion = "none", !.status = "active"]

\* Variant: the role is cleared, which a row must have.
Anonymized_NoRole ==
    [email |-> Anonymous, password |-> "random", profile |-> "none",
     role |-> "none", verified |-> FALSE, status |-> "deleted",
     login_attempts |-> 0, locked |-> "no", deletion |-> "none"]

\* delete_admin_user: nothing of the row is left.
Anonymized ==
    [email |-> Anonymous, password |-> "random", profile |-> "none",
     role |-> "consumer", verified |-> FALSE, status |-> "deleted",
     login_attempts |-> 0, locked |-> "no", deletion |-> "none"]

\* Variant: the access token is trusted without a look at the row.
SignedIn_TokenOnly(r) == r # NoUser

\* get_current_user: an access token of a deleted account is refused.
SignedIn(r) == r.status # "deleted"

-----------------------------------------------------------------------------
(* Requests *)

NoRequest == [op |-> "none"]

Columns == DOMAIN NewUser(Anonymous)

\* The UPDATE names the columns whose value is not the loaded one.
Changed(old, new) == {c \in Columns : old[c] # new[c]}

\* The row after such an UPDATE.
WithColumns(r, set) ==
    [c \in Columns |-> IF c \in DOMAIN set THEN set[c] ELSE r[c]]

\* The failed logins since the last success, after a request.
FailuresAfter(op, n) ==
    CASE op = "fail" -> IF n < FailureBound THEN n + 1 ELSE n
      [] op \in {"login", "anonymize"} -> 0
      [] OTHER -> n

Open(s, req) ==
    /\ request[s] = NoRequest
    /\ request' = [request EXCEPT ![s] = req]
    /\ IF \A t \in Slots : request[t] = NoRequest
       THEN UNCHANGED overlaps
       ELSE overlaps < OverlapBound /\ overlaps' = overlaps + 1
    /\ UNCHANGED <<user, failures>>

\* A request that loaded the row of u and wants it to be the row new.
LoadRow(s, op, u, new) ==
    Open(s, [op |-> op, id |-> u,
             set |-> [c \in Changed(user[u], new) |-> new[c]]])

\* register_user looks for the address (and the name).
EmailTaken(e) == \E v \in Users : Exists(v) /\ user[v].email = e

\* POST /auth/register
LoadRegister(s, u, e) ==
    /\ ~Exists(u)
    /\ ~EmailTaken(e)
    /\ Open(s, [op |-> "register", id |-> u, set |-> NewUser(e)])

\* POST /auth/login finds the row by the address typed; a refusal without a
\* change (locked, not active) is no step.
LoadLogin(s, u) ==
    /\ Exists(u)
    /\ user[u].email \in Emails
    /\ \/ MayLogIn(user[u]) /\ LoadRow(s, "login", u, LoginSucceeds(user[u]))
       \/ /\ NotLocked(user[u])
          /\ user[u].login_attempts < FailureBound
          /\ LoadRow(s, "fail", u, LoginFails(user[u]))

\* POST /auth/verify-email, with the token mailed to u, at any later time
LoadVerify(s, u) == Exists(u) /\ LoadRow(s, "verify", u, Verify(user[u]))

\* PATCH /auth/me, POST /auth/me/change-password; the second asks for the
\* current password.
LoadOwnColumn(s, u, column) ==
    /\ Exists(u)
    /\ SignedIn(user[u])
    /\ column = "password" => user[u].password = "own"
    /\ Open(s, [op |-> column, id |-> u, set |-> OwnValue(column)])

\* POST /auth/me/delete
LoadRequestDeletion(s, u) ==
    /\ Exists(u)
    /\ SignedIn(user[u])
    /\ user[u].deletion = "none"
    /\ LoadRow(s, "request", u, RequestDeletion(user[u]))

\* POST /auth/me/cancel-deletion
LoadCancelDeletion(s, u) ==
    /\ Exists(u)
    /\ SignedIn(user[u])
    /\ user[u].deletion = "scheduled"
    /\ LoadRow(s, "cancel", u, CancelDeletion(user[u]))

\* PATCH /admin/users/{id}/role
LoadChangeRole(s, u) ==
    Exists(u) /\ LoadRow(s, "role", u, ChangeRole(user[u]))

\* DELETE /admin/users/{id}
LoadAnonymize(s, u) ==
    /\ Exists(u)
    /\ user[u].status # "deleted"
    /\ LoadRow(s, "anonymize", u, Anonymized)

\* execute_account_deletion, for a job that erases what is due
LoadErase(s, u) ==
    /\ Exists(u)
    /\ user[u].deletion = "due"
    /\ LoadRow(s, "erase", u, user[u])

Finish(s) == request' = [request EXCEPT ![s] = NoRequest]

\* Variant: the address is not unique in the database.
CommitRegister_NotUnique(s) ==
    LET req == request[s] IN
    /\ req.op = "register"
    /\ ~Exists(req.id)
    /\ user' = [user EXCEPT ![req.id] = req.set]
    /\ failures' = [failures EXCEPT ![req.id] = 0]
    /\ Finish(s)
    /\ UNCHANGED overlaps

\* The INSERT; of two for one address the second violates the unique index.
\* The two consents are inserted in the same transaction.
CommitRegister(s) ==
    LET req == request[s] IN
    /\ req.op = "register"
    /\ ~Exists(req.id)
    /\ ~EmailTaken(req.set.email)
    /\ user' = [user EXCEPT ![req.id] = req.set]
    /\ failures' = [failures EXCEPT ![req.id] = 0]
    /\ Finish(s)
    /\ UNCHANGED overlaps

\* The UPDATE of the changed columns.
CommitUpdate(s) ==
    LET req == request[s] IN
    /\ req.op \notin {"none", "register", "erase"}
    /\ Exists(req.id)
    /\ user' = [user EXCEPT ![req.id] = WithColumns(@, req.set)]
    /\ failures' = [failures EXCEPT ![req.id] = FailuresAfter(req.op, @)]
    /\ Finish(s)
    /\ UNCHANGED overlaps

\* The DELETE; the consents of the user go with it.
CommitErase(s) ==
    /\ request[s].op = "erase"
    /\ user' = [user EXCEPT ![request[s].id] = NoUser]
    /\ Finish(s)
    /\ UNCHANGED <<failures, overlaps>>

\* An error (a violated constraint, a row that is gone) or a crash.
Abort(s) ==
    /\ request[s] # NoRequest
    /\ Finish(s)
    /\ UNCHANGED <<user, failures, overlaps>>

-----------------------------------------------------------------------------
(* Time *)

\* An hour after the lock; thirty days after the request.
LockExpires(u) ==
    /\ Exists(u)
    /\ user[u].locked = "yes"
    /\ user' = [user EXCEPT ![u].locked = "over"]
    /\ UNCHANGED <<request, failures, overlaps>>

GraceEnds(u) ==
    /\ Exists(u)
    /\ user[u].deletion = "scheduled"
    /\ user' = [user EXCEPT ![u].deletion = "due"]
    /\ UNCHANGED <<request, failures, overlaps>>

-----------------------------------------------------------------------------
AccountsInit ==
    /\ user = [u \in Users |-> NoUser]
    /\ request = [s \in Slots |-> NoRequest]
    /\ failures = [u \in Users |-> 0]
    /\ overlaps = 0

AccountsNext ==
    \/ \E s \in Slots :
          \/ \E u \in Users :
                \/ \E e \in Emails : LoadRegister(s, u, e)
                \/ LoadLogin(s, u)
                \/ LoadVerify(s, u)
                \/ \E column \in {"profile", "password"} :
                      LoadOwnColumn(s, u, column)
                \/ LoadRequestDeletion(s, u)
                \/ LoadCancelDeletion(s, u)
                \/ LoadChangeRole(s, u)
                \/ LoadAnonymize(s, u)
                \/ LoadErase(s, u)
          \/ CommitRegister(s)
          \/ CommitUpdate(s)
          \/ CommitErase(s)
          \/ Abort(s)
    \/ \E u \in Users : LockExpires(u) \/ GraceEnds(u)

AccountsSpec == AccountsInit /\ [][AccountsNext]_accountVars

-----------------------------------------------------------------------------
(* Properties *)

\* Rows and requests are well formed.
AccountsTypeOK ==
    /\ user \in [Users -> UserRow \cup {NoUser}]
    /\ \A s \in Slots : request[s] # NoRequest =>
          /\ request[s].id \in Users
          /\ WithColumns(NewUser(Anonymous), request[s].set) \in UserRow
    /\ failures \in [Users -> 0 .. FailureBound]
    /\ overlaps \in 0 .. OverlapBound

\* An address belongs to one account, however registrations overlap, and is
\* free again once an administrator deleted the account.
OneAccountPerEmail ==
    \A u, v \in Users : Exists(u) /\ Exists(v) /\ u # v =>
        user[u].email # user[v].email \/ user[u].email = Anonymous

\* An account is locked exactly from the MaxLoginAttempts-th failure in a row
\* on: no success, expiry or other change of the row miscounts, as long as
\* requests do not overlap.
LockMatchesFailures ==
    overlaps = 0 => \A u \in Users : Exists(u) =>
        (user[u].locked # "no") = (failures[u] >= MaxLoginAttempts)

\* What an administrator deleted stays deleted, whatever tokens its user still
\* has, as long as requests do not overlap: the row is not made active again by
\* a cancelled deletion, and gets no password, no profile and no date of erasure.
\* A verification mail still sets verified, and an administrator the role.
DeletedStaysAnonymous ==
    overlaps = 0 => \A u \in Users :
        Exists(u) /\ user[u].email = Anonymous =>
            /\ user[u].status = "deleted"
            /\ user[u].password = "random"
            /\ user[u].profile = "none"
            /\ user[u].deletion = "none"
=============================================================================
