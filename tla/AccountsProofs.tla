--------------------------- MODULE AccountsProofs ---------------------------
(***************************************************************************)
(* The rows of users, for any number of users, addresses and requests.     *)
(***************************************************************************)
EXTENDS Accounts, TLAPS

ColumnNames == {"email", "password", "profile", "role", "verified", "status",
                "login_attempts", "locked", "deletion"}

LEMMA ColumnsAre == Columns = ColumnNames
  BY DEF Columns, NewUser, ColumnNames

LEMMA NewUserIs ==
    ASSUME NEW e \in Emails \cup {Anonymous}
    PROVE  NewUser(e) \in UserRow
  BY AttemptsAssumption DEF NewUser, UserRow

LEMMA RowColumns ==
    ASSUME NEW r \in UserRow
    PROVE  /\ DOMAIN r = ColumnNames
           /\ r.email \in Emails \cup {Anonymous}
           /\ r.login_attempts \in 0 .. FailureBound
           /\ r.status \in {"active", "inactive", "deleted"}
           /\ r.locked \in {"no", "yes", "over"}
           /\ r.deletion \in {"none", "scheduled", "due"}
  BY DEF UserRow, ColumnNames

LEMMA NoUserIsNoRow == NoUser \notin UserRow
  BY DEF NoUser, UserRow

\* Each column of the row has one of its values.
ColumnsFit(r) ==
    /\ r["email"] \in Emails \cup {Anonymous}
    /\ r["password"] \in {"own", "random"}
    /\ r["profile"] \in {"own", "none"}
    /\ r["role"] \in {"creator", "other", "consumer"}
    /\ r["verified"] \in BOOLEAN
    /\ r["status"] \in {"active", "inactive", "deleted"}
    /\ r["login_attempts"] \in 0 .. FailureBound
    /\ r["locked"] \in {"no", "yes", "over"}
    /\ r["deletion"] \in {"none", "scheduled", "due"}

LEMMA FitsIsRow ==
    ASSUME NEW r, NEW set, ColumnsFit(WithColumns(r, set))
    PROVE  WithColumns(r, set) \in UserRow
<1>1. WithColumns(r, set) = [c \in ColumnNames |-> WithColumns(r, set)[c]]
  BY ColumnsAre DEF WithColumns
<1>q. QED BY <1>1 DEF ColumnsFit, UserRow, ColumnNames

LEMMA RowFits ==
    ASSUME NEW r \in UserRow PROVE ColumnsFit(r)
  BY DEF ColumnsFit, UserRow

\* The UPDATE of a loaded row that is still the same makes it the new one.
LEMMA UpdateOfLoaded ==
    ASSUME NEW old \in UserRow, NEW new \in UserRow
    PROVE  WithColumns(old, [c \in Changed(old, new) |-> new[c]]) = new
<1>1. DOMAIN new = ColumnNames /\ new = [c \in ColumnNames |-> new[c]]
  BY DEF UserRow, ColumnNames
<1>q. QED BY <1>1, ColumnsAre DEF WithColumns, Changed

-----------------------------------------------------------------------------
(* The inductive invariant: what a request is about to write is of the      *)
(* columns' types, and only a registration brings an address in.            *)

RequestFits(req) ==
    /\ req.id \in Users
    /\ WithColumns(NewUser(Anonymous), req.set) \in UserRow
    /\ IF req.op = "register"
       THEN \E e \in Emails : req.set = NewUser(e)
       ELSE "email" \in DOMAIN req.set => req.set["email"] = Anonymous

AccountsInv ==
    /\ user \in [Users -> UserRow \cup {NoUser}]
    /\ failures \in [Users -> 0 .. FailureBound]
    /\ overlaps \in 0 .. OverlapBound
    /\ DOMAIN request = Slots
    /\ \A s \in Slots : request[s] # NoRequest => RequestFits(request[s])
    /\ OneAccountPerEmail

\* Initially there is no account.
LEMMA AccountsInitInv == AccountsInit => AccountsInv
  BY AttemptsAssumption
     DEF AccountsInit, AccountsInv, OneAccountPerEmail, Exists

\* A request that fits may be opened.
LEMMA OpenKeepsInv ==
    ASSUME AccountsInv, NEW s \in Slots, NEW req, RequestFits(req), Open(s, req)
    PROVE  AccountsInv'
<1>1. UNCHANGED <<user, failures>> /\ request' = [request EXCEPT ![s] = req]
  BY DEF Open
<1>2. overlaps' \in 0 .. OverlapBound
  <2>1. CASE overlaps' = overlaps
    BY <2>1 DEF AccountsInv
  <2>2. CASE overlaps < OverlapBound /\ overlaps' = overlaps + 1
    BY <2>2, AttemptsAssumption DEF AccountsInv
  <2>q. QED BY <2>1, <2>2 DEF Open
<1>3. \A t \in Slots : request'[t] # NoRequest => RequestFits(request'[t])
  BY <1>1 DEF AccountsInv
<1>4. (\A t \in Slots : request[t] # NoRequest => RequestFits(request[t]))'
  BY <1>3 DEF RequestFits
<1>5. OneAccountPerEmail'
  BY <1>1 DEF AccountsInv, OneAccountPerEmail, Exists
<1>q. QED BY <1>1, <1>2, <1>4, <1>5 DEF AccountsInv

\* What a request that loaded a row wants fits when the wanted row does.
LEMMA LoadRowKeepsInv ==
    ASSUME AccountsInv, NEW s \in Slots, NEW u \in Users, Exists(u),
           NEW op, op # "register", NEW new \in UserRow,
           new.email \in {user[u].email, Anonymous},
           LoadRow(s, op, u, new)
    PROVE  AccountsInv'
<1> DEFINE set == [c \in Changed(user[u], new) |-> new[c]]
           req == [op |-> op, id |-> u, set |-> set]
<1>1. ColumnsFit(WithColumns(NewUser(Anonymous), set))
  <2>1. ColumnsFit(new) /\ ColumnsFit(NewUser(Anonymous))
    BY RowFits, NewUserIs
  <2>2. \A c \in ColumnNames :
           WithColumns(NewUser(Anonymous), set)[c] \in
              {new[c], NewUser(Anonymous)[c]}
    BY ColumnsAre DEF WithColumns, Changed
  <2>q. QED BY <2>1, <2>2 DEF ColumnsFit, ColumnNames
<1>2. "email" \in DOMAIN set => set["email"] = Anonymous
  BY DEF Changed
<1>3. RequestFits(req)
  BY <1>1, <1>2, FitsIsRow DEF RequestFits
<1>4. Open(s, req)
  BY DEF LoadRow
<1>q. QED BY <1>3, <1>4, OpenKeepsInv

-----------------------------------------------------------------------------
(* The rows that requests want *)

LEMMA SmallChangesFit ==
    ASSUME NEW r \in UserRow
    PROVE  /\ {LoginSucceeds(r), Verify(r), ChangeRole(r), RequestDeletion(r),
               CancelDeletion(r)} \subseteq UserRow
           /\ \A new \in {LoginSucceeds(r), Verify(r), ChangeRole(r),
                          RequestDeletion(r), CancelDeletion(r)} :
                 new.email = r.email
<1>0. 0 \in 0 .. FailureBound
  BY AttemptsAssumption
<1>1. LoginSucceeds(r) \in UserRow /\ LoginSucceeds(r).email = r.email
  <2>1. [r EXCEPT !.login_attempts = 0] \in UserRow
    BY <1>0 DEF UserRow
  <2>q. QED BY <2>1 DEF LoginSucceeds, UserRow
<1>2. Verify(r) \in UserRow /\ Verify(r).email = r.email
  BY DEF Verify, UserRow
<1>3. ChangeRole(r) \in UserRow /\ ChangeRole(r).email = r.email
  BY DEF ChangeRole, UserRow
<1>4. RequestDeletion(r) \in UserRow /\ RequestDeletion(r).email = r.email
  BY DEF RequestDeletion, UserRow
<1>5. CancelDeletion(r) \in UserRow /\ CancelDeletion(r).email = r.email
  BY DEF CancelDeletion, UserRow
<1>q. QED BY <1>1, <1>2, <1>3, <1>4, <1>5

LEMMA LoginFailsFits ==
    ASSUME NEW r \in UserRow, r.login_attempts < FailureBound
    PROVE  LoginFails(r) \in UserRow /\ LoginFails(r).email = r.email
<1>1. r.login_attempts + 1 \in 0 .. FailureBound
  BY AttemptsAssumption, RowColumns
<1> DEFINE counted == [r EXCEPT !.login_attempts = r.login_attempts + 1]
<1>2. counted \in UserRow /\ counted.email = r.email
  <2> HIDE DEF counted
  <2>1. \A n \in 0 .. FailureBound : [r EXCEPT !.login_attempts = n] \in UserRow
    BY DEF UserRow
  <2>2. \A n : [r EXCEPT !.login_attempts = n].email = r.email
    BY DEF UserRow
  <2>q. QED BY <1>1, <2>1, <2>2 DEF counted
<1>3. LoginFails(r) = counted \/ LoginFails(r) = [counted EXCEPT !.locked = "yes"]
  BY DEF LoginFails, UserRow
<1>4. ASSUME NEW c \in UserRow
      PROVE  /\ [c EXCEPT !.locked = "yes"] \in UserRow
             /\ [c EXCEPT !.locked = "yes"].email = c.email
  BY DEF UserRow
<1>q. QED
  <2> HIDE DEF counted
  <2>q. QED BY <1>2, <1>3, <1>4

LEMMA AnonymizedFits == Anonymized \in UserRow /\ Anonymized.email = Anonymous
<1>1. 0 \in 0 .. FailureBound
  BY AttemptsAssumption
<1>q. QED BY <1>1 DEF Anonymized, UserRow

\* Every request that is opened keeps the invariant.
LEMMA LoadKeepsInv ==
    ASSUME AccountsInv, NEW s \in Slots, NEW u \in Users,
           \/ \E e \in Emails : LoadRegister(s, u, e)
           \/ LoadLogin(s, u)
           \/ LoadVerify(s, u)
           \/ \E column \in {"profile", "password"} :
                 LoadOwnColumn(s, u, column)
           \/ LoadRequestDeletion(s, u)
           \/ LoadCancelDeletion(s, u)
           \/ LoadChangeRole(s, u)
           \/ LoadAnonymize(s, u)
           \/ LoadErase(s, u)
    PROVE  AccountsInv'
<1>0. Exists(u) => user[u] \in UserRow
  BY DEF AccountsInv, Exists
<1>1. ASSUME NEW e \in Emails, LoadRegister(s, u, e) PROVE AccountsInv'
  <2> DEFINE req == [op |-> "register", id |-> u, set |-> NewUser(e)]
  <2>1. WithColumns(NewUser(Anonymous), NewUser(e)) = NewUser(e)
    BY ColumnsAre DEF WithColumns, NewUser, ColumnNames
  <2>2. RequestFits(req)
    BY <2>1, NewUserIs DEF RequestFits
  <2>q. QED BY <1>1, <2>2, OpenKeepsInv DEF LoadRegister
<1>2. CASE LoadLogin(s, u)
  <2>1. CASE LoadRow(s, "login", u, LoginSucceeds(user[u]))
    BY <1>0, <1>2, <2>1, SmallChangesFit, LoadRowKeepsInv DEF LoadLogin
  <2>2. CASE /\ user[u].login_attempts < FailureBound
             /\ LoadRow(s, "fail", u, LoginFails(user[u]))
    BY <1>0, <1>2, <2>2, LoginFailsFits, LoadRowKeepsInv DEF LoadLogin
  <2>q. QED BY <1>2, <2>1, <2>2 DEF LoadLogin
<1>3. CASE LoadVerify(s, u)
  BY <1>0, <1>3, SmallChangesFit, LoadRowKeepsInv DEF LoadVerify
<1>4. ASSUME NEW column \in {"profile", "password"},
             LoadOwnColumn(s, u, column)
      PROVE  AccountsInv'
  <2> DEFINE req == [op |-> column, id |-> u, set |-> OwnValue(column)]
  <2>1. ColumnsFit(NewUser(Anonymous))
    BY NewUserIs, RowFits
  <2>2. /\ DOMAIN OwnValue(column) = {column}
        /\ OwnValue(column)[column] = "own"
    BY DEF OwnValue
  <2>3. \A c \in ColumnNames :
           WithColumns(NewUser(Anonymous), OwnValue(column))[c] =
              IF c = column THEN "own" ELSE NewUser(Anonymous)[c]
    BY <2>2, ColumnsAre DEF WithColumns
  <2>4. ColumnsFit(WithColumns(NewUser(Anonymous), OwnValue(column)))
    BY <2>1, <2>3 DEF ColumnsFit, ColumnNames
  <2>5. RequestFits(req)
    BY <2>2, <2>4, FitsIsRow DEF RequestFits
  <2>q. QED BY <1>4, <2>5, OpenKeepsInv DEF LoadOwnColumn
<1>5. CASE LoadRequestDeletion(s, u)
  BY <1>0, <1>5, SmallChangesFit, LoadRowKeepsInv DEF LoadRequestDeletion
<1>6. CASE LoadCancelDeletion(s, u)
  BY <1>0, <1>6, SmallChangesFit, LoadRowKeepsInv DEF LoadCancelDeletion
<1>7. CASE LoadChangeRole(s, u)
  BY <1>0, <1>7, SmallChangesFit, LoadRowKeepsInv DEF LoadChangeRole
<1>8. CASE LoadAnonymize(s, u)
  BY <1>0, <1>8, AnonymizedFits, LoadRowKeepsInv DEF LoadAnonymize
<1>9. CASE LoadErase(s, u)
  BY <1>0, <1>9, LoadRowKeepsInv DEF LoadErase
<1>q. QED
  BY <1>1, <1>2, <1>3, <1>4, <1>5, <1>6, <1>7, <1>8, <1>9

-----------------------------------------------------------------------------
(* The steps that change a row *)

\* A row is replaced by one with its address, with no address, or with one
\* that is free.
LEMMA RowReplaced ==
    ASSUME AccountsInv, NEW u \in Users, NEW row \in UserRow \cup {NoUser},
           user' = [user EXCEPT ![u] = row],
           \/ row = NoUser
           \/ row.email = Anonymous
           \/ Exists(u) /\ row.email = user[u].email
           \/ ~EmailTaken(row.email)
    PROVE  /\ user' \in [Users -> UserRow \cup {NoUser}]
           /\ OneAccountPerEmail'
<1>1. user' \in [Users -> UserRow \cup {NoUser}]
  BY DEF AccountsInv
<1>2. \A v \in Users : user'[v] = IF v = u THEN row ELSE user[v]
  BY DEF AccountsInv
<1>3. ASSUME NEW v \in Users, v # u, row # NoUser, Exists(v)
      PROVE  row.email # user[v].email \/ row.email = Anonymous
  <2>1. CASE Exists(u) /\ row.email = user[u].email
    BY <1>3, <2>1 DEF AccountsInv, OneAccountPerEmail
  <2>2. CASE ~EmailTaken(row.email)
    BY <1>3, <2>2 DEF EmailTaken
  <2>q. QED BY <1>3, <2>1, <2>2
<1>4. ASSUME NEW v \in Users, NEW w \in Users, v # w,
             user'[v] # NoUser, user'[w] # NoUser
      PROVE  user'[v].email # user'[w].email \/ user'[v].email = Anonymous
  <2>1. CASE v = u
    BY <1>2, <1>3, <1>4, <2>1 DEF Exists
  <2>2. CASE w = u
    BY <1>2, <1>3, <1>4, <2>2 DEF Exists
  <2>3. CASE v # u /\ w # u
    BY <1>2, <1>4, <2>3 DEF AccountsInv, OneAccountPerEmail, Exists
  <2>q. QED BY <2>1, <2>2, <2>3
<1>q. QED BY <1>1, <1>4 DEF OneAccountPerEmail, Exists

\* The request is over.
LEMMA FinishKeepsFits ==
    ASSUME AccountsInv, NEW s \in Slots, Finish(s)
    PROVE  /\ DOMAIN request' = Slots
           /\ (\A t \in Slots : request[t] # NoRequest =>
                                   RequestFits(request[t]))'
<1>1. request' = [request EXCEPT ![s] = NoRequest]
  BY DEF Finish
<1>2. \A t \in Slots : request'[t] # NoRequest => RequestFits(request'[t])
  BY <1>1 DEF AccountsInv
<1>q. QED BY <1>1, <1>2 DEF AccountsInv, RequestFits

\* The row a request leaves
After(s) == WithColumns(user[request[s].id], request[s].set)

LEMMA AfterFits ==
    ASSUME AccountsInv, NEW s \in Slots, request[s] # NoRequest,
           request[s].op # "register", Exists(request[s].id)
    PROVE  /\ After(s) \in UserRow
           /\ After(s).email \in {user[request[s].id].email, Anonymous}
<1> DEFINE req == request[s]
<1>1. /\ RequestFits(req)
      /\ user[req.id] \in UserRow
  BY DEF AccountsInv, RequestFits, Exists
<1>2. /\ ColumnsFit(user[req.id])
      /\ ColumnsFit(WithColumns(NewUser(Anonymous), req.set))
  BY <1>1, RowFits DEF RequestFits
<1>3. \A c \in ColumnNames :
         After(s)[c] \in {user[req.id][c],
                          WithColumns(NewUser(Anonymous), req.set)[c]}
  BY ColumnsAre DEF After, WithColumns
<1>4. ColumnsFit(After(s))
  BY <1>2, <1>3 DEF ColumnsFit, ColumnNames
<1>5. After(s)["email"] \in {user[req.id]["email"], Anonymous}
  BY <1>1, ColumnsAre DEF After, WithColumns, RequestFits, ColumnNames
<1>q. QED BY <1>4, <1>5, FitsIsRow DEF After

LEMMA AccountsStep ==
    ASSUME AccountsInv, [AccountsNext]_accountVars
    PROVE  AccountsInv'
<1>1. ASSUME NEW s \in Slots, CommitRegister(s) PROVE AccountsInv'
  <2> DEFINE req == request[s]
  <2>1. /\ req # NoRequest
        /\ ~EmailTaken(req.set.email)
        /\ user' = [user EXCEPT ![req.id] = req.set]
        /\ failures' = [failures EXCEPT ![req.id] = 0]
        /\ Finish(s)
        /\ overlaps' = overlaps
    BY <1>1 DEF CommitRegister, NoRequest
  <2>2. /\ req.id \in Users
        /\ req.set \in UserRow
    <3>1. RequestFits(req) /\ req.op = "register"
      BY <1>1, <2>1 DEF AccountsInv, CommitRegister
    <3>q. QED BY <3>1, NewUserIs DEF RequestFits
  <2>3. /\ user' \in [Users -> UserRow \cup {NoUser}]
        /\ OneAccountPerEmail'
    BY <2>1, <2>2, RowReplaced
  <2>4. failures' \in [Users -> 0 .. FailureBound]
    <3>1. 0 \in 0 .. FailureBound
      BY AttemptsAssumption
    <3>q. QED BY <2>1, <3>1 DEF AccountsInv
  <2>q. QED BY <2>1, <2>3, <2>4, FinishKeepsFits DEF AccountsInv
<1>2. ASSUME NEW s \in Slots, CommitUpdate(s) PROVE AccountsInv'
  <2> DEFINE req == request[s]
  <2>1. /\ req # NoRequest
        /\ req.op # "register"
        /\ Exists(req.id)
        /\ user' = [user EXCEPT ![req.id] = WithColumns(@, req.set)]
        /\ failures' = [failures EXCEPT ![req.id] = FailuresAfter(req.op, @)]
        /\ Finish(s)
        /\ overlaps' = overlaps
    BY <1>2 DEF CommitUpdate, NoRequest
  <2>2. req.id \in Users
    BY <2>1 DEF AccountsInv, RequestFits
  <2>3. user' = [user EXCEPT ![req.id] = After(s)]
    BY <2>1 DEF After
  <2>4. /\ user' \in [Users -> UserRow \cup {NoUser}]
        /\ OneAccountPerEmail'
    BY <2>1, <2>2, <2>3, AfterFits, RowReplaced
  <2>5. \A n \in 0 .. FailureBound : FailuresAfter(req.op, n) \in 0 .. FailureBound
    BY AttemptsAssumption DEF FailuresAfter
  <2>6. failures' \in [Users -> 0 .. FailureBound]
    BY <2>1, <2>5 DEF AccountsInv
  <2>q. QED BY <2>1, <2>4, <2>6, FinishKeepsFits DEF AccountsInv
<1>3. ASSUME NEW s \in Slots, CommitErase(s) PROVE AccountsInv'
  <2>1. /\ request[s] # NoRequest
        /\ user' = [user EXCEPT ![request[s].id] = NoUser]
        /\ Finish(s)
        /\ UNCHANGED <<failures, overlaps>>
    BY <1>3 DEF CommitErase, NoRequest
  <2>2. request[s].id \in Users
    BY <2>1 DEF AccountsInv, RequestFits
  <2>3. /\ user' \in [Users -> UserRow \cup {NoUser}]
        /\ OneAccountPerEmail'
    BY <2>1, <2>2, RowReplaced
  <2>q. QED BY <2>1, <2>3, FinishKeepsFits DEF AccountsInv
<1>4. ASSUME NEW s \in Slots, Abort(s) PROVE AccountsInv'
  <2>1. Finish(s) /\ UNCHANGED <<user, failures, overlaps>>
    BY <1>4 DEF Abort
  <2>q. QED BY <2>1, FinishKeepsFits
            DEF AccountsInv, OneAccountPerEmail, Exists
<1>5. ASSUME NEW u \in Users, LockExpires(u) \/ GraceEnds(u) PROVE AccountsInv'
  <2>1. /\ Exists(u) /\ user[u] \in UserRow
        /\ UNCHANGED <<request, failures, overlaps>>
    BY <1>5 DEF LockExpires, GraceEnds, AccountsInv, Exists
  <2>2. \E row \in UserRow : /\ user' = [user EXCEPT ![u] = row]
                             /\ row.email = user[u].email
    <3>1. CASE LockExpires(u)
      <4>1. user' = [user EXCEPT ![u] = [user[u] EXCEPT !.locked = "over"]]
        BY <3>1 DEF LockExpires
      <4>2. /\ [user[u] EXCEPT !.locked = "over"] \in UserRow
            /\ [user[u] EXCEPT !.locked = "over"].email = user[u].email
        BY <2>1 DEF UserRow
      <4>q. QED BY <4>1, <4>2
    <3>2. CASE GraceEnds(u)
      <4>1. user' = [user EXCEPT ![u] = [user[u] EXCEPT !.deletion = "due"]]
        BY <3>2 DEF GraceEnds
      <4>2. /\ [user[u] EXCEPT !.deletion = "due"] \in UserRow
            /\ [user[u] EXCEPT !.deletion = "due"].email = user[u].email
        BY <2>1 DEF UserRow
      <4>q. QED BY <4>1, <4>2
    <3>q. QED BY <1>5, <3>1, <3>2
  <2>3. /\ user' \in [Users -> UserRow \cup {NoUser}]
        /\ OneAccountPerEmail'
    BY <2>1, <2>2, RowReplaced
  <2>q. QED BY <2>1, <2>3 DEF AccountsInv, RequestFits
<1>6. CASE UNCHANGED accountVars
  BY <1>6 DEF accountVars, AccountsInv, RequestFits, OneAccountPerEmail, Exists
<1>7. ASSUME NEW s \in Slots, NEW u \in Users,
             \/ \E e \in Emails : LoadRegister(s, u, e)
             \/ LoadLogin(s, u)
             \/ LoadVerify(s, u)
             \/ \E column \in {"profile", "password"} :
                   LoadOwnColumn(s, u, column)
             \/ LoadRequestDeletion(s, u)
             \/ LoadCancelDeletion(s, u)
             \/ LoadChangeRole(s, u)
             \/ LoadAnonymize(s, u)
             \/ LoadErase(s, u)
      PROVE  AccountsInv'
  BY <1>7, LoadKeepsInv
<1>q. QED
  BY <1>1, <1>2, <1>3, <1>4, <1>5, <1>6, <1>7 DEF AccountsNext

LEMMA AccountsInvHolds == AccountsSpec => []AccountsInv
  BY AccountsInitInv, AccountsStep, PTL DEF AccountsSpec

\* However registrations, deletions and the other requests interleave, no two
\* accounts have one address.
THEOREM OneAccountPerEmailHolds == AccountsSpec => []OneAccountPerEmail
<1>1. AccountsInv => OneAccountPerEmail
  BY DEF AccountsInv
<1>q. QED BY AccountsInvHolds, <1>1, PTL

\* No interleaving of requests leaves a row that its columns' types forbid.
THEOREM AccountsTypeHolds == AccountsSpec => []AccountsTypeOK
<1>1. AccountsInv => AccountsTypeOK
  BY DEF AccountsInv, AccountsTypeOK, RequestFits
<1>q. QED BY AccountsInvHolds, <1>1, PTL

-----------------------------------------------------------------------------
(* As long as requests do not overlap: the row a request loaded is still    *)
(* the one it updates, so it is enough that what it wants is sound.         *)

RowSound(r, n) ==
    /\ r.login_attempts = n
    /\ (r.locked # "no") <=> (n >= MaxLoginAttempts)
    /\ r.email = Anonymous => /\ r.status = "deleted"
                              /\ r.password = "random"
                              /\ r.profile = "none"
                              /\ r.deletion = "none"

Updates(s) ==
    request[s].op \notin {"none", "register", "erase"} /\ Exists(request[s].id)

SequentialInv ==
    overlaps = 0 =>
       /\ \A s, t \in Slots :
             request[s] # NoRequest /\ request[t] # NoRequest => s = t
       /\ \A u \in Users : Exists(u) => RowSound(user[u], failures[u])
       /\ \A s \in Slots : Updates(s) =>
             RowSound(After(s),
                      FailuresAfter(request[s].op, failures[request[s].id]))

LEMMA SequentialInit == AccountsInit => SequentialInv
  BY DEF AccountsInit, SequentialInv, Exists, Updates, NoRequest

\* Requests that begin with the row of u and want a sound row.
LEMMA LoadRowSound ==
    ASSUME AccountsInv, SequentialInv, NEW s \in Slots, NEW u \in Users,
           NEW op, NEW set, Open(s, [op |-> op, id |-> u, set |-> set]),
           overlaps = 0 /\ op \notin {"register", "erase"} /\ Exists(u) =>
              RowSound(WithColumns(user[u], set), FailuresAfter(op, failures[u]))
    PROVE  SequentialInv'
<1> DEFINE req == [op |-> op, id |-> u, set |-> set]
<1>1. /\ UNCHANGED <<user, failures>>
      /\ request' = [request EXCEPT ![s] = req]
  BY DEF Open
<1> SUFFICES ASSUME overlaps' = 0 PROVE SequentialInv'
  BY DEF SequentialInv
<1>2. overlaps = 0 /\ \A t \in Slots : request[t] = NoRequest
  <2>1. CASE \A t \in Slots : request[t] = NoRequest
    BY <2>1 DEF Open
  <2>2. CASE ~\A t \in Slots : request[t] = NoRequest
    <3>1. overlaps' = overlaps + 1 /\ overlaps \in Nat
      BY <2>2 DEF Open, AccountsInv
    <3>q. QED BY <3>1
  <2>q. QED BY <2>1, <2>2
<1>3. \A t \in Slots : request'[t] = IF t = s THEN req ELSE NoRequest
  BY <1>1, <1>2 DEF AccountsInv
<1>4. \A v \in Users : Exists(v)' => RowSound(user[v], failures[v])'
  BY <1>1, <1>2 DEF SequentialInv, Exists, RowSound
<1>5. ASSUME NEW t \in Slots, Updates(t)'
      PROVE  RowSound(After(t), FailuresAfter(request[t].op,
                                              failures[request[t].id]))'
  <2>1. t = s /\ request'[t] = req
    BY <1>3, <1>5 DEF Updates, NoRequest
  <2>2. op \notin {"register", "erase"} /\ Exists(u)
    BY <1>1, <1>5, <2>1 DEF Updates, Exists
  <2>3. RowSound(WithColumns(user[u], set), FailuresAfter(op, failures[u]))
    BY <1>2, <2>2
  <2>4. After(t)' = WithColumns(user[u], set)
    BY <1>1, <2>1 DEF After, WithColumns
  <2>5. FailuresAfter(request[t].op, failures[request[t].id])' =
           FailuresAfter(op, failures[u])
    BY <1>1, <2>1 DEF FailuresAfter
  <2>q. QED BY <2>3, <2>4, <2>5 DEF RowSound
<1>q. QED BY <1>3, <1>4, <1>5 DEF SequentialInv

LEMMA WantedSound ==
    ASSUME AccountsInv, SequentialInv, NEW s \in Slots, NEW u \in Users,
           Exists(u), NEW op, NEW new \in UserRow, LoadRow(s, op, u, new),
           overlaps = 0 => RowSound(new, FailuresAfter(op, failures[u]))
    PROVE  SequentialInv'
<1>1. user[u] \in UserRow
  BY DEF AccountsInv, Exists
<1>2. WithColumns(user[u], [c \in Changed(user[u], new) |-> new[c]]) = new
  BY <1>1, UpdateOfLoaded
<1>q. QED BY <1>2, LoadRowSound DEF LoadRow

\* What the requests make of a sound row is sound.
LEMMA WantedRowsSound ==
    ASSUME NEW r \in UserRow, NEW n \in 0 .. FailureBound, RowSound(r, n)
    PROVE  /\ RowSound(LoginSucceeds(r), 0)
           /\ r.login_attempts < FailureBound => RowSound(LoginFails(r), n + 1)
           /\ RowSound(Verify(r), n)
           /\ RowSound(ChangeRole(r), n)
           /\ SignedIn(r) => /\ RowSound(RequestDeletion(r), n)
                             /\ RowSound(CancelDeletion(r), n)
           /\ RowSound(Anonymized, 0)
<1>1. DOMAIN r = ColumnNames
  BY RowColumns
<1>2. ~(0 >= MaxLoginAttempts)
  BY AttemptsAssumption
<1>3. RowSound(LoginSucceeds(r), 0)
  BY <1>1, <1>2 DEF LoginSucceeds, RowSound, ColumnNames
<1>4. RowSound(LoginFails(r), n + 1)
  <2>1. r.login_attempts = n /\ (n >= MaxLoginAttempts => n + 1 >= MaxLoginAttempts)
    BY AttemptsAssumption DEF RowSound
  <2>2. /\ LoginFails(r).login_attempts = n + 1
        /\ LoginFails(r).locked = IF n + 1 >= MaxLoginAttempts THEN "yes"
                                  ELSE r.locked
        /\ \A c \in ColumnNames \ {"login_attempts", "locked"} :
              LoginFails(r)[c] = r[c]
    BY <1>1, <2>1 DEF LoginFails, ColumnNames
  <2>q. QED BY <2>1, <2>2 DEF RowSound, ColumnNames
<1>5. RowSound(Verify(r), n) /\ RowSound(ChangeRole(r), n)
  BY <1>1 DEF Verify, ChangeRole, RowSound, ColumnNames
<1>6. ASSUME SignedIn(r)
      PROVE  RowSound(RequestDeletion(r), n) /\ RowSound(CancelDeletion(r), n)
  <2>1. r.email # Anonymous
    BY <1>6 DEF SignedIn, RowSound
  <2>q. QED BY <1>1, <2>1
               DEF RequestDeletion, CancelDeletion, RowSound, ColumnNames
<1>7. RowSound(Anonymized, 0)
  BY <1>2 DEF Anonymized, RowSound
<1>q. QED BY <1>3, <1>4, <1>5, <1>6, <1>7

LEMMA LoadKeepsSequential ==
    ASSUME AccountsInv, SequentialInv, NEW s \in Slots, NEW u \in Users,
           \/ \E e \in Emails : LoadRegister(s, u, e)
           \/ LoadLogin(s, u)
           \/ LoadVerify(s, u)
           \/ \E column \in {"profile", "password"} :
                 LoadOwnColumn(s, u, column)
           \/ LoadRequestDeletion(s, u)
           \/ LoadCancelDeletion(s, u)
           \/ LoadChangeRole(s, u)
           \/ LoadAnonymize(s, u)
           \/ LoadErase(s, u)
    PROVE  SequentialInv'
<1> DEFINE r == user[u]
           n == failures[u]
<1>0. /\ Exists(u) => r \in UserRow
      /\ n \in 0 .. FailureBound
      /\ overlaps = 0 /\ Exists(u) => RowSound(r, n)
  BY DEF AccountsInv, SequentialInv, Exists
<1>a. /\ FailuresAfter("login", n) = 0
      /\ FailuresAfter("anonymize", n) = 0
      /\ n < FailureBound => FailuresAfter("fail", n) = n + 1
      /\ \A op \in {"verify", "profile", "password", "request", "cancel",
                    "role", "erase"} : FailuresAfter(op, n) = n
  BY DEF FailuresAfter
<1>1. ASSUME NEW e \in Emails, LoadRegister(s, u, e) PROVE SequentialInv'
  BY <1>1, LoadRowSound DEF LoadRegister
<1>2. CASE LoadLogin(s, u)
  <2>1. CASE LoadRow(s, "login", u, LoginSucceeds(r))
    <3>1. LoginSucceeds(r) \in UserRow /\ Exists(u)
      BY <1>0, <1>2, SmallChangesFit DEF LoadLogin
    <3>2. overlaps = 0 => RowSound(LoginSucceeds(r), FailuresAfter("login", n))
      BY <1>0, <1>a, <3>1, WantedRowsSound
    <3>q. QED BY <2>1, <3>1, <3>2, WantedSound
  <2>2. CASE r.login_attempts < FailureBound /\ LoadRow(s, "fail", u, LoginFails(r))
    <3>1. LoginFails(r) \in UserRow /\ Exists(u)
      BY <1>0, <1>2, <2>2, LoginFailsFits DEF LoadLogin
    <3>2. overlaps = 0 => RowSound(LoginFails(r), FailuresAfter("fail", n))
      <4>1. overlaps = 0 => n < FailureBound
        BY <1>0, <2>2, <3>1 DEF RowSound
      <4>q. QED BY <1>0, <1>a, <2>2, <3>1, <4>1, WantedRowsSound
    <3>q. QED BY <2>2, <3>1, <3>2, WantedSound
  <2>q. QED BY <1>2, <2>1, <2>2 DEF LoadLogin
<1>3. CASE LoadVerify(s, u)
  <2>1. LoadRow(s, "verify", u, Verify(r)) /\ Exists(u)
    BY <1>3 DEF LoadVerify
  <2>q. QED BY <1>0, <1>a, <2>1, WantedRowsSound, SmallChangesFit, WantedSound
<1>4. ASSUME NEW column \in {"profile", "password"},
             LoadOwnColumn(s, u, column)
      PROVE  SequentialInv'
  <2>1. /\ Exists(u) /\ r.status # "deleted"
        /\ Open(s, [op |-> column, id |-> u, set |-> OwnValue(column)])
    BY <1>4 DEF LoadOwnColumn, SignedIn
  <2>2. \A c \in ColumnNames \ {"profile", "password"} :
           WithColumns(r, OwnValue(column))[c] = r[c]
    BY ColumnsAre DEF WithColumns, OwnValue
  <2>3. overlaps = 0 => RowSound(WithColumns(r, OwnValue(column)), n)
    BY <1>0, <2>1, <2>2 DEF RowSound, ColumnNames
  <2>q. QED BY <1>a, <2>1, <2>3, LoadRowSound
<1>5. CASE LoadRequestDeletion(s, u)
  <2>1. /\ LoadRow(s, "request", u, RequestDeletion(r))
        /\ Exists(u) /\ SignedIn(r)
    BY <1>5 DEF LoadRequestDeletion
  <2>q. QED BY <1>0, <1>a, <2>1, WantedRowsSound, SmallChangesFit, WantedSound
<1>6. CASE LoadCancelDeletion(s, u)
  <2>1. /\ LoadRow(s, "cancel", u, CancelDeletion(r))
        /\ Exists(u) /\ SignedIn(r)
    BY <1>6 DEF LoadCancelDeletion
  <2>q. QED BY <1>0, <1>a, <2>1, WantedRowsSound, SmallChangesFit, WantedSound
<1>7. CASE LoadChangeRole(s, u)
  <2>1. LoadRow(s, "role", u, ChangeRole(r)) /\ Exists(u)
    BY <1>7 DEF LoadChangeRole
  <2>q. QED BY <1>0, <1>a, <2>1, WantedRowsSound, SmallChangesFit, WantedSound
<1>8. CASE LoadAnonymize(s, u)
  <2>1. LoadRow(s, "anonymize", u, Anonymized) /\ Exists(u)
    BY <1>8 DEF LoadAnonymize
  <2>q. QED BY <1>0, <1>a, <2>1, WantedRowsSound, AnonymizedFits, WantedSound
<1>9. CASE LoadErase(s, u)
  <2>1. LoadRow(s, "erase", u, r) /\ Exists(u)
    BY <1>9 DEF LoadErase
  <2>q. QED BY <1>0, <1>a, <2>1, WantedSound
<1>q. QED
  BY <1>1, <1>2, <1>3, <1>4, <1>5, <1>6, <1>7, <1>8, <1>9

\* A request that ends leaves no other one.
LEMMA FinishSequential ==
    ASSUME AccountsInv, SequentialInv, NEW s \in Slots,
           request[s] # NoRequest, Finish(s), overlaps' = overlaps,
           overlaps = 0 =>
              \A u \in Users : user'[u] # NoUser => RowSound(user'[u], failures'[u])
    PROVE  SequentialInv'
<1> SUFFICES ASSUME overlaps' = 0 PROVE SequentialInv'
  BY DEF SequentialInv
<1>1. \A t \in Slots : request'[t] = NoRequest
  BY DEF Finish, AccountsInv, SequentialInv
<1>2. \A u \in Users : Exists(u)' => RowSound(user[u], failures[u])'
  BY DEF Exists, RowSound
<1>3. \A t \in Slots : ~Updates(t)'
  BY <1>1 DEF Updates, NoRequest
<1>q. QED BY <1>1, <1>2, <1>3 DEF SequentialInv

\* Time changes neither whether a row is sound nor whether a request would
\* leave it sound.
LEMMA TimeKeepsSequential ==
    ASSUME AccountsInv, SequentialInv, NEW u \in Users,
           LockExpires(u) \/ GraceEnds(u)
    PROVE  SequentialInv'
<1>0. /\ Exists(u) /\ user[u] \in UserRow
      /\ UNCHANGED <<request, failures, overlaps>>
  BY DEF LockExpires, GraceEnds, AccountsInv, Exists
<1> SUFFICES ASSUME overlaps' = 0 PROVE SequentialInv'
  BY DEF SequentialInv
<1> DEFINE row == user'[u]
<1>1. /\ \A v \in Users \ {u} : user'[v] = user[v]
      /\ DOMAIN row = ColumnNames
      /\ \A c \in ColumnNames \ {"locked", "deletion"} : row[c] = user[u][c]
      /\ (row["locked"] # "no") <=> (user[u]["locked"] # "no")
      /\ row["deletion"] # user[u]["deletion"] =>
            row["deletion"] = "due" /\ user[u]["deletion"] = "scheduled"
  <2>0. DOMAIN user[u] = ColumnNames
    BY <1>0, RowColumns
  <2>1. CASE LockExpires(u)
    <3>1. /\ user' = [user EXCEPT ![u] = [user[u] EXCEPT !.locked = "over"]]
          /\ user[u]["locked"] = "yes"
      BY <2>1 DEF LockExpires
    <3>2. /\ \A v \in Users \ {u} : user'[v] = user[v]
          /\ row = [user[u] EXCEPT !.locked = "over"]
      BY <3>1 DEF AccountsInv
    <3>q. QED BY <2>0, <3>1, <3>2 DEF ColumnNames
  <2>2. CASE GraceEnds(u)
    BY <2>0, <2>2 DEF GraceEnds, AccountsInv, ColumnNames
  <2>q. QED BY <2>1, <2>2
<1>2. row # NoUser
  <2>1. DOMAIN NoUser = {"status"}
    BY DEF NoUser
  <2>q. QED BY <1>1, <2>1 DEF ColumnNames
<1>3. \A n : RowSound(user[u], n) => RowSound(row, n)
  BY <1>1 DEF RowSound, ColumnNames
<1>4. \A set, n : RowSound(WithColumns(user[u], set), n) =>
                     RowSound(WithColumns(row, set), n)
  <2> TAKE set, n
  <2> DEFINE old == WithColumns(user[u], set)
             new == WithColumns(row, set)
  <2>0. \A c \in ColumnNames :
           IF c \in DOMAIN set THEN new[c] = old[c]
                               ELSE new[c] = row[c] /\ old[c] = user[u][c]
    BY ColumnsAre DEF WithColumns
  <2>1. /\ \A c \in ColumnNames \ {"locked", "deletion"} : new[c] = old[c]
        /\ (new["locked"] # "no") <=> (old["locked"] # "no")
        /\ new["deletion"] # old["deletion"] =>
              new["deletion"] = "due" /\ old["deletion"] = "scheduled"
    <3> HIDE DEF old, new, row
    <3>q. QED BY <1>1, <2>0 DEF ColumnNames
  <2> HIDE DEF old, new
  <2>2. RowSound(old, n) => RowSound(new, n)
    BY <2>1 DEF RowSound, ColumnNames
  <2>q. QED BY <2>2 DEF old, new
<1>5. \A v \in Users : Exists(v)' => RowSound(user[v], failures[v])'
  <2> SUFFICES ASSUME NEW v \in Users, user'[v] # NoUser
               PROVE  RowSound(user'[v], failures'[v])
    BY DEF Exists, RowSound
  <2>1. RowSound(user[u], failures[u])
    BY <1>0 DEF SequentialInv
  <2>q. QED BY <1>0, <1>1, <1>3, <2>1 DEF SequentialInv, Exists
<1>6. ASSUME NEW s \in Slots, Updates(s)'
      PROVE  RowSound(After(s), FailuresAfter(request[s].op,
                                              failures[request[s].id]))'
  <2> DEFINE id == request[s].id
             n == FailuresAfter(request[s].op, failures[id])
  <2>1. Updates(s) /\ id \in Users
    <3>1. request[s] # NoRequest
      BY <1>0, <1>6 DEF Updates, NoRequest
    <3>2. id \in Users
      BY <3>1 DEF AccountsInv, RequestFits
    <3>3. Exists(id)
      BY <1>0, <1>1, <1>6, <3>2 DEF Updates, Exists
    <3>q. QED BY <1>0, <1>6, <3>2, <3>3 DEF Updates
  <2>2. RowSound(WithColumns(user[id], request[s].set), n)
    BY <1>0, <2>1 DEF SequentialInv, After
  <2>3. RowSound(WithColumns(user'[id], request[s].set), n)
    BY <1>1, <1>4, <2>1, <2>2
  <2>4. After(s)' = WithColumns(user'[id], request[s].set)
    BY <1>0 DEF After, WithColumns
  <2>5. FailuresAfter(request[s].op, failures[id])' = n
    BY <1>0 DEF FailuresAfter
  <2>q. QED BY <2>3, <2>4, <2>5 DEF RowSound
<1>q. QED BY <1>0, <1>5, <1>6 DEF SequentialInv

LEMMA SequentialStep ==
    ASSUME AccountsInv, SequentialInv, [AccountsNext]_accountVars
    PROVE  SequentialInv'
<1>1. ASSUME NEW s \in Slots, CommitRegister(s) PROVE SequentialInv'
  <2> DEFINE req == request[s]
  <2>1. /\ req # NoRequest
        /\ user' = [user EXCEPT ![req.id] = req.set]
        /\ failures' = [failures EXCEPT ![req.id] = 0]
        /\ Finish(s)
        /\ overlaps' = overlaps
    BY <1>1 DEF CommitRegister, NoRequest
  <2>2. RequestFits(req) /\ req.op = "register"
    BY <1>1, <2>1 DEF AccountsInv, CommitRegister
  <2>3. RowSound(req.set, 0)
    <3>1. ~(0 >= MaxLoginAttempts)
      BY AttemptsAssumption
    <3>2. PICK e \in Emails : req.set = NewUser(e)
      BY <2>2 DEF RequestFits
    <3>q. QED BY <3>1, <3>2, EmailsAssumption DEF NewUser, RowSound
  <2>4. overlaps = 0 =>
           \A u \in Users : user'[u] # NoUser => RowSound(user'[u], failures'[u])
    BY <2>1, <2>3 DEF AccountsInv, SequentialInv, Exists
  <2>q. QED BY <2>1, <2>4, FinishSequential
<1>2. ASSUME NEW s \in Slots, CommitUpdate(s) PROVE SequentialInv'
  <2> DEFINE req == request[s]
  <2>1. /\ req # NoRequest
        /\ Updates(s)
        /\ user' = [user EXCEPT ![req.id] = After(s)]
        /\ failures' = [failures EXCEPT ![req.id] =
                           FailuresAfter(req.op, failures[req.id])]
        /\ Finish(s)
        /\ overlaps' = overlaps
    BY <1>2 DEF CommitUpdate, NoRequest, Updates, After
  <2>2. overlaps = 0 => RowSound(After(s), FailuresAfter(req.op, failures[req.id]))
    BY <2>1 DEF SequentialInv
  <2>3. overlaps = 0 =>
           \A u \in Users : user'[u] # NoUser => RowSound(user'[u], failures'[u])
    BY <2>1, <2>2 DEF AccountsInv, SequentialInv, Exists
  <2>q. QED BY <2>1, <2>3, FinishSequential
<1>3. ASSUME NEW s \in Slots, CommitErase(s) \/ Abort(s) PROVE SequentialInv'
  <2>1. /\ request[s] # NoRequest
        /\ Finish(s)
        /\ overlaps' = overlaps
        /\ \A u \in Users : user'[u] # NoUser => user'[u] = user[u]
        /\ failures' = failures
    BY <1>3 DEF CommitErase, Abort, NoRequest, AccountsInv
  <2>q. QED BY <2>1, FinishSequential DEF SequentialInv, Exists
<1>4. ASSUME NEW u \in Users, LockExpires(u) \/ GraceEnds(u)
      PROVE  SequentialInv'
  BY <1>4, TimeKeepsSequential
<1>5. CASE UNCHANGED accountVars
  <2>1. UNCHANGED <<user, request, failures, overlaps>>
    BY <1>5 DEF accountVars
  <2>q. QED BY <2>1 DEF SequentialInv, Exists, Updates, After, RowSound,
                        FailuresAfter, WithColumns
<1>6. ASSUME NEW s \in Slots, NEW u \in Users,
             \/ \E e \in Emails : LoadRegister(s, u, e)
             \/ LoadLogin(s, u)
             \/ LoadVerify(s, u)
             \/ \E column \in {"profile", "password"} :
                   LoadOwnColumn(s, u, column)
             \/ LoadRequestDeletion(s, u)
             \/ LoadCancelDeletion(s, u)
             \/ LoadChangeRole(s, u)
             \/ LoadAnonymize(s, u)
             \/ LoadErase(s, u)
      PROVE  SequentialInv'
  BY <1>6, LoadKeepsSequential
<1>q. QED BY <1>1, <1>2, <1>3, <1>4, <1>5, <1>6 DEF AccountsNext

LEMMA SequentialInvHolds == AccountsSpec => [](AccountsInv /\ SequentialInv)
<1>1. AccountsInit => AccountsInv /\ SequentialInv
  BY AccountsInitInv, SequentialInit
<1>2. ASSUME AccountsInv /\ SequentialInv, [AccountsNext]_accountVars
      PROVE  (AccountsInv /\ SequentialInv)'
  BY <1>2, AccountsStep, SequentialStep
<1>q. QED BY <1>1, <1>2, PTL DEF AccountsSpec

\* As long as requests do not overlap, an account is locked from the
\* MaxLoginAttempts-th failed login in a row on.
THEOREM LockMatchesHolds == AccountsSpec => []LockMatchesFailures
<1>1. SequentialInv => LockMatchesFailures
  BY DEF SequentialInv, LockMatchesFailures, RowSound
<1>q. QED BY SequentialInvHolds, <1>1, PTL

\* As long as requests do not overlap, an account that an administrator deleted
\* stays deleted, and its password, its profile and its date of erasure stay gone.
THEOREM DeletedStaysHolds == AccountsSpec => []DeletedStaysAnonymous
<1>1. SequentialInv => DeletedStaysAnonymous
  BY DEF SequentialInv, DeletedStaysAnonymous, RowSound, Exists, NoUser
<1>q. QED BY SequentialInvHolds, <1>1, PTL
=============================================================================
