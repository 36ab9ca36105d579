--------------------------- MODULE AdminAccounts ----------------------------
(***************************************************************************)
(* The admin accounts of the auth server: routers/admin.py, the dependency *)
(* that validates an admin's session, and report_suspicious_activity,      *)
(* which may lock accounts.  Requests run in several worker processes over *)
(* one database, whose row locks SELECT ... FOR UPDATE and UPDATE take     *)
(* until the transaction ends, and one Redis, which holds a session hash   *)
(* per admin.                                                              *)
(*                                                                         *)
(* Several Redis calls of the handlers are not awaited, so the coroutine   *)
(* they return is never run, and the ECDSA check is called with arguments  *)
(* it rejects.  The model is of both the code as it stands and the code    *)
(* with those calls made: a call that is not awaited takes effect or does  *)
(* not, and any step may raise (Fail).                                     *)
(***************************************************************************)
EXTENDS Naturals, FiniteSets

CONSTANTS
    Admin,        \* ids of admin accounts
    Root,         \* the super admin the deployment starts with
    Request,      \* requests in progress, in any worker process
    Idle,         \* a request slot in which nothing runs
    Free,         \* a row nobody has locked
    Limit,        \* config.ADMIN.MAX_ACTIVITY_LIMIT
    MaxRows       \* bound: suspicious activities logged per admin

ASSUME RootAssumption == Root \in Admin
ASSUME RequestAssumption == Idle \notin Request /\ Free \notin Request
ASSUME LimitAssumption == Limit \in Nat /\ MaxRows \in Nat

VARIABLES
    state,        \* the admins table: "none", "live" or "deleted" (time_deleted is set)
    locked,       \* its locked column
    holder,       \* who holds each row's lock
    activity,     \* rows of suspicious_activities on each admin
    session,      \* the admins with a session hash in Redis
    req           \* each request: what it asks and its next step

vars == <<state, locked, holder, activity, session, req>>

table == <<state, locked, holder>>

\* ROLE_PERMISSIONS, as far as these endpoints ask for them.  create_admin makes staff,
\* who may neither create nor delete accounts, but may rotate keys.
Role(a) == IF a = Root THEN "super" ELSE "staff"

ROLE_PERMISSIONS == [super |-> {"create_admin", "delete_admin", "rotate_key", "invalidate_key"},
                     staff |-> {"rotate_key"}]
Needs == [create |-> "create_admin", delete |-> "delete_admin",
          rotate |-> "rotate_key", invalidate |-> "invalidate_key"]

\* The endpoints with a session: of the admin router, and the two of the key store that
\* report the admin who calls them (what else these do, KeyStore models).
Behind == {"delete", "create", "refresh", "rotate", "invalidate"}
Kinds == Behind \cup {"login", "lock", "unlock"}  \* what a request may ask

(***************************************************************************)
(* Requests.  by: whose session or credentials; to: the account acted on;  *)
(* report, grounds: on whom a report is being filed, and for what; during: *)
(* history, whether `by` has had a session since the request began.        *)
(***************************************************************************)

Steps == {"verify", "read", "write", "sign", "refresh", "count", "lock all",
          "commit report", "log out"}

Grounds == {"none", "login", "no session", "bad signature", "digest", "cooldown", "active key"}

Asked == [kind : Kinds \cup {"report"}, by : Admin, to : Admin, report : Admin, grounds : Grounds,
          at : Steps, during : BOOLEAN]

\* A slot in which nothing runs is no request.
ASSUME IdleAssumption == Idle \notin Asked

Begin(r, kind, a, b) ==
    /\ req[r] = Idle
    /\ kind \in {"login", "rotate", "invalidate"} => a = b
    /\ kind \in {"lock", "unlock"} => a = Root         \* no caller is asked for
    /\ req' = [req EXCEPT ![r] = [kind |-> kind, by |-> a, to |-> b, report |-> a, grounds |-> "none",
                                  at |-> IF kind \in Behind THEN "verify" ELSE "read",
                                  during |-> a \in session]]
    /\ UNCHANGED <<table, activity, session>>

At(r, step) == req[r] # Idle /\ req[r].at = step
Advance(r, step) == req' = [req EXCEPT ![r].at = step]
End(r) == req' = [req EXCEPT ![r] = Idle]
Release(r) == holder' = [a \in Admin |-> IF holder[a] = r THEN Free ELSE holder[a]]

\* An HTTPException, or a call that raises: the transaction, if any, rolls back.
Fail(r) ==
    /\ req[r] # Idle
    /\ End(r)
    /\ Release(r)
    /\ UNCHANGED <<state, locked, activity, session>>

(***************************************************************************)
(* report_suspicious_activity.  The count sees the committed rows that are *)
(* recent enough and the one just inserted, not what others have not       *)
(* committed yet; UPDATE admins has no WHERE clause.                       *)
(***************************************************************************)

\* Once it has reported, the request raises: what it asked no longer matters.
Report(r, a, grounds) ==
    req' = [req EXCEPT ![r].at = "count", ![r].report = a, ![r].grounds = grounds,
                       ![r].kind = "report", ![r].to = a, ![r].by = a,
                       ![r].during = @ /\ grounds \in {"cooldown", "active key"}]

\* Mutant of Forced: force_logout is left at its default everywhere.
ForcedByDefault == Grounds

\* The reports that leave force_logout at True.
Forced == {"bad signature", "digest", "cooldown", "active key"}

count(r) ==
    /\ At(r, "count")
    /\ activity[req[r].report] < MaxRows
    /\ \E recent \in 0 .. activity[req[r].report] :
          Advance(r, IF req[r].grounds \in Forced /\ recent + 1 >= Limit THEN "lock all" ELSE "commit report")
    /\ UNCHANGED <<table, activity, session>>

\* The UPDATE takes every row; the session goes before the commit.
lock_all(r) ==
    /\ At(r, "lock all")
    /\ \A a \in Admin : holder[a] = Free
    /\ holder' = [a \in Admin |-> r]
    /\ session' = session \ {req[r].report}
    /\ Advance(r, "commit report")
    /\ UNCHANGED <<state, locked, activity>>

commit_report(r) ==
    LET a == req[r].report
    IN  /\ At(r, "commit report")
        /\ activity[a] < MaxRows
        /\ activity' = [activity EXCEPT ![a] = @ + 1]
        /\ locked' = [x \in Admin |-> locked[x] \/ (holder[x] = r /\ state[x] # "none")]
        /\ Release(r)
        /\ End(r)
        /\ UNCHANGED <<state, session>>

(***************************************************************************)
(* admin_login                                                             *)
(***************************************************************************)

\* The account is locked, the password is wrong, or (the coroutine is always true) a
\* session is active: each files a report.  Otherwise a session is created.
admin_login(r) ==
    LET a == req[r].by
    IN  /\ At(r, "read") /\ req[r].kind = "login"
        /\ state[a] = "live"
        /\ \/ Report(r, a, "login")
           \/ ~locked[a] /\ Advance(r, "sign")
        /\ UNCHANGED <<table, activity, session>>

create_admin_session(a) == session \cup {a}

\* The session hash is written and the token signed; the last_login of all admins is
\* updated without a commit, which undoes it.  Whoever is validating meanwhile sees it.
sign_session(r) ==
    LET a == req[r].by
    IN  /\ At(r, "sign")
        /\ session' = session \/ session' = create_admin_session(a)
        /\ req' = [x \in Request |->
              IF x = r THEN Idle
              ELSE IF req[x] # Idle /\ req[x].by = a
                        /\ req[x].at \in {"verify", "read", "write"}
                   THEN [req[x] EXCEPT !.during = @ \/ a \in session'] ELSE req[x]]
        /\ UNCHANGED <<table, activity>>

(***************************************************************************)
(* validate_admin_session and require_permissions: the dependency of the   *)
(* endpoints of Behind.  The client presents a token of `by`.              *)
(***************************************************************************)

\* BadSignatureError.  The account need not exist for a token to name it, but its
\* verification key must be found.
bad_signature(r) ==
    /\ At(r, "verify")
    /\ state[req[r].by] # "none"
    /\ Report(r, req[r].by, "bad signature")
    /\ UNCHANGED <<table, activity, session>>

\* A token whose signature is good (it was signed at some login of that account, now or
\* long ago): it has expired, and so goes the session.
expired(r) ==
    /\ At(r, "verify")
    /\ state[req[r].by] # "none"
    /\ session' = session \ {req[r].by}
    /\ End(r)
    /\ UNCHANGED <<table, activity>>

\* Mutant of HasSession: the token's signature is enough.
SignatureEnough(a) == TRUE

\* The server-side session is there.
HasSession(a) == a \in session

verified(r) ==
    LET q == req[r]
    IN  /\ At(r, "verify")
        /\ state[q.by] # "none"
        /\ IF ~HasSession(q.by) THEN Report(r, q.by, "no session")
           ELSE IF q.kind = "refresh" THEN Advance(r, "refresh")
           ELSE /\ Needs[q.kind] \in ROLE_PERMISSIONS[Role(q.by)]
                /\ Advance(r, "read")
        /\ UNCHANGED <<table, activity, session>>

\* admin_refresh: the digest of the account the body names.  The iterations are used up
\* or there is no digest, which ends that session; it differs, which is reported; it is
\* the same, and session_key is not defined.
admin_refresh(r) ==
    LET b == req[r].to
    IN  /\ At(r, "refresh")
        /\ \/ \E s \in {session, session \ {b}} : session' = s /\ End(r)
           \/ state[b] # "none" /\ Report(r, b, "digest") /\ UNCHANGED session
        /\ UNCHANGED <<table, activity>>

\* rotate_keys, behind a session: a staff admin is reported during the cooldown (always:
\* the flag read is a coroutine, which is true), as the error says that is returned,
\* "Repeated attempt will lead to account lock".
rotate_keys(r) ==
    LET a == req[r].by
    IN  /\ At(r, "read") /\ req[r].kind = "rotate"
        /\ \/ Role(a) = "staff" /\ Report(r, a, "cooldown")
           \/ End(r)
        /\ UNCHANGED <<table, activity, session>>

\* invalidate_key, behind a session: whoever names the active key is reported.
invalidate_key(r) ==
    /\ At(r, "read") /\ req[r].kind = "invalidate"
    /\ Report(r, req[r].by, "active key") \/ End(r)
    /\ UNCHANGED <<table, activity, session>>

(***************************************************************************)
(* admin_delete, create_admin, admin_logout                                *)
(***************************************************************************)

\* The session of the deleted account is left alone.
admin_delete(r) ==
    LET b == req[r].to
    IN  /\ At(r, "read") /\ req[r].kind = "delete"
        /\ state[b] = "live"
        /\ Advance(r, "write")
        /\ UNCHANGED <<table, activity, session>>

\* Mutant of delete_commit: the account is marked as locked, not as deleted.
delete_locks(r) ==
    LET b == req[r].to
    IN  /\ At(r, "write") /\ req[r].kind = "delete"
        /\ holder[b] = Free
        /\ state' = [state EXCEPT ![b] = "locked"]
        /\ End(r)
        /\ UNCHANGED <<locked, holder, activity, session>>

delete_commit(r) ==
    LET b == req[r].to
    IN  /\ At(r, "write") /\ req[r].kind = "delete"
        /\ holder[b] = Free
        /\ state' = [state EXCEPT ![b] = "deleted"]
        /\ End(r)
        /\ UNCHANGED <<locked, holder, activity, session>>

\* The id is a new one; that the username is unique, the column sees to.
create_admin(r) ==
    LET b == req[r].to
    IN  /\ At(r, "read") /\ req[r].kind = "create"
        /\ state[b] = "none"
        /\ holder[b] = Free
        /\ state' = [state EXCEPT ![b] = "live"]
        /\ End(r)
        /\ UNCHANGED <<locked, holder, activity, session>>

\* admin_logout: asks for no session, and deletes without awaiting.
admin_logout(b) ==
    /\ session' = session \ {b}
    /\ UNCHANGED <<table, activity, req>>

(***************************************************************************)
(* admin_lock and admin_unlock: SELECT ... FOR UPDATE, then UPDATE.        *)
(***************************************************************************)

\* Mutant of for_update: the SELECT takes no lock.
for_nothing(r, b) == holder' = holder

\* Waits for the row's lock and takes it.
for_update(r, b) == holder[b] = Free /\ holder' = [holder EXCEPT ![b] = r]

select_account(r) ==
    LET q == req[r]
    IN  /\ At(r, "read") /\ q.kind \in {"lock", "unlock"}
        /\ state[q.to] # "none"
        /\ locked[q.to] = (q.kind = "unlock")
        /\ for_update(r, q.to)
        /\ Advance(r, "write")
        /\ UNCHANGED <<state, locked, activity, session>>

admin_lock(r) ==
    LET b == req[r].to
    IN  /\ At(r, "write") /\ req[r].kind = "lock"
        /\ holder[b] \in {r, Free}
        /\ locked' = [locked EXCEPT ![b] = TRUE]
        /\ Release(r)
        /\ Advance(r, "log out")
        /\ UNCHANGED <<state, activity, session>>

\* After the commit the session is deleted, again without awaiting.
lock_logs_out(r) ==
    /\ At(r, "log out")
    /\ \E s \in {session, session \ {req[r].to}} : session' = s
    /\ End(r)
    /\ UNCHANGED <<table, activity>>

admin_unlock(r) ==
    LET b == req[r].to
    IN  /\ At(r, "write") /\ req[r].kind = "unlock"
        /\ holder[b] \in {r, Free}
        /\ locked' = [locked EXCEPT ![b] = FALSE]
        /\ Release(r)
        /\ End(r)
        /\ UNCHANGED <<state, activity, session>>

(***************************************************************************)
(* Specification                                                           *)
(***************************************************************************)

Init ==
    /\ state = [a \in Admin |-> IF a = Root THEN "live" ELSE "none"]
    /\ locked = [a \in Admin |-> FALSE]
    /\ holder = [a \in Admin |-> Free]
    /\ activity = [a \in Admin |-> 0]
    /\ session = {}
    /\ req = [r \in Request |-> Idle]

Next ==
    \/ \E r \in Request :
          \/ \E k \in Kinds, a, b \in Admin : Begin(r, k, a, b)
          \/ count(r) \/ lock_all(r) \/ commit_report(r)
          \/ admin_login(r) \/ sign_session(r)
          \/ bad_signature(r) \/ expired(r) \/ verified(r) \/ admin_refresh(r)
          \/ rotate_keys(r) \/ invalidate_key(r)
          \/ admin_delete(r) \/ delete_commit(r) \/ create_admin(r)
          \/ select_account(r) \/ admin_lock(r) \/ lock_logs_out(r) \/ admin_unlock(r)
          \/ Fail(r)
    \/ \E b \in Admin : admin_logout(b)

Spec == Init /\ [][Next]_vars

(***************************************************************************)
(* Properties                                                              *)
(***************************************************************************)

States == {"none", "live", "deleted"}
Rows == 0 .. MaxRows

\* Types of the table, its row locks, the log, the sessions and the requests.
TypeOK ==
    /\ state \in [Admin -> States]
    /\ locked \in [Admin -> BOOLEAN]
    /\ holder \in [Admin -> Request \cup {Free}]
    /\ activity \in [Admin -> Rows]
    /\ session \subseteq Admin
    /\ req \in [Request -> Asked \cup {Idle}]

\* What a report may lock accounts for: a session token that fails validation, a wrong
\* revival digest, or, in a session seen during the request, a rotation in the cooldown by
\* staff or an invalidation of the active key by a super.
Grave(q) == \/ q.grounds \in {"bad signature", "digest"}
            \/ q.grounds = "cooldown" /\ Role(q.report) = "staff" /\ q.during
            \/ q.grounds = "active key" /\ Role(q.report) = "super" /\ q.during

\* An account is locked only by admin_lock on it, or by a grave report when as many
\* activities as the limit allows have been logged on one admin: however often somebody
\* fails to log in or returns without a session, that alone locks nobody out, although
\* report_suspicious_activity logs it, counts it towards the limit and, once it locks,
\* locks all.  A valid session is no protection: the key store's reports are grave too.
LockJustified ==
    [][\A a \in Admin :
          locked'[a] /\ ~locked[a] =>
              \/ \E r \in Request : /\ req[r] # Idle /\ req'[r] # req[r]
                                    /\ req[r].kind = "lock" /\ req[r].to = a
              \/ \E r \in Request : /\ req[r] # Idle /\ req'[r] = Idle /\ Grave(req[r])
                                    /\ activity'[req[r].report] >= Limit]_vars

\* A 200 of admin_lock or admin_unlock is from the request that changed the account:
\* between the SELECT ... FOR UPDATE that finds it unlocked (locked) and the commit, no
\* other request and no report changes it, so the 409s of the two endpoints are right.
LockFlips ==
    \A r \in Request :
        At(r, "write") /\ req[r].kind \in {"lock", "unlock"}
        => locked[req[r].to] = (req[r].kind = "unlock")

\* An account is created or deleted only by a request of an admin whose role permits it,
\* and whose session was in Redis at some moment of that very request; a logout or a lock
\* in the middle of the request does not stop it.  Of the target's role it says nothing:
\* auth_server/README.md:367 rules out the deletion of a super, admin_delete does not look.
ActsInSession ==
    [][\A a \in Admin :
          state'[a] # state[a] =>
              \E r \in Request :
                  /\ req[r] # Idle /\ req'[r] = Idle /\ req[r].to = a
                  /\ req[r].during /\ Role(req[r].by) = "super"]_vars
=============================================================================
