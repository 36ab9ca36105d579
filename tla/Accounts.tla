------------------------------ MODULE Accounts ------------------------------
(***************************************************************************)
(* User accounts of the resource server: registration, login and the reset *)
(* of a forgotten password in routers/users.py over repositories/user.py.  *)
(* Each endpoint reads in one session and writes in another, or reads      *)
(* twice; accounts are soft-deleted and recovered in between.              *)
(*                                                                         *)
(* A password stands for its hash; usernames stand for usernames and email *)
(* addresses, which are looked up and constrained alike.  Any lookup or    *)
(* statement may raise (Fail): as it stands the INSERT of add_user always  *)
(* does, for want of a RETURNING clause.                                   *)
(***************************************************************************)
EXTENDS Naturals, FiniteSets

CONSTANTS
    User,         \* ids of accounts
    Name,         \* usernames
    Password,
    Request,      \* requests in progress, in any worker process
    Idle,         \* a request slot in which nothing runs
    None,         \* no account, no token
    MaxTokens     \* bound: recovery tokens issued in a behaviour

ASSUME RequestAssumption == Idle \notin Request /\ None \notin User
ASSUME MaxTokensAssumption == MaxTokens \in Nat

\* Rows of the two tables.
Row == [name : Name, password : Password, deleted : BOOLEAN]
Token == [url : 1 .. MaxTokens, expired : BOOLEAN]

ASSUME NoneAssumption == None \notin Row /\ None \notin Token

VARIABLES
    user,         \* the users table: None or [name, password, deleted]
    token,        \* password_recovery_tokens: None or [url, expired]
    urls,         \* the url tokens generated so far are 1 .. urls
    req           \* each request: what it asks, what it has read, its next step

vars == <<user, token, urls, req>>

Kinds == {"register", "recover", "reset", "login"}
Steps == {"read", "write", "password", "granted"}

(***************************************************************************)
(* Requests.  The client gives a name, a password or a url, or the id in a *)
(* path.  passwords, held and lived are history of the account the request *)
(* is about (`on`), since the request began: the passwords and the url it  *)
(* has had, and whether it was there and not deleted.                      *)
(***************************************************************************)

Alive(u) == user[u] # None /\ ~user[u].deleted

Begin(r, kind, u, n, p, url) ==
    /\ req[r] = Idle
    /\ kind # "reset" => url = 0                          \* no url
    /\ kind \in {"login", "recover"} => user[u] # None /\ user[u].name = n
    /\ kind = "reset" => user[u] # None /\ user[u].name = n
    /\ req' = [req EXCEPT ![r] =
          [kind |-> kind, on |-> u, name |-> n, password |-> p, url |-> url, at |-> "read",
           passwords |-> IF user[u] = None THEN {} ELSE {user[u].password},
           held |-> IF token[u] = None THEN {} ELSE {token[u].url},
           lived |-> Alive(u)]]
    /\ UNCHANGED <<user, token, urls>>

At(r, kind, step) == req[r] # Idle /\ req[r].kind = kind /\ req[r].at = step
Advance(r, step) == req' = [req EXCEPT ![r].at = step]

\* What the requests under way see of their accounts after a statement that leaves table us and
\* tokens ts; r, whose statement it was, ends.
Observe(us, ts, r) ==
    req' = [x \in Request |->
        IF req[x] = Idle \/ x = r THEN Idle
        ELSE LET u == req[x].on IN
             [req[x] EXCEPT
                !.passwords = IF us[u] = None THEN @ ELSE @ \cup {us[u].password},
                !.held = IF ts[u] = None THEN @ ELSE @ \cup {ts[u].url},
                !.lived = @ \/ (us[u] # None /\ ~us[u].deleted)]]

\* An HTTPException, or a call that raises; or the answer to a login that was granted.
Fail(r) ==
    /\ req[r] # Idle
    /\ req' = [req EXCEPT ![r] = Idle]
    /\ UNCHANGED <<user, token, urls>>

(***************************************************************************)
(* register                                                                *)
(***************************************************************************)

NameFree(n) == \A u \in User : user[u] # None => user[u].name # n

\* get_user_by_identity: deleted accounts count
get_user_by_identity(r) ==
    /\ At(r, "register", "read")
    /\ NameFree(req[r].name)
    /\ Advance(r, "write")
    /\ UNCHANGED <<user, token, urls>>

\* Mutant of add_user: the password column is left to the database.
add_user_without_password(r) ==
    LET u == req[r].on
    IN  /\ At(r, "register", "write")
        /\ user[u] = None
        /\ NameFree(req[r].name)
        /\ user' = [user EXCEPT ![u] = [name |-> req[r].name, password |-> None, deleted |-> FALSE]]
        /\ Observe(user', token, r)
        /\ UNCHANGED <<token, urls>>

\* add_user: the id is a new one, and the columns are unique
add_user(r) ==
    LET u == req[r].on
    IN  /\ At(r, "register", "write")
        /\ user[u] = None
        /\ NameFree(req[r].name)
        /\ user' = [user EXCEPT ![u] = [name |-> req[r].name, password |-> req[r].password,
                                        deleted |-> FALSE]]
        /\ Observe(user', token, r)
        /\ UNCHANGED <<token, urls>>

(***************************************************************************)
(* recover_password and update_password                                    *)
(***************************************************************************)

\* Mutant of Found: deleted accounts are found too.
FoundDeleted(u, n) == user[u] # None /\ user[u].name = n

\* get_user_by_username, get_user_by_email
Found(u, n) == Alive(u) /\ user[u].name = n

find_for_recovery(r) ==
    /\ At(r, "recover", "read")
    /\ Found(req[r].on, req[r].name)
    /\ Advance(r, "write")
    /\ UNCHANGED <<user, token, urls>>

\* The token the account had is replaced, in one transaction.
set_password_recovery_token(r) ==
    /\ At(r, "recover", "write")
    /\ urls < MaxTokens
    /\ urls' = urls + 1
    /\ token' = [token EXCEPT ![req[r].on] = [url |-> urls', expired |-> FALSE]]
    /\ Observe(user, token', r)
    /\ UNCHANGED user

token_expires(u) ==
    /\ token[u] # None /\ ~token[u].expired
    /\ token' = [token EXCEPT ![u].expired = TRUE]
    /\ UNCHANGED <<user, urls, req>>

\* Mutant of Accepted: any token of the account will do.
AcceptedAny(t, url) == t.expired

\* The url is the account's; the test of the time is the wrong way round, and refuses
\* the token until it has expired.
Accepted(t, url) == t.url = url /\ t.expired

\* get_user_password_recovery_token and the tests on it; a deleted account is found
check_token(r) ==
    LET u == req[r].on
    IN  /\ At(r, "reset", "read")
        /\ user[u] # None /\ token[u] # None
        /\ Accepted(token[u], req[r].url)
        /\ Advance(r, "write")
        /\ UNCHANGED <<user, token, urls>>

\* update_password: the DELETE names the users table, and so takes every token there is
update_password(r) ==
    LET u == req[r].on
    IN  /\ At(r, "reset", "write")
        /\ user' = [user EXCEPT ![u].password = req[r].password]
        /\ token' = [x \in User |-> None]
        /\ Observe(user', token', r)
        /\ UNCHANGED urls

(***************************************************************************)
(* login                                                                   *)
(***************************************************************************)

find_for_login(r) ==
    /\ At(r, "login", "read")
    /\ Found(req[r].on, req[r].name)
    /\ Advance(r, "password")
    /\ UNCHANGED <<user, token, urls>>

\* get_user_password, in another session, whatever has become of the account
check_password(r) ==
    /\ At(r, "login", "password")
    /\ user[req[r].on].password = req[r].password
    /\ Advance(r, "granted")
    /\ UNCHANGED <<user, token, urls>>

(***************************************************************************)
(* delete_user and recover_user of the repository                          *)
(***************************************************************************)

delete_user(u) ==
    /\ Alive(u)
    /\ user' = [user EXCEPT ![u].deleted = TRUE]
    /\ Observe(user', token, None)
    /\ UNCHANGED <<token, urls>>

recover_user(u) ==
    /\ user[u] # None /\ user[u].deleted
    /\ user' = [user EXCEPT ![u].deleted = FALSE]
    /\ Observe(user', token, None)
    /\ UNCHANGED <<token, urls>>

(***************************************************************************)
(* Specification                                                           *)
(***************************************************************************)

Init ==
    /\ user = [u \in User |-> None]
    /\ token = [u \in User |-> None]
    /\ urls = 0
    /\ req = [r \in Request |-> Idle]

Next ==
    \/ \E r \in Request :
          \/ \E k \in Kinds, u \in User, n \in Name, p \in Password, url \in 0 .. urls :
                Begin(r, k, u, n, p, url)
          \/ get_user_by_identity(r) \/ add_user(r)
          \/ find_for_recovery(r) \/ set_password_recovery_token(r)
          \/ check_token(r) \/ update_password(r)
          \/ find_for_login(r) \/ check_password(r)
          \/ Fail(r)
    \/ \E u \in User : token_expires(u) \/ delete_user(u) \/ recover_user(u)

Spec == Init /\ [][Next]_vars

(***************************************************************************)
(* Properties                                                              *)
(***************************************************************************)

Asked == [kind : Kinds, on : User, name : Name, password : Password, url : 0 .. MaxTokens,
          at : Steps, passwords : SUBSET Password, held : SUBSET (1 .. MaxTokens), lived : BOOLEAN]

\* Types of the two tables, the generated urls and the requests; two accounts, deleted or
\* not, never have one name, although register looks it up in another session.
TypeOK ==
    /\ user \in [User -> Row \cup {None}]
    /\ token \in [User -> Token \cup {None}]
    /\ urls \in 0 .. MaxTokens
    /\ req \in [Request -> Asked \cup {Idle}]
    /\ \A u, v \in User : u # v /\ user[u] # None /\ user[v] # None => user[u].name # user[v].name

\* A password changes only by a request that presented a url generated for that very
\* account and stored for it at some moment of the request.  It may have been replaced or
\* used up since the request read it: two resets with one url can both succeed.
ResetByOwnToken ==
    [][\A u \in User :
          user[u] # None /\ user'[u].password # user[u].password
          => \E r \in Request : /\ req[r] # Idle /\ req'[r] = Idle
                                /\ req[r].kind = "reset" /\ req[r].on = u
                                /\ req[r].url \in req[r].held]_vars

\* Login is granted only with a password the account had, on an account that was there and
\* not deleted, each at some moment of the request: the account and its password are read
\* one after the other, and neither answer is older than the request.
LoginTrue ==
    \A r \in Request :
        At(r, "login", "granted") => req[r].password \in req[r].passwords /\ req[r].lived
=============================================================================
