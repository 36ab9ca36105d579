--------------------------- MODULE AccountsProofs ---------------------------
(***************************************************************************)
(* Types, unique names, logins and resets of Accounts, for any sets of     *)
(* accounts, names, passwords and requests.                                *)
(*                                                                         *)
(* A request decides on what it has read in another session.  What stays   *)
(* true of it until it ends is in Recalled: its history holds the password *)
(* and the url its account has now, and whatever it has tested.            *)
(***************************************************************************)
EXTENDS Accounts, TLAPS

\* The history of q is up to date in the table us and with the tokens ts.
UpToDate(q, us, ts) ==
    /\ us[q.on] # None => us[q.on].password \in q.passwords
    /\ ts[q.on] # None => ts[q.on].url \in q.held
    /\ us[q.on] # None /\ ~us[q.on].deleted => q.lived

\* What q has found out stays in its history; an account that was found stays in the table.
Tested(q, us) ==
    /\ q.kind = "login" /\ q.at \in {"password", "granted"} => q.lived /\ us[q.on] # None
    /\ q.kind = "login" /\ q.at = "granted" => q.password \in q.passwords
    /\ q.kind = "reset" /\ q.at = "write" => q.url \in q.held /\ us[q.on] # None

Recalled == \A r \in Request : req[r] # Idle => UpToDate(req[r], user, token) /\ Tested(req[r], user)

IInv == TypeOK /\ Recalled

\* Who observes a statement keeps the type and the memory; the statement may replace the
\* table by us and the tokens by ts, but not remove an account.
LEMMA ObserveKeeps ==
    ASSUME IInv,
           NEW us \in [User -> Row \cup {None}], NEW ts \in [User -> Token \cup {None}], NEW r,
           \A u \in User : user[u] # None => us[u] # None,
           Observe(us, ts, r)
    PROVE  /\ req' \in [Request -> Asked \cup {Idle}]
           /\ \A x \in Request : req'[x] # Idle => UpToDate(req'[x], us, ts) /\ Tested(req'[x], us)
<1> SUFFICES ASSUME NEW x \in Request
             PROVE  /\ req'[x] \in Asked \cup {Idle}
                    /\ req'[x] # Idle => UpToDate(req'[x], us, ts) /\ Tested(req'[x], us)
    BY DEF Observe
<1>1. CASE req[x] = Idle \/ x = r
    BY <1>1 DEF Observe
<1>2. CASE req[x] # Idle /\ x # r
  <2> DEFINE q == req[x]
             u == q.on
             ps == IF us[u] = None THEN q.passwords ELSE q.passwords \cup {us[u].password}
             hs == IF ts[u] = None THEN q.held ELSE q.held \cup {ts[u].url}
             lv == q.lived \/ (us[u] # None /\ ~us[u].deleted)
  <2>1. q \in Asked /\ UpToDate(q, user, token) /\ Tested(q, user)
      BY <1>2 DEF IInv, TypeOK, Recalled
  <2>2. u \in User /\ us[u] \in Row \cup {None} /\ ts[u] \in Token \cup {None}
      BY <2>1 DEF Asked
  <2>3. ps \in SUBSET Password
      BY <2>1, <2>2 DEF Asked, Row
  <2>4. hs \in SUBSET (1 .. MaxTokens)
      BY <2>1, <2>2 DEF Asked, Token
  <2>5. lv \in BOOLEAN
      BY <2>1, <2>2 DEF Asked, Row
  <2>6. req'[x] = [q EXCEPT !.passwords = ps, !.held = hs, !.lived = lv]
      BY <1>2 DEF Observe
  <2>7. /\ us[u] # None => us[u].password \in ps
        /\ ts[u] # None => ts[u].url \in hs
        /\ us[u] # None /\ ~us[u].deleted => lv
        /\ q.passwords \subseteq ps /\ q.held \subseteq hs /\ (q.lived => lv)
      OBVIOUS
  <2> HIDE DEF ps, hs, lv
  <2>8. PICK p : p = [q EXCEPT !.passwords = ps, !.held = hs, !.lived = lv]
      OBVIOUS
  <2>9. /\ p \in Asked /\ p.kind = q.kind /\ p.at = q.at /\ p.on = u
        /\ p.password = q.password /\ p.url = q.url
        /\ p.passwords = ps /\ p.held = hs /\ p.lived = lv
      BY <2>1, <2>3, <2>4, <2>5, <2>8 DEF Asked
  <2>10. UpToDate(p, us, ts)
      BY <2>7, <2>9 DEF UpToDate
  <2>11. user[u] # None => us[u] # None
      BY <2>2
  <2>12. Tested(p, us)
      BY <2>1, <2>7, <2>9, <2>11 DEF Tested
  <2> QED BY <2>6, <2>8, <2>9, <2>10, <2>12
<1> QED BY <1>1, <1>2

\* The initial state.
LEMMA InitIInv == Init => IInv
    BY MaxTokensAssumption DEF Init, IInv, TypeOK, Recalled

(***************************************************************************)
(* Lookups                                                                 *)
(***************************************************************************)

\* The steps that leave the tables alone and move one request.
Lookup(r) ==
    \/ \E k \in Kinds, u \in User, n \in Name, p \in Password, url \in 0 .. urls :
          Begin(r, k, u, n, p, url)
    \/ get_user_by_identity(r) \/ find_for_recovery(r) \/ check_token(r)
    \/ find_for_login(r) \/ check_password(r) \/ Fail(r)

\* A request that moves on to the step `at` remembers what it has tested.
LEMMA AdvanceKeeps ==
    ASSUME IInv, NEW r \in Request, req[r] # Idle, NEW at \in Steps, Advance(r, at),
           req[r].kind = "login" /\ at \in {"password", "granted"} =>
               req[r].lived /\ user[req[r].on] # None,
           req[r].kind = "login" /\ at = "granted" => req[r].password \in req[r].passwords,
           req[r].kind = "reset" /\ at = "write" => req[r].url \in req[r].held /\ user[req[r].on] # None
    PROVE  /\ req' = [req EXCEPT ![r] = req'[r]]
           /\ req'[r] \in Asked /\ UpToDate(req'[r], user, token) /\ Tested(req'[r], user)
<1> DEFINE q == req[r]
<1>1. q \in Asked /\ UpToDate(q, user, token)
    BY DEF IInv, TypeOK, Recalled
<1>2. PICK p : p = [q EXCEPT !.at = at]
    OBVIOUS
<1>3. /\ p \in Asked /\ p.at = at /\ p.kind = q.kind /\ p.on = q.on /\ p.password = q.password
      /\ p.url = q.url /\ p.passwords = q.passwords /\ p.held = q.held /\ p.lived = q.lived
    BY <1>1, <1>2 DEF Asked
<1>4. UpToDate(p, user, token) /\ Tested(p, user)
    BY <1>1, <1>3 DEF UpToDate, Tested
<1>5. req' = [req EXCEPT ![r] = p] /\ req'[r] = p
    BY <1>2 DEF Advance, IInv, TypeOK
<1> QED BY <1>3, <1>4, <1>5

\* A lookup changes one request, to one that is of its type and remembers.
LEMMA LookupStep ==
    ASSUME IInv, NEW r \in Request, Lookup(r)
    PROVE  /\ UNCHANGED <<user, token, urls>>
           /\ req' = [req EXCEPT ![r] = req'[r]]
           /\ req'[r] # Idle => /\ req'[r] \in Asked
                               /\ UpToDate(req'[r], user, token) /\ Tested(req'[r], user)
<1>0. UNCHANGED <<user, token, urls>>
    BY DEF Lookup, Begin, get_user_by_identity, find_for_recovery, check_token, find_for_login,
           check_password, Fail
<1>1. ASSUME NEW k \in Kinds, NEW u \in User, NEW n \in Name, NEW p \in Password,
             NEW url \in 0 .. urls, Begin(r, k, u, n, p, url)
      PROVE  /\ req' = [req EXCEPT ![r] = req'[r]]
             /\ req'[r] \in Asked /\ UpToDate(req'[r], user, token) /\ Tested(req'[r], user)
  <2> DEFINE ps == IF user[u] = None THEN {} ELSE {user[u].password}
             hs == IF token[u] = None THEN {} ELSE {token[u].url}
             lv == Alive(u)
  <2>1. user[u] \in Row \cup {None} /\ token[u] \in Token \cup {None}
      BY DEF IInv, TypeOK
  <2>2. ps \in SUBSET Password /\ hs \in SUBSET (1 .. MaxTokens) /\ lv \in BOOLEAN
      BY <2>1 DEF Row, Token, Alive
  <2>3. /\ user[u] # None => user[u].password \in ps
        /\ token[u] # None => token[u].url \in hs
        /\ user[u] # None /\ ~user[u].deleted => lv
      BY DEF Alive
  <2>4. url \in 0 .. MaxTokens
      BY MaxTokensAssumption DEF IInv, TypeOK
  <2>5. req' = [req EXCEPT ![r] = [kind |-> k, on |-> u, name |-> n, password |-> p, url |-> url,
                                   at |-> "read", passwords |-> ps, held |-> hs, lived |-> lv]]
      BY <1>1 DEF Begin
  <2> HIDE DEF ps, hs, lv
  <2>6. PICK q : q = [kind |-> k, on |-> u, name |-> n, password |-> p, url |-> url,
                      at |-> "read", passwords |-> ps, held |-> hs, lived |-> lv]
      OBVIOUS
  <2>7. q \in Asked /\ q.at = "read" /\ q.on = u /\ q.passwords = ps /\ q.held = hs /\ q.lived = lv
      BY <2>2, <2>4, <2>6 DEF Asked, Steps
  <2>8. UpToDate(q, user, token) /\ Tested(q, user)
      BY <2>3, <2>7 DEF UpToDate, Tested
  <2>9. req' = [req EXCEPT ![r] = q] /\ req'[r] = q
      BY <2>5, <2>6 DEF IInv, TypeOK
  <2> QED BY <2>7, <2>8, <2>9
<1>2. CASE get_user_by_identity(r) \/ find_for_recovery(r)
  <2>1. /\ req[r] # Idle /\ req[r].kind \in {"register", "recover"} /\ "write" \in Steps
        /\ Advance(r, "write")
      BY <1>2 DEF get_user_by_identity, find_for_recovery, At, Steps
  <2> QED BY <1>0, <2>1, AdvanceKeeps
<1>3. CASE check_token(r)
  <2>1. /\ req[r] # Idle /\ req[r].kind = "reset" /\ "write" \in Steps /\ Advance(r, "write")
        /\ user[req[r].on] # None /\ token[req[r].on] # None
        /\ token[req[r].on].url = req[r].url
      BY <1>3 DEF check_token, At, Steps, Accepted
  <2>2. req[r].url \in req[r].held
      BY <2>1 DEF IInv, Recalled, UpToDate
  <2> QED BY <1>0, <2>1, <2>2, AdvanceKeeps
<1>4. CASE find_for_login(r)
  <2>1. /\ req[r] # Idle /\ req[r].kind = "login" /\ "password" \in Steps /\ Advance(r, "password")
        /\ Alive(req[r].on)
      BY <1>4 DEF find_for_login, At, Steps, Found
  <2>2. req[r].lived /\ user[req[r].on] # None
      BY <2>1 DEF IInv, Recalled, UpToDate, Alive
  <2> QED BY <1>0, <2>1, <2>2, AdvanceKeeps
<1>5. CASE check_password(r)
  <2>1. /\ req[r] # Idle /\ req[r].kind = "login" /\ req[r].at = "password"
        /\ "granted" \in Steps /\ Advance(r, "granted")
        /\ user[req[r].on].password = req[r].password
      BY <1>5 DEF check_password, At, Steps
  <2>2. req[r].lived /\ user[req[r].on] # None
      BY <2>1 DEF IInv, Recalled, Tested
  <2>3. req[r].password \in req[r].passwords
      BY <2>1, <2>2 DEF IInv, Recalled, UpToDate
  <2> QED BY <1>0, <2>1, <2>2, <2>3, AdvanceKeeps
<1>6. CASE Fail(r)
    BY <1>0, <1>6 DEF Fail, IInv, TypeOK
<1> QED BY <1>0, <1>1, <1>2, <1>3, <1>4, <1>5, <1>6 DEF Lookup

\* Lookups keep the invariant.
LEMMA LookupIInv ==
    ASSUME IInv, NEW r \in Request, Lookup(r)
    PROVE  IInv'
<1>1. /\ UNCHANGED <<user, token, urls>>
      /\ req' = [req EXCEPT ![r] = req'[r]]
      /\ req'[r] # Idle => /\ req'[r] \in Asked
                           /\ UpToDate(req'[r], user, token) /\ Tested(req'[r], user)
    BY LookupStep
<1>2. TypeOK'
    BY <1>1 DEF IInv, TypeOK
<1>3. \A x \in Request : req'[x] # Idle =>
          UpToDate(req'[x], user, token) /\ Tested(req'[x], user)
    BY <1>1 DEF IInv, TypeOK, Recalled
<1> QED BY <1>1, <1>2, <1>3 DEF IInv, Recalled, UpToDate, Tested

(***************************************************************************)
(* Statements                                                              *)
(***************************************************************************)

\* A statement that leaves accounts of their type, with names of their own, keeps the
\* invariant.
LEMMA StatementIInv ==
    ASSUME IInv, NEW r, Observe(user', token', r),
           user' \in [User -> Row \cup {None}], token' \in [User -> Token \cup {None}],
           urls' \in 0 .. MaxTokens,
           \A u \in User : user[u] # None => user'[u] # None,
           \A u, v \in User : u # v /\ user'[u] # None /\ user'[v] # None
                              => user'[u].name # user'[v].name
    PROVE  IInv'
<1>1. PICK us, ts : us = user' /\ ts = token'
    OBVIOUS
<1>2. /\ req' \in [Request -> Asked \cup {Idle}]
      /\ \A x \in Request : req'[x] # Idle => UpToDate(req'[x], us, ts) /\ Tested(req'[x], us)
    BY <1>1, ObserveKeeps
<1>3. TypeOK'
    BY <1>2 DEF TypeOK
<1>4. Recalled'
    BY <1>1, <1>2 DEF Recalled, UpToDate, Tested
<1> QED BY <1>3, <1>4 DEF IInv

\* add_user: the name is free.
LEMMA AddIInv ==
    ASSUME IInv, NEW r \in Request, add_user(r)
    PROVE  IInv'
<1> DEFINE q == req[r]
           new == [name |-> q.name, password |-> q.password, deleted |-> FALSE]
<1>1. /\ q \in Asked /\ user[q.on] = None /\ NameFree(q.name) /\ user' = [user EXCEPT ![q.on] = new]
      /\ Observe(user', token, r) /\ UNCHANGED <<token, urls>>
    BY DEF add_user, At, IInv, TypeOK
<1>2. new \in Row /\ q.on \in User /\ new.name = q.name
    BY <1>1 DEF Asked, Row
<1>3. new # None
    BY <1>2, NoneAssumption
<1> HIDE DEF new
<1>4. \A u \in User : user'[u] = IF u = q.on THEN new ELSE user[u]
    BY <1>1, <1>2 DEF IInv, TypeOK
<1>5. user' \in [User -> Row \cup {None}]
    BY <1>1, <1>2 DEF IInv, TypeOK
<1>6. \A u, v \in User : u # v /\ user'[u] # None /\ user'[v] # None
                         => user'[u].name # user'[v].name
    BY <1>1, <1>2, <1>4 DEF IInv, TypeOK, NameFree
<1>7. token' \in [User -> Token \cup {None}] /\ urls' \in 0 .. MaxTokens /\ Observe(user', token', r)
    BY <1>1 DEF IInv, TypeOK
<1> QED BY <1>1, <1>3, <1>4, <1>5, <1>6, <1>7, StatementIInv

\* set_password_recovery_token
LEMMA TokenIInv ==
    ASSUME IInv, NEW r \in Request, set_password_recovery_token(r)
    PROVE  IInv'
<1>1. /\ urls < MaxTokens /\ urls' = urls + 1 /\ UNCHANGED user
      /\ token' = [token EXCEPT ![req[r].on] = [url |-> urls', expired |-> FALSE]]
      /\ Observe(user', token', r)
    BY DEF set_password_recovery_token
<1>2. urls' \in 0 .. MaxTokens /\ urls' \in 1 .. MaxTokens
    BY <1>1, MaxTokensAssumption DEF IInv, TypeOK
<1>3. token' \in [User -> Token \cup {None}]
    BY <1>1, <1>2 DEF IInv, TypeOK, Token
<1> QED BY <1>1, <1>2, <1>3, StatementIInv DEF IInv, TypeOK

\* A statement that gives one account a row with the name of the one it had.
LEMMA RowIInv ==
    ASSUME IInv, NEW r, NEW u \in User, user[u] # None, NEW row \in Row, row.name = user[u].name,
           user' = [user EXCEPT ![u] = row], token' \in [User -> Token \cup {None}],
           urls' = urls, Observe(user', token', r)
    PROVE  IInv'
<1>1. row # None
    BY NoneAssumption
<1>2. \A v \in User : user'[v] = IF v = u THEN row ELSE user[v]
    BY DEF IInv, TypeOK
<1>3. user' \in [User -> Row \cup {None}]
    BY DEF IInv, TypeOK
<1>4. \A v, w \in User : v # w /\ user'[v] # None /\ user'[w] # None
                         => user'[v].name # user'[w].name
    BY <1>2 DEF IInv, TypeOK
<1>5. urls' \in 0 .. MaxTokens /\ \A v \in User : user[v] # None => user'[v] # None
    BY <1>1, <1>2 DEF IInv, TypeOK
<1> QED BY <1>3, <1>4, <1>5, StatementIInv

\* What update_password, delete_user and recover_user make of an account's row.
LEMMA RowStep ==
    ASSUME IInv, NEW r, NEW u \in User,
           \/ r \in Request /\ u = req[r].on /\ update_password(r)
           \/ r = None /\ (delete_user(u) \/ recover_user(u))
    PROVE  /\ user[u] # None /\ user[u] \in Row
           /\ \E row \in Row : row.name = user[u].name /\ user' = [user EXCEPT ![u] = row]
           /\ token' \in [User -> Token \cup {None}] /\ urls' = urls /\ Observe(user', token', r)
<1>1. CASE r \in Request /\ u = req[r].on /\ update_password(r)
  <2>1. /\ req[r] # Idle /\ req[r].kind = "reset" /\ req[r].at = "write" /\ req[r].password \in Password
        /\ user' = [user EXCEPT ![u].password = req[r].password]
        /\ token' = [x \in User |-> None] /\ urls' = urls /\ Observe(user', token', r)
      BY <1>1 DEF update_password, At, IInv, TypeOK, Asked
  <2>2. user[u] # None /\ user[u] \in Row
      BY <1>1, <2>1 DEF IInv, TypeOK, Recalled, Tested
  <2>3. [user[u] EXCEPT !.password = req[r].password] \in Row
      BY <2>1, <2>2 DEF Row
  <2>4. [user[u] EXCEPT !.password = req[r].password].name = user[u].name
      BY <2>2 DEF Row
  <2> QED BY <2>1, <2>2, <2>3, <2>4
<1>2. CASE r = None /\ (delete_user(u) \/ recover_user(u))
  <2>1. user[u] # None /\ user[u] \in Row /\ UNCHANGED <<token, urls>> /\ Observe(user', token', r)
      BY <1>2 DEF delete_user, recover_user, Alive, IInv, TypeOK
  <2>2. PICK d \in BOOLEAN : user' = [user EXCEPT ![u] = [user[u] EXCEPT !.deleted = d]]
      BY <1>2 DEF delete_user, recover_user, IInv, TypeOK
  <2>3. [user[u] EXCEPT !.deleted = d] \in Row /\ [user[u] EXCEPT !.deleted = d].name = user[u].name
      BY <2>1 DEF Row
  <2> QED BY <2>1, <2>2, <2>3 DEF IInv, TypeOK
<1> QED BY <1>1, <1>2

\* token_expires: no url changes.
LEMMA ExpireIInv ==
    ASSUME IInv, NEW u \in User, token_expires(u)
    PROVE  IInv'
<1>1. /\ token[u] \in Token /\ token[u] # None /\ UNCHANGED <<user, urls, req>>
      /\ token' = [token EXCEPT ![u] = [token[u] EXCEPT !.expired = TRUE]]
    BY DEF token_expires, IInv, TypeOK
<1>2. /\ [token[u] EXCEPT !.expired = TRUE] \in Token
      /\ [token[u] EXCEPT !.expired = TRUE].url = token[u].url
    BY <1>1 DEF Token
<1> DEFINE t == [token[u] EXCEPT !.expired = TRUE]
<1>a. t # None
    BY <1>2, NoneAssumption
<1> HIDE DEF t
<1>b. t \in Token /\ t.url = token[u].url /\ token' = [token EXCEPT ![u] = t]
    BY <1>1, <1>2 DEF t
<1>3. \A v \in User : token'[v] = IF v = u THEN t ELSE token[v]
    BY <1>b DEF IInv, TypeOK
<1>4. token' \in [User -> Token \cup {None}]
    BY <1>b DEF IInv, TypeOK
<1>5. TypeOK'
    BY <1>1, <1>4 DEF IInv, TypeOK
<1>6. ASSUME NEW x \in Request, req[x] # Idle
      PROVE  UpToDate(req[x], user, token') /\ Tested(req[x], user)
  <2>1. req[x].on \in User /\ UpToDate(req[x], user, token) /\ Tested(req[x], user)
      BY <1>6 DEF IInv, TypeOK, Recalled, Asked
  <2> QED BY <1>1, <1>b, <1>3, <2>1 DEF UpToDate
<1>7. PICK ts : ts = token'
    OBVIOUS
<1>8. \A x \in Request : req[x] # Idle => UpToDate(req[x], user, ts) /\ Tested(req[x], user)
    BY <1>6, <1>7
<1>9. Recalled'
    BY <1>1, <1>7, <1>8 DEF Recalled, UpToDate, Tested
<1> QED BY <1>5, <1>9 DEF IInv

\* The invariant is inductive.
LEMMA NextIInv == IInv /\ [Next]_vars => IInv'
<1> SUFFICES ASSUME IInv, [Next]_vars PROVE IInv'
    OBVIOUS
<1>1. ASSUME NEW r \in Request, Lookup(r)
      PROVE  IInv'
    BY <1>1, LookupIInv
<1>2. ASSUME NEW r \in Request, add_user(r)
      PROVE  IInv'
    BY <1>2, AddIInv
<1>3. ASSUME NEW r \in Request, set_password_recovery_token(r)
      PROVE  IInv'
    BY <1>3, TokenIInv
<1>4. ASSUME NEW r \in Request, update_password(r)
      PROVE  IInv'
  <2>1. req[r].on \in User
      BY <1>4 DEF update_password, At, IInv, TypeOK, Asked
  <2> QED BY <1>4, <2>1, RowStep, RowIInv
<1>5. ASSUME NEW u \in User, delete_user(u) \/ recover_user(u)
      PROVE  IInv'
  <2>1. PICK r : r = None
      OBVIOUS
  <2>2. /\ user[u] # None /\ Observe(user', token', r) /\ urls' = urls
        /\ token' \in [User -> Token \cup {None}]
        /\ \E row \in Row : row.name = user[u].name /\ user' = [user EXCEPT ![u] = row]
      BY <1>5, <2>1, RowStep
  <2> QED BY <2>2, RowIInv
<1>6. ASSUME NEW u \in User, token_expires(u)
      PROVE  IInv'
    BY <1>6, ExpireIInv
<1>7. CASE UNCHANGED vars
    BY <1>7 DEF vars, IInv, TypeOK, Recalled, UpToDate, Tested
<1> QED BY <1>1, <1>2, <1>3, <1>4, <1>5, <1>6, <1>7 DEF Next, Lookup

\* The invariant of Accounts.
LEMMA Invariant == Spec => []IInv
    BY InitIInv, NextIInv, PTL DEF Spec

(***************************************************************************)
(* The theorems                                                            *)
(***************************************************************************)

\* The tables and the requests keep their types, and two accounts never have one name, in any
\* number of concurrent registrations.
THEOREM AccountTypes == Spec => []TypeOK
<1>1. IInv => TypeOK
    BY DEF IInv
<1> QED BY Invariant, <1>1, PTL

\* login is granted only with a password the account had, and while it was there, during the
\* request, whatever other requests do between its two reads.
THEOREM LoginsTrue == Spec => []LoginTrue
<1>1. IInv => LoginTrue
    BY DEF IInv, Recalled, Tested, LoginTrue, At
<1> QED BY Invariant, <1>1, PTL

\* What ResetByOwnToken says of a step.
LEMMA StepByOwnToken ==
    ASSUME IInv, [Next]_vars, NEW u \in User, user[u] # None, user'[u].password # user[u].password
    PROVE  \E r \in Request : /\ req[r] # Idle /\ req'[r] = Idle
                               /\ req[r].kind = "reset" /\ req[r].on = u
                               /\ req[r].url \in req[r].held
<1> USE DEF IInv, TypeOK
<1>1. ASSUME NEW r \in Request, Lookup(r)
      PROVE  UNCHANGED user
    BY <1>1, LookupStep
<1>2. ASSUME NEW r \in Request, add_user(r)
      PROVE  user'[u] = user[u]
    BY <1>2 DEF add_user
<1>3. ASSUME NEW r \in Request, set_password_recovery_token(r)
      PROVE  UNCHANGED user
    BY <1>3 DEF set_password_recovery_token
<1>4. ASSUME NEW v \in User, delete_user(v) \/ recover_user(v)
      PROVE  user'[u].password = user[u].password
  <2>1. user[u] \in Row
      OBVIOUS
  <2>2. PICK d \in BOOLEAN : user' = [user EXCEPT ![v] = [user[v] EXCEPT !.deleted = d]]
      BY <1>4 DEF delete_user, recover_user
  <2>3. CASE u # v
      BY <2>2, <2>3
  <2>4. CASE u = v
      BY <2>1, <2>2, <2>4 DEF Row
  <2> QED BY <2>3, <2>4
<1>5. ASSUME NEW v \in User, token_expires(v)
      PROVE  UNCHANGED user
    BY <1>5 DEF token_expires
<1>6. PICK r \in Request : update_password(r)
    BY <1>1, <1>2, <1>3, <1>4, <1>5 DEF Next, Lookup, vars
<1>7. /\ req[r] # Idle /\ req[r].kind = "reset" /\ req[r].at = "write"
      /\ req'[r] = Idle /\ user' = [user EXCEPT ![req[r].on].password = req[r].password]
    BY <1>6 DEF update_password, At, Observe
<1>8. req[r].on = u
    BY <1>7
<1>9. req[r].url \in req[r].held
    BY <1>7 DEF Recalled, Tested
<1> QED BY <1>7, <1>8, <1>9

\* A password changes only by a request that presented a url its account had during the
\* request, in any number of concurrent resets.
THEOREM ResetsByOwnToken == Spec => ResetByOwnToken
<1>1. IInv /\ [Next]_vars =>
          [\A u \in User :
              user[u] # None /\ user'[u].password # user[u].password
              => \E r \in Request : /\ req[r] # Idle /\ req'[r] = Idle
                                    /\ req[r].kind = "reset" /\ req[r].on = u
                                    /\ req[r].url \in req[r].held]_vars
    BY StepByOwnToken
<1> QED BY Invariant, <1>1, PTL DEF Spec, ResetByOwnToken
=============================================================================
