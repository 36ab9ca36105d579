------------------------ MODULE AdminAccountsProofs -------------------------
(***************************************************************************)
(* The admin accounts, for any set of accounts, any number of concurrent   *)
(* requests and any limit.  A row lock is held either by a lock or unlock  *)
(* of that row, which still finds it as SELECT ... FOR UPDATE returned it, *)
(* or by a report that has counted as many activities as the limit allows. *)
(***************************************************************************)
EXTENDS AdminAccounts, TLAPS

\* What a request knows, S being the sessions and A the activities logged.
Known(q, S, A) ==
    /\ q.at = "verify" => q.kind \in Behind /\ (q.by \in S => q.during)
    /\ q.at \in {"read", "write"} /\ q.kind \in {"create", "delete"}
          => q.during /\ Role(q.by) = "super"
    /\ q.at = "read" /\ q.kind \in {"rotate", "invalidate"} => q.during
    /\ q.at = "read" /\ q.kind = "invalidate" => Role(q.by) = "super"
    /\ q.grounds \in Forced => Grave(q)
    /\ q.at = "lock all" => q.grounds \in Forced /\ A[q.report] + 1 >= Limit

AllKnown == \A r \in Request : req[r] # Idle => Known(req[r], session, activity)

Changing(q, x) == q.at = "write" /\ q.kind \in {"lock", "unlock"} /\ q.to = x

\* Why the request q may hold the lock of the row x.
MayHold(q, x, A) ==
    \/ Changing(q, x)
    \/ q.at = "commit report" /\ q.grounds \in Forced /\ A[q.report] + 1 >= Limit

Held == \A r \in Request, x \in Admin :
            holder[x] = r => req[r] # Idle /\ MayHold(req[r], x, activity)

\* A lock or unlock past its SELECT holds the row, which is as it was read.
Owned == \A r \in Request, x \in Admin :
            req[r] # Idle /\ Changing(req[r], x)
            => holder[x] = r /\ locked[x] = (req[r].kind = "unlock")

IInv == TypeOK /\ AllKnown /\ Held /\ Owned

(***************************************************************************)
(* The shapes of a step                                                    *)
(***************************************************************************)

\* A request that holds no row goes on, or ends, without taking one.
LEMMA StepIInv ==
    ASSUME IInv, NEW r \in Request, NEW q \in Asked \cup {Idle},
           \A x \in Admin : holder[x] # r,
           req' = [req EXCEPT ![r] = q], UNCHANGED <<locked, holder, activity>>,
           state' \in [Admin -> States], session' \subseteq session,
           q # Idle => Known(q, session', activity),
           q # Idle => \A x \in Admin : ~Changing(q, x)
    PROVE  IInv'
<1>1. /\ req' \in [Request -> Asked \cup {Idle}]
      /\ \A x \in Request : req'[x] = IF x = r THEN q ELSE req[x]
    BY DEF IInv, TypeOK
<1>2. TypeOK'
    BY <1>1 DEF IInv, TypeOK
<1>3. \A x \in Request : req'[x] # Idle => Known(req'[x], session', activity)
    BY <1>1 DEF IInv, AllKnown, Known
<1>4. PICK S : S = session'
    OBVIOUS
<1>5. AllKnown'
    BY <1>3, <1>4 DEF AllKnown, Known
<1>6. Held'
    BY <1>1 DEF IInv, Held, MayHold, Changing
<1>7. Owned'
    BY <1>1 DEF IInv, Owned, Changing
<1> QED BY <1>2, <1>5, <1>6, <1>7 DEF IInv

\* A transaction ends: its row locks go, and only rows it held may have changed.
LEMMA ReleaseIInv ==
    ASSUME IInv, NEW r \in Request, NEW q \in Asked \cup {Idle},
           req' = [req EXCEPT ![r] = q], Release(r), UNCHANGED <<state, session>>,
           locked' \in [Admin -> BOOLEAN],
           \A x \in Admin : holder[x] # r => locked'[x] = locked[x],
           activity' \in [Admin -> Rows], \A x \in Admin : activity'[x] >= activity[x],
           q # Idle => Known(q, session, activity'),
           q # Idle => \A x \in Admin : ~Changing(q, x)
    PROVE  IInv'
<1>1. /\ req' \in [Request -> Asked \cup {Idle}]
      /\ \A x \in Request : req'[x] = IF x = r THEN q ELSE req[x]
    BY DEF IInv, TypeOK
<1>2. /\ holder' \in [Admin -> Request \cup {Free}]
      /\ \A x \in Admin : holder'[x] = IF holder[x] = r THEN Free ELSE holder[x]
    BY DEF IInv, TypeOK, Release
<1>3. TypeOK'
    BY <1>1, <1>2 DEF IInv, TypeOK
<1>4. ASSUME NEW a \in Admin, activity[a] + 1 >= Limit
      PROVE  activity'[a] + 1 >= Limit
  <2>1. activity[a] \in Nat /\ activity'[a] \in Nat /\ activity'[a] >= activity[a] /\ Limit \in Nat
      BY LimitAssumption DEF IInv, TypeOK, Rows
  <2> QED BY <1>4, <2>1
<1>5. PICK A : A = activity'
    OBVIOUS
<1>6. ASSUME NEW x \in Request, req'[x] # Idle
      PROVE  Known(req'[x], session, A)
  <2>1. CASE x = r
      BY <1>1, <1>5, <1>6, <2>1
  <2>2. CASE x # r
    <3>1. req'[x] = req[x] /\ Known(req[x], session, activity) /\ req[x] \in Asked
        BY <1>1, <1>6, <2>2 DEF IInv, AllKnown, TypeOK
    <3>2. req[x].report \in Admin
        BY <3>1 DEF Asked
    <3> QED BY <1>4, <1>5, <3>1, <3>2 DEF Known
  <2> QED BY <2>1, <2>2
<1>7. AllKnown'
    BY <1>5, <1>6 DEF AllKnown, Known
<1>8. ASSUME NEW x \in Request, NEW a \in Admin, holder'[a] = x
      PROVE  req'[x] # Idle /\ MayHold(req'[x], a, A)
  <2>1. x # r /\ holder[a] = x /\ req'[x] = req[x]
      BY <1>1, <1>2, <1>8, RequestAssumption
  <2>2. req[x] # Idle /\ MayHold(req[x], a, activity) /\ req[x] \in Asked
      BY <2>1 DEF IInv, Held, TypeOK
  <2>3. req[x].report \in Admin
      BY <2>2 DEF Asked
  <2> QED BY <1>4, <1>5, <2>1, <2>2, <2>3 DEF MayHold
<1>9. Held'
    BY <1>5, <1>8 DEF Held, MayHold, Changing
<1>10. Owned'
    BY <1>1, <1>2 DEF IInv, Owned, Changing
<1> QED BY <1>3, <1>7, <1>9, <1>10 DEF IInv

\* Who does not write holds no row, and where a step is known, so is the request.
LEMMA NoRow ==
    ASSUME IInv, NEW r \in Request,
           req[r] = Idle \/ req[r].at \notin {"write", "commit report"}
                         \/ (req[r].at = "write" /\ req[r].kind \notin {"lock", "unlock"})
    PROVE  \A x \in Admin : holder[x] # r
    BY DEF IInv, Held, MayHold, Changing

LEMMA Asking ==
    ASSUME IInv, NEW r \in Request, NEW step, At(r, step)
    PROVE  /\ req[r] # Idle /\ req[r] \in Asked /\ req[r].at = step
           /\ Known(req[r], session, activity)
    BY DEF At, IInv, TypeOK, AllKnown

\* A request goes on to another step.
LEMMA Moved ==
    ASSUME NEW q \in Asked, NEW step \in Steps
    PROVE  LET p == [q EXCEPT !.at = step]
           IN  /\ p \in Asked /\ p # Idle /\ p.at = step /\ p.kind = q.kind /\ p.by = q.by
               /\ p.to = q.to /\ p.report = q.report /\ p.grounds = q.grounds /\ p.during = q.during
               /\ (Grave(p) <=> Grave(q))
    BY IdleAssumption DEF Asked, Grave

\* Steps before which nothing more need be known.
LEMMA GoesOn ==
    ASSUME NEW q \in Asked, NEW step \in {"sign", "refresh", "commit report", "log out"},
           NEW S, NEW A, Known(q, S, A)
    PROVE  Known([q EXCEPT !.at = step], S, A)
<1>1. PICK p : p = [q EXCEPT !.at = step]
    OBVIOUS
<1>2. step \in Steps
    BY DEF Steps
<1>3. p.at = step /\ p.grounds = q.grounds /\ (Grave(p) <=> Grave(q))
    BY <1>1, <1>2, Moved
<1>4. Known(p, S, A)
    BY <1>3 DEF Known
<1> QED BY <1>1, <1>4

\* A request that holds no row and starts no change of a lock goes on to another step.
LEMMA AdvanceIInv ==
    ASSUME IInv, NEW r \in Request, req[r] # Idle, NEW step \in Steps, Advance(r, step),
           \A x \in Admin : holder[x] # r,
           UNCHANGED <<table, activity, session>>,
           step = "write" => req[r].kind \notin {"lock", "unlock"},
           Known([req[r] EXCEPT !.at = step], session, activity)
    PROVE  IInv'
<1>1. req[r] \in Asked
    BY DEF IInv, TypeOK
<1>2. PICK q : q = [req[r] EXCEPT !.at = step]
    OBVIOUS
<1>3. q \in Asked /\ q.at = step /\ q.kind = req[r].kind /\ Known(q, session, activity)
    BY <1>1, <1>2, Moved
<1>4. req' = [req EXCEPT ![r] = q]
    BY <1>2 DEF Advance
<1>5. \A x \in Admin : ~Changing(q, x)
    BY <1>3 DEF Changing
<1>6. state' \in [Admin -> States] /\ session' = session
    BY DEF IInv, TypeOK, table
<1> QED BY <1>3, <1>4, <1>5, <1>6, StepIInv DEF table

\* A request ends, its session or another with it, or none.
LEMMA EndIInv ==
    ASSUME IInv, NEW r \in Request, End(r), \A x \in Admin : holder[x] # r,
           UNCHANGED <<locked, holder, activity>>, state' \in [Admin -> States],
           session' \subseteq session
    PROVE  IInv'
<1>1. req' = [req EXCEPT ![r] = Idle]
    BY DEF End
<1> QED BY <1>1, StepIInv

\* A request turns into a report of the account a.
LEMMA ReportIInv ==
    ASSUME IInv, NEW r \in Request, req[r] # Idle, NEW a \in Admin, NEW grounds \in Grounds,
           Report(r, a, grounds), \A x \in Admin : holder[x] # r,
           UNCHANGED <<table, activity, session>>,
           grounds = "cooldown" => req[r].during /\ Role(a) = "staff",
           grounds = "active key" => req[r].during /\ Role(a) = "super"
    PROVE  IInv'
<1>1. req[r] \in Asked
    BY DEF IInv, TypeOK
<1>2. PICK d \in BOOLEAN : d = (req[r].during /\ grounds \in {"cooldown", "active key"})
    OBVIOUS
<1>3. PICK q : q = [req[r] EXCEPT !.at = "count", !.report = a, !.grounds = grounds,
                                  !.kind = "report", !.to = a, !.by = a, !.during = d]
    OBVIOUS
<1>4. /\ q \in Asked /\ q.at = "count" /\ q.kind = "report" /\ q.grounds = grounds
      /\ q.report = a /\ q.during = d
    BY <1>1, <1>3 DEF Asked, Steps
<1>5. req' = [req EXCEPT ![r] = q]
    BY <1>2, <1>3 DEF Report
<1>6. grounds \in Forced => Grave(q)
    BY <1>2, <1>4 DEF Grave, Forced
<1>7. Known(q, session, activity) /\ \A x \in Admin : ~Changing(q, x)
    BY <1>4, <1>6 DEF Known, Changing
<1>8. state' \in [Admin -> States] /\ session' = session
    BY DEF IInv, TypeOK, table
<1> QED BY <1>4, <1>5, <1>7, <1>8, StepIInv DEF table

(***************************************************************************)
(* The steps                                                               *)
(***************************************************************************)

LEMMA BeginIInv ==
    ASSUME IInv, NEW r \in Request, NEW k \in Kinds, NEW a \in Admin, NEW b \in Admin,
           Begin(r, k, a, b)
    PROVE  IInv'
<1> DEFINE q == [kind |-> k, by |-> a, to |-> b, report |-> a, grounds |-> "none",
                 at |-> IF k \in Behind THEN "verify" ELSE "read", during |-> a \in session]
<1>1. req[r] = Idle /\ req' = [req EXCEPT ![r] = q] /\ UNCHANGED <<table, activity, session>>
    BY DEF Begin
<1>2. q \in Asked
    BY DEF Asked, Steps, Grounds
<1>3. Known(q, session, activity) /\ \A x \in Admin : ~Changing(q, x)
    BY DEF Known, Changing, Behind, Forced, Kinds
<1>4. \A x \in Admin : holder[x] # r
    BY <1>1, NoRow
<1>5. state' \in [Admin -> States] /\ session' = session
    BY <1>1 DEF IInv, TypeOK, table
<1> HIDE DEF q
<1> QED BY <1>1, <1>2, <1>3, <1>4, <1>5, StepIInv DEF table

\* count: it goes on to lock all only at the limit.
LEMMA CountIInv ==
    ASSUME IInv, NEW r \in Request, count(r)
    PROVE  IInv'
<1>1. /\ req[r] # Idle /\ req[r] \in Asked /\ req[r].at = "count"
      /\ Known(req[r], session, activity) /\ \A x \in Admin : holder[x] # r
    BY Asking, NoRow DEF count
<1>2. PICK recent \in 0 .. activity[req[r].report] :
          Advance(r, IF req[r].grounds \in Forced /\ recent + 1 >= Limit THEN "lock all" ELSE "commit report")
    BY DEF count
<1>3. UNCHANGED <<table, activity, session>>
    BY DEF count
<1>4. CASE req[r].grounds \in Forced /\ recent + 1 >= Limit
  <2>1. req[r].report \in Admin
      BY <1>1 DEF Asked
  <2>2. activity[req[r].report] \in Nat /\ Limit \in Nat
      BY <2>1, LimitAssumption DEF IInv, TypeOK, Rows
  <2>3. activity[req[r].report] + 1 >= Limit
    <3>1. PICK n \in Nat : n = activity[req[r].report]
        BY <2>2
    <3>2. recent \in 0 .. n /\ recent + 1 >= Limit
        BY <1>4, <3>1
    <3>3. n + 1 >= Limit
        BY <2>2, <3>2
    <3> QED BY <3>1, <3>3
  <2>4. PICK q : q = [req[r] EXCEPT !.at = "lock all"]
      OBVIOUS
  <2>5. /\ q.at = "lock all" /\ q.grounds = req[r].grounds /\ q.report = req[r].report
        /\ (Grave(q) <=> Grave(req[r]))
      BY <1>1, <2>4, Moved DEF Steps
  <2>6. Known([req[r] EXCEPT !.at = "lock all"], session, activity)
      BY <1>1, <1>4, <2>3, <2>4, <2>5 DEF Known
  <2> QED BY <1>1, <1>2, <1>3, <1>4, <2>6, AdvanceIInv DEF Steps
<1>5. CASE ~(req[r].grounds \in Forced /\ recent + 1 >= Limit)
  <2>1. Known([req[r] EXCEPT !.at = "commit report"], session, activity)
      BY <1>1, GoesOn
  <2> QED BY <1>1, <1>2, <1>3, <1>5, <2>1, AdvanceIInv DEF Steps
<1> QED BY <1>4, <1>5

\* lock_all: every row is free, so nobody is changing a lock.
LEMMA LockAllIInv ==
    ASSUME IInv, NEW r \in Request, lock_all(r)
    PROVE  IInv'
<1>1. /\ req[r] # Idle /\ req[r] \in Asked /\ req[r].at = "lock all"
      /\ Known(req[r], session, activity)
    BY Asking DEF lock_all
<1>2. PICK q : q = [req[r] EXCEPT !.at = "commit report"]
    OBVIOUS
<1>3. /\ q \in Asked /\ q # Idle /\ q.at = "commit report" /\ q.kind = req[r].kind
      /\ q.report = req[r].report /\ q.grounds = req[r].grounds
      /\ Known(q, session, activity)
    BY <1>1, <1>2, Moved, GoesOn DEF Steps
<1>4. /\ req' = [req EXCEPT ![r] = q] /\ \A x \in Admin : holder[x] = Free
      /\ holder' = [a \in Admin |-> r] /\ session' = session \ {req[r].report}
      /\ UNCHANGED <<state, locked, activity>>
    BY <1>2 DEF lock_all, Advance
<1>5. \A x \in Request : req'[x] = IF x = r THEN q ELSE req[x]
    BY <1>4 DEF IInv, TypeOK
<1>6. TypeOK'
    BY <1>3, <1>4 DEF IInv, TypeOK
<1>7. PICK S : S = session' /\ S \subseteq session
    BY <1>4
<1>8. ASSUME NEW x \in Request, req'[x] # Idle
      PROVE  Known(req'[x], S, activity)
    BY <1>1, <1>3, <1>5, <1>7, <1>8 DEF IInv, AllKnown, Known
<1>9. AllKnown'
    BY <1>4, <1>7, <1>8 DEF AllKnown, Known
<1>10. Held'
    BY <1>1, <1>3, <1>4, <1>5 DEF Held, MayHold, Known
<1>11. Owned'
  <2> SUFFICES ASSUME NEW x \in Request, NEW y \in Admin, req'[x] # Idle, Changing(req'[x], y)
               PROVE  FALSE
      BY DEF Owned, Changing
  <2>1. x # r /\ req'[x] = req[x]
      BY <1>3, <1>5 DEF Changing
  <2>2. holder[y] = x
      BY <2>1 DEF IInv, Owned
  <2> QED BY <1>4, <2>2, RequestAssumption
<1> QED BY <1>6, <1>9, <1>10, <1>11 DEF IInv

\* The commit of a report, and of a lock or unlock; a rollback.
LEMMA CommitIInv ==
    ASSUME IInv, NEW r \in Request, commit_report(r) \/ admin_lock(r) \/ admin_unlock(r) \/ Fail(r)
    PROVE  IInv'
<1>1. ASSUME req[r] # Idle, NEW a \in Admin, activity[a] < MaxRows,
             activity' = [activity EXCEPT ![a] = @ + 1]
      PROVE  activity' \in [Admin -> Rows] /\ \A x \in Admin : activity'[x] >= activity[x]
  <2>1. activity[a] \in 0 .. MaxRows /\ MaxRows \in Nat
      BY LimitAssumption DEF IInv, TypeOK, Rows
  <2>2. activity[a] + 1 \in Rows /\ activity[a] + 1 >= activity[a]
      BY <1>1, <2>1 DEF Rows
  <2>3. \A x \in Admin : activity[x] >= activity[x]
      BY DEF IInv, TypeOK, Rows
  <2> QED BY <1>1, <2>2, <2>3 DEF IInv, TypeOK
<1>2. \A x \in Admin : activity[x] >= activity[x]
    BY DEF IInv, TypeOK, Rows
<1>3. CASE commit_report(r)
  <2>1. req[r] # Idle /\ req[r] \in Asked /\ req[r].report \in Admin
      BY <1>3, Asking DEF commit_report, Asked
  <2>2. activity' \in [Admin -> Rows] /\ \A x \in Admin : activity'[x] >= activity[x]
      BY <1>1, <1>3, <2>1 DEF commit_report
  <2>3. /\ locked' = [x \in Admin |-> locked[x] \/ (holder[x] = r /\ state[x] # "none")]
        /\ req' = [req EXCEPT ![r] = Idle] /\ Release(r) /\ UNCHANGED <<state, session>>
      BY <1>3 DEF commit_report, End
  <2>4. locked' \in [Admin -> BOOLEAN] /\ \A x \in Admin : holder[x] # r => locked'[x] = locked[x]
      BY <2>3 DEF IInv, TypeOK
  <2> QED BY <2>2, <2>3, <2>4, ReleaseIInv
<1>4. CASE admin_lock(r) \/ admin_unlock(r)
  <2>1. /\ req[r] # Idle /\ req[r] \in Asked /\ req[r].at = "write" /\ req[r].kind \in {"lock", "unlock"}
        /\ Known(req[r], session, activity)
      BY <1>4, Asking DEF admin_lock, admin_unlock
  <2>2. req[r].to \in Admin /\ Changing(req[r], req[r].to)
      BY <2>1 DEF Asked, Changing
  <2>3. holder[req[r].to] = r
      BY <2>1, <2>2 DEF IInv, Owned
  <2>4. PICK v \in BOOLEAN : locked' = [locked EXCEPT ![req[r].to] = v]
      BY <1>4 DEF admin_lock, admin_unlock
  <2>5. locked' \in [Admin -> BOOLEAN] /\ \A x \in Admin : holder[x] # r => locked'[x] = locked[x]
      BY <2>2, <2>3, <2>4 DEF IInv, TypeOK
  <2>6. Release(r) /\ UNCHANGED <<state, activity, session>> /\ (Advance(r, "log out") \/ End(r))
      BY <1>4 DEF admin_lock, admin_unlock
  <2>7. PICK q : q = [req[r] EXCEPT !.at = "log out"]
      OBVIOUS
  <2>8. q \in Asked /\ q.at = "log out"
      BY <2>1, <2>7, Moved DEF Steps
  <2>9. Known(q, session, activity) /\ \A x \in Admin : ~Changing(q, x)
      BY <2>1, <2>7, <2>8, GoesOn DEF Changing
  <2>10. activity' = activity /\ activity \in [Admin -> Rows]
      BY <2>6 DEF IInv, TypeOK
  <2>11. req' = [req EXCEPT ![r] = q] \/ req' = [req EXCEPT ![r] = Idle]
      BY <2>6, <2>7 DEF Advance, End
  <2> QED BY <1>2, <2>5, <2>6, <2>8, <2>9, <2>10, <2>11, ReleaseIInv
<1>5. CASE Fail(r)
    BY <1>2, <1>5, ReleaseIInv DEF Fail, End, IInv, TypeOK
<1> QED BY <1>3, <1>4, <1>5

LEMMA LoginIInv ==
    ASSUME IInv, NEW r \in Request, admin_login(r)
    PROVE  IInv'
<1>1. /\ req[r] # Idle /\ req[r] \in Asked /\ req[r].at = "read" /\ req[r].by \in Admin
      /\ Known(req[r], session, activity) /\ \A x \in Admin : holder[x] # r
    BY Asking, NoRow DEF admin_login, Asked
<1>2. Known([req[r] EXCEPT !.at = "sign"], session, activity)
    BY <1>1, GoesOn
<1> QED BY <1>1, <1>2, ReportIInv, AdvanceIInv DEF admin_login, Steps, Grounds

\* sign_session: the requests that are being validated see the session.
LEMMA SignIInv ==
    ASSUME IInv, NEW r \in Request, sign_session(r)
    PROVE  IInv'
<1> DEFINE a == req[r].by
<1>1. /\ req[r] # Idle /\ req[r] \in Asked /\ req[r].at = "sign" /\ a \in Admin
      /\ \A x \in Admin : holder[x] # r
    BY Asking, NoRow DEF sign_session, Asked
<1>2. session' \in SUBSET Admin /\ (\A x \in session' : x \in session \/ x = a)
      /\ UNCHANGED <<table, activity>>
    BY <1>1 DEF sign_session, create_admin_session, IInv, TypeOK
<1>3. PICK S : S = session'
    OBVIOUS
<1>4. ASSUME NEW x \in Request
      PROVE  /\ req'[x] \in Asked \cup {Idle}
             /\ req'[x] # Idle =>
                   /\ req[x] # Idle /\ x # r
                   /\ req'[x].kind = req[x].kind /\ req'[x].by = req[x].by /\ req'[x].to = req[x].to
                   /\ req'[x].report = req[x].report /\ req'[x].grounds = req[x].grounds
                   /\ req'[x].at = req[x].at
                   /\ req[x].during => req'[x].during
                   /\ Grave(req[x]) => Grave(req'[x])
                   /\ req[x].by = a /\ req[x].at = "verify" /\ a \in S => req'[x].during
             /\ req[x] # Idle /\ x # r => req'[x] # Idle
  <2>1. req[x] \in Asked \cup {Idle}
      BY DEF IInv, TypeOK
  <2>2. CASE x = r
      BY <2>2 DEF sign_session
  <2>3. CASE x # r /\ req[x] # Idle /\ req[x].by = a /\ req[x].at \in {"verify", "read", "write"}
    <3>1. PICK b \in BOOLEAN : b = (req[x].during \/ a \in S)
        OBVIOUS
    <3>2. req'[x] = [req[x] EXCEPT !.during = b]
        BY <1>3, <2>3, <3>1 DEF sign_session
    <3>3. PICK q : q = req'[x]
        OBVIOUS
    <3>4. q = [req[x] EXCEPT !.during = b] /\ req[x] \in Asked
        BY <2>1, <2>3, <3>2, <3>3
    <3>5. /\ q \in Asked /\ q.during = b /\ q.kind = req[x].kind /\ q.by = req[x].by
          /\ q.to = req[x].to /\ q.report = req[x].report /\ q.grounds = req[x].grounds
          /\ q.at = req[x].at
        BY <3>4 DEF Asked
    <3>6. Grave(req[x]) => Grave(q)
        BY <3>1, <3>4, <3>5 DEF Grave
    <3> QED BY <2>3, <3>1, <3>3, <3>5, <3>6, IdleAssumption
  <2>4. CASE x # r /\ ~(req[x] # Idle /\ req[x].by = a /\ req[x].at \in {"verify", "read", "write"})
    <3>1. req'[x] = req[x]
        BY <2>4 DEF sign_session
    <3> QED BY <2>1, <2>4, <3>1
  <2> QED BY <2>2, <2>3, <2>4
<1>5. req' \in [Request -> Asked \cup {Idle}]
  <2>1. req' = [x \in Request |-> req'[x]]
      BY DEF sign_session
  <2> QED BY <1>4, <2>1
<1> HIDE DEF a
<1>6. TypeOK'
    BY <1>2, <1>5 DEF IInv, TypeOK, table
<1>7. ASSUME NEW x \in Request, req'[x] # Idle
      PROVE  Known(req'[x], S, activity)
  <2>1. Known(req[x], session, activity)
      BY <1>4, <1>7 DEF IInv, AllKnown
  <2> QED BY <1>2, <1>3, <1>4, <1>7, <2>1 DEF Known
<1>8. AllKnown'
    BY <1>2, <1>3, <1>7 DEF AllKnown, Known
<1>9. Held'
  <2> SUFFICES ASSUME NEW x \in Request, NEW y \in Admin, holder[y] = x
               PROVE  req'[x] # Idle /\ MayHold(req'[x], y, activity)
      BY <1>2 DEF Held, MayHold, Changing, table
  <2>1. x # r /\ req[x] # Idle /\ MayHold(req[x], y, activity)
      BY <1>1 DEF IInv, Held
  <2> QED BY <1>4, <2>1 DEF MayHold, Changing
<1>10. Owned'
    BY <1>2, <1>4 DEF IInv, Owned, Changing, table
<1> QED BY <1>6, <1>8, <1>9, <1>10 DEF IInv

\* validate_admin_session: what gets past it has a session.
LEMMA ValidateIInv ==
    ASSUME IInv, NEW r \in Request, bad_signature(r) \/ expired(r) \/ verified(r)
    PROVE  IInv'
<1>1. /\ req[r] # Idle /\ req[r] \in Asked /\ req[r].at = "verify" /\ req[r].by \in Admin
      /\ Known(req[r], session, activity) /\ \A x \in Admin : holder[x] # r
      /\ req[r].kind \in Behind
    BY Asking, NoRow DEF bad_signature, expired, verified, Asked, Known
<1>2. CASE bad_signature(r)
    BY <1>1, <1>2, ReportIInv DEF bad_signature, Grounds
<1>3. CASE expired(r)
    BY <1>1, <1>3, EndIInv DEF expired, table, IInv, TypeOK
<1>4. CASE verified(r)
  <2>1. UNCHANGED <<table, activity, session>>
      BY <1>4 DEF verified
  <2>2. CASE ~HasSession(req[r].by)
      BY <1>1, <1>4, <2>2, ReportIInv DEF verified, Grounds
  <2>3. CASE HasSession(req[r].by) /\ req[r].kind = "refresh"
    <3>1. Known([req[r] EXCEPT !.at = "refresh"], session, activity)
        BY <1>1, GoesOn
    <3> QED BY <1>1, <1>4, <2>1, <2>3, <3>1, AdvanceIInv DEF verified, Steps
  <2>4. CASE HasSession(req[r].by) /\ req[r].kind # "refresh"
    <3>1. /\ req[r].during /\ Advance(r, "read")
          /\ Needs[req[r].kind] \in ROLE_PERMISSIONS[Role(req[r].by)]
        BY <1>1, <1>4, <2>4 DEF verified, HasSession, Known
    <3>2. PICK q : q = [req[r] EXCEPT !.at = "read"]
        OBVIOUS
    <3>3. /\ q.at = "read" /\ q.by = req[r].by /\ q.during = req[r].during
          /\ q.kind = req[r].kind /\ q.grounds = req[r].grounds /\ (Grave(q) <=> Grave(req[r]))
        BY <1>1, <3>2, Moved DEF Steps
    <3>4. q.kind \in {"create", "delete", "invalidate"} => Role(q.by) = "super"
        BY <3>1, <3>3 DEF Needs, Role, ROLE_PERMISSIONS
    <3>5. Known(q, session, activity)
        BY <1>1, <3>1, <3>3, <3>4 DEF Known
    <3> QED BY <1>1, <2>1, <3>1, <3>2, <3>5, AdvanceIInv DEF Steps
  <2> QED BY <2>2, <2>3, <2>4
<1> QED BY <1>2, <1>3, <1>4

LEMMA RefreshIInv ==
    ASSUME IInv, NEW r \in Request, admin_refresh(r)
    PROVE  IInv'
<1>1. /\ req[r] # Idle /\ req[r] \in Asked /\ req[r].at = "refresh" /\ req[r].to \in Admin
      /\ \A x \in Admin : holder[x] # r
    BY Asking, NoRow DEF admin_refresh, Asked
<1>2. UNCHANGED <<table, activity>>
    BY DEF admin_refresh
<1>3. CASE session' \subseteq session /\ End(r)
    BY <1>1, <1>2, <1>3, EndIInv DEF table, IInv, TypeOK
<1>4. CASE Report(r, req[r].to, "digest") /\ UNCHANGED session
    BY <1>1, <1>2, <1>4, ReportIInv DEF Grounds
<1> QED BY <1>3, <1>4 DEF admin_refresh

\* rotate_keys and invalidate_key report the admin whose session they were called in.
LEMMA KeyEndpointsIInv ==
    ASSUME IInv, NEW r \in Request, rotate_keys(r) \/ invalidate_key(r)
    PROVE  IInv'
<1>1. /\ req[r] # Idle /\ req[r] \in Asked /\ req[r].at = "read" /\ req[r].by \in Admin
      /\ Known(req[r], session, activity) /\ \A x \in Admin : holder[x] # r
      /\ UNCHANGED <<table, activity, session>>
  <2>1. At(r, "read") /\ UNCHANGED <<table, activity, session>>
      BY DEF rotate_keys, invalidate_key
  <2> QED BY <2>1, Asking, NoRow DEF Asked
<1>2. CASE End(r)
    BY <1>1, <1>2, EndIInv DEF table, IInv, TypeOK
<1>3. CASE req[r].kind = "rotate" /\ Role(req[r].by) = "staff" /\ Report(r, req[r].by, "cooldown")
  <2>1. req[r].during
      BY <1>1, <1>3 DEF Known
  <2> QED BY <1>1, <1>3, <2>1, ReportIInv DEF Grounds
<1>4. CASE req[r].kind = "invalidate" /\ Report(r, req[r].by, "active key")
  <2>1. req[r].during /\ Role(req[r].by) = "super"
      BY <1>1, <1>4 DEF Known
  <2> QED BY <1>1, <1>4, <2>1, ReportIInv DEF Grounds
<1> QED BY <1>2, <1>3, <1>4 DEF rotate_keys, invalidate_key

\* admin_delete and create_admin take no row lock across two steps.
LEMMA DeleteCreateIInv ==
    ASSUME IInv, NEW r \in Request, admin_delete(r) \/ delete_commit(r) \/ create_admin(r)
    PROVE  IInv'
<1>1. /\ req[r] # Idle /\ req[r] \in Asked /\ req[r].at \in {"read", "write"}
      /\ req[r].kind \in {"delete", "create"}
      /\ Known(req[r], session, activity) /\ \A x \in Admin : holder[x] # r
    BY Asking, NoRow DEF admin_delete, delete_commit, create_admin
<1>2. CASE admin_delete(r)
  <2>1. PICK q : q = [req[r] EXCEPT !.at = "write"]
      OBVIOUS
  <2>2. /\ q.at = "write" /\ q.by = req[r].by /\ q.during = req[r].during
        /\ q.kind = req[r].kind /\ q.grounds = req[r].grounds /\ (Grave(q) <=> Grave(req[r]))
      BY <1>1, <2>1, Moved DEF Steps
  <2>3. Known(q, session, activity)
      BY <1>1, <2>2 DEF Known
  <2> QED BY <1>1, <1>2, <2>1, <2>3, AdvanceIInv DEF admin_delete, Steps
<1>3. CASE delete_commit(r) \/ create_admin(r)
  <2>1. PICK v \in States : state' = [state EXCEPT ![req[r].to] = v]
      BY <1>3 DEF delete_commit, create_admin, States
  <2>2. state' \in [Admin -> States]
      BY <2>1 DEF IInv, TypeOK
  <2>3. End(r) /\ UNCHANGED <<locked, holder, activity, session>>
      BY <1>3 DEF delete_commit, create_admin
  <2> QED BY <1>1, <2>2, <2>3, EndIInv
<1> QED BY <1>2, <1>3

\* select_account: SELECT ... FOR UPDATE.
LEMMA SelectIInv ==
    ASSUME IInv, NEW r \in Request, select_account(r)
    PROVE  IInv'
<1> DEFINE b == req[r].to
<1>1. /\ req[r] # Idle /\ req[r] \in Asked /\ req[r].at = "read" /\ b \in Admin
      /\ Known(req[r], session, activity)
      /\ req[r].kind \in {"lock", "unlock"} /\ locked[b] = (req[r].kind = "unlock")
    BY Asking DEF select_account, Asked
<1>2. PICK q : q = [req[r] EXCEPT !.at = "write"]
    OBVIOUS
<1>3. /\ q \in Asked /\ q # Idle /\ q.at = "write" /\ q.kind = req[r].kind /\ q.to = b
      /\ q.grounds = req[r].grounds /\ (Grave(q) <=> Grave(req[r]))
    BY <1>1, <1>2, Moved DEF Steps
<1>4. /\ req' = [req EXCEPT ![r] = q] /\ holder[b] = Free /\ holder' = [holder EXCEPT ![b] = r]
      /\ UNCHANGED <<state, locked, activity, session>>
    BY <1>2 DEF select_account, Advance, for_update
<1> HIDE DEF b
<1>5. /\ \A x \in Request : req'[x] = IF x = r THEN q ELSE req[x]
      /\ \A x \in Admin : holder'[x] = IF x = b THEN r ELSE holder[x]
      /\ \A x \in Admin : holder[x] # r
    BY <1>1, <1>4, NoRow DEF IInv, TypeOK
<1>6. TypeOK'
    BY <1>1, <1>3, <1>4 DEF IInv, TypeOK
<1>7. Known(q, session, activity)
    BY <1>1, <1>3 DEF Known
<1>8. AllKnown'
  <2>1. \A x \in Request : req'[x] # Idle => Known(req'[x], session, activity)
      BY <1>5, <1>7 DEF IInv, AllKnown
  <2> QED BY <1>4, <2>1 DEF AllKnown, Known
<1>9. Changing(q, b) /\ \A x \in Admin : x # b => ~Changing(q, x)
    BY <1>1, <1>3 DEF Changing
<1>10. Held'
  <2> SUFFICES ASSUME NEW x \in Request, NEW y \in Admin, holder'[y] = x
               PROVE  req'[x] # Idle /\ MayHold(req'[x], y, activity)
      BY <1>4 DEF Held, MayHold, Changing
  <2>1. CASE y = b
      BY <1>3, <1>5, <1>9, <2>1 DEF MayHold
  <2>2. CASE y # b
    <3>1. x # r /\ req'[x] = req[x] /\ holder[y] = x
        BY <1>5, <2>2
    <3> QED BY <3>1 DEF IInv, Held
  <2> QED BY <2>1, <2>2
<1>11. Owned'
  <2> SUFFICES ASSUME NEW x \in Request, NEW y \in Admin, req'[x] # Idle, Changing(req'[x], y)
               PROVE  holder'[y] = x /\ locked[y] = (req'[x].kind = "unlock")
      BY <1>4 DEF Owned, Changing
  <2>1. CASE x = r
      BY <1>1, <1>3, <1>5, <1>9, <2>1
  <2>2. CASE x # r
    <3>1. holder[y] = x /\ locked[y] = (req[x].kind = "unlock")
        BY <1>5, <2>2 DEF IInv, Owned
    <3> QED BY <1>4, <1>5, <2>2, <3>1, RequestAssumption
  <2> QED BY <2>1, <2>2
<1> QED BY <1>6, <1>8, <1>10, <1>11 DEF IInv

\* The sessions that lock_logs_out and admin_logout delete.
LEMMA LogOutIInv ==
    ASSUME IInv, \/ \E r \in Request : lock_logs_out(r)
                 \/ \E b \in Admin : admin_logout(b)
    PROVE  IInv'
<1>1. ASSUME NEW r \in Request, lock_logs_out(r)
      PROVE  IInv'
  <2>1. \A x \in Admin : holder[x] # r
      BY <1>1, Asking, NoRow DEF lock_logs_out
  <2> QED BY <1>1, <2>1, EndIInv DEF lock_logs_out, table, IInv, TypeOK
<1>2. ASSUME NEW b \in Admin, admin_logout(b)
      PROVE  IInv'
  <2>1. PICK S : S = session' /\ S \subseteq session
      BY <1>2 DEF admin_logout
  <2>2. UNCHANGED <<table, activity, req>>
      BY <1>2 DEF admin_logout
  <2>3. AllKnown'
      BY <2>1, <2>2 DEF IInv, AllKnown, Known
  <2> QED BY <2>1, <2>2, <2>3 DEF IInv, TypeOK, Held, MayHold, Owned, Changing, table
<1> QED BY <1>1, <1>2

(***************************************************************************)
(* The invariant                                                           *)
(***************************************************************************)

\* At first there is the account of the deployment, and nothing is under way.
LEMMA InitIInv ==
    ASSUME Init
    PROVE  IInv
<1>1. 0 \in Rows
    BY LimitAssumption DEF Rows
<1>2. TypeOK
    BY <1>1 DEF Init, TypeOK, States
<1> QED BY <1>2, RequestAssumption DEF Init, IInv, AllKnown, Held, Owned

LEMMA NextIInv ==
    ASSUME IInv, [Next]_vars
    PROVE  IInv'
<1>1. ASSUME NEW r \in Request, NEW k \in Kinds, NEW a \in Admin, NEW b \in Admin, Begin(r, k, a, b)
      PROVE  IInv'
    BY <1>1, BeginIInv
<1>2. ASSUME NEW r \in Request, count(r) \/ lock_all(r) \/ admin_login(r) \/ sign_session(r)
      PROVE  IInv'
    BY <1>2, CountIInv, LockAllIInv, LoginIInv, SignIInv
<1>3. ASSUME NEW r \in Request, commit_report(r) \/ admin_lock(r) \/ admin_unlock(r) \/ Fail(r)
      PROVE  IInv'
    BY <1>3, CommitIInv
<1>4. ASSUME NEW r \in Request, bad_signature(r) \/ expired(r) \/ verified(r) \/ admin_refresh(r)
      PROVE  IInv'
    BY <1>4, ValidateIInv, RefreshIInv
<1>5. ASSUME NEW r \in Request,
             admin_delete(r) \/ delete_commit(r) \/ create_admin(r) \/ select_account(r)
      PROVE  IInv'
    BY <1>5, DeleteCreateIInv, SelectIInv
<1>6. CASE \/ \E r \in Request : lock_logs_out(r)
           \/ \E b \in Admin : admin_logout(b)
    BY <1>6, LogOutIInv
<1>7. CASE UNCHANGED vars
  <2>1. UNCHANGED <<state, locked, holder, activity, session, req>>
      BY <1>7 DEF vars
  <2>2. TypeOK'
      BY <2>1 DEF IInv, TypeOK
  <2>3. AllKnown'
      BY <2>1 DEF IInv, AllKnown, Known
  <2>4. Held' /\ Owned'
      BY <2>1 DEF IInv, Held, MayHold, Owned, Changing
  <2> QED BY <2>2, <2>3, <2>4 DEF IInv
<1>8. ASSUME NEW r \in Request,
             \/ \E k \in Kinds, a, b \in Admin : Begin(r, k, a, b)
             \/ count(r) \/ lock_all(r) \/ commit_report(r)
             \/ admin_login(r) \/ sign_session(r)
             \/ bad_signature(r) \/ expired(r) \/ verified(r) \/ admin_refresh(r)
             \/ rotate_keys(r) \/ invalidate_key(r)
             \/ admin_delete(r) \/ delete_commit(r) \/ create_admin(r)
             \/ select_account(r) \/ admin_lock(r) \/ lock_logs_out(r) \/ admin_unlock(r)
             \/ Fail(r)
      PROVE  IInv'
  <2>1. CASE \E k \in Kinds, a, b \in Admin : Begin(r, k, a, b)
      BY <1>1, <2>1
  <2>2. CASE count(r) \/ lock_all(r) \/ admin_login(r) \/ sign_session(r)
      BY <1>2, <2>2
  <2>3. CASE commit_report(r) \/ admin_lock(r) \/ admin_unlock(r) \/ Fail(r)
      BY <1>3, <2>3
  <2>4. CASE bad_signature(r) \/ expired(r) \/ verified(r) \/ admin_refresh(r)
      BY <1>4, <2>4
  <2>5. CASE admin_delete(r) \/ delete_commit(r) \/ create_admin(r) \/ select_account(r)
      BY <1>5, <2>5
  <2>6. CASE lock_logs_out(r)
      BY <1>6, <2>6
  <2>7. CASE rotate_keys(r) \/ invalidate_key(r)
      BY <2>7, KeyEndpointsIInv
  <2> QED BY <1>8, <2>1, <2>2, <2>3, <2>4, <2>5, <2>6, <2>7
<1>9. CASE Next
    BY <1>6, <1>8, <1>9 DEF Next
<1> QED BY <1>7, <1>9

\* What the row locks, the log and the sessions say of the requests, in every state.
THEOREM Invariant == Spec => []IInv
<1>1. Init => IInv
    BY InitIInv
<1>2. IInv /\ [Next]_vars => IInv'
    BY NextIInv
<1> QED BY <1>1, <1>2, PTL DEF Spec

(***************************************************************************)
(* The properties                                                          *)
(***************************************************************************)

\* The admins table, its row locks, the log, the sessions and the requests keep their types.
THEOREM AdminTypes == Spec => []TypeOK
<1>1. IInv => TypeOK
    BY DEF IInv
<1> QED BY <1>1, Invariant, PTL

\* admin_lock and admin_unlock: what SELECT ... FOR UPDATE found is so until the commit.
THEOREM LocksAlwaysFlip == Spec => []LockFlips
<1>1. ASSUME IInv, NEW r \in Request, At(r, "write"), req[r].kind \in {"lock", "unlock"}
      PROVE  locked[req[r].to] = (req[r].kind = "unlock")
  <2>1. req[r] # Idle /\ req[r].to \in Admin /\ Changing(req[r], req[r].to)
      BY <1>1, Asking DEF Asked, Changing
  <2> QED BY <1>1, <2>1 DEF IInv, Owned
<1>2. IInv => LockFlips
    BY <1>1 DEF LockFlips
<1> QED BY <1>2, Invariant, PTL

\* report_suspicious_activity and admin_lock: what an account is locked for.
THEOREM LocksJustified == Spec => LockJustified
<1>1. ASSUME IInv, [Next]_vars, NEW a \in Admin, locked'[a], ~locked[a]
      PROVE  \/ \E r \in Request : /\ req[r] # Idle /\ req'[r] # req[r]
                                   /\ req[r].kind = "lock" /\ req[r].to = a
             \/ \E r \in Request : /\ req[r] # Idle /\ req'[r] = Idle /\ Grave(req[r])
                                   /\ activity'[req[r].report] >= Limit
  <2>1. locked' # locked
      BY <1>1
  <2>2. PICK r \in Request : commit_report(r) \/ admin_lock(r) \/ admin_unlock(r)
      BY <1>1, <2>1 DEF Next, vars, table, Begin, count, lock_all, admin_login, sign_session,
            bad_signature, expired, verified, admin_refresh, rotate_keys, invalidate_key,
            admin_delete, delete_commit, create_admin, select_account, lock_logs_out, Fail, admin_logout
  <2>3. req[r] # Idle /\ req[r] \in Asked /\ req[r].report \in Admin
      BY <1>1, <2>2, Asking DEF commit_report, admin_lock, admin_unlock, Asked
  <2>4. CASE commit_report(r)
    <3>1. holder[a] = r /\ req[r].at = "commit report" /\ req'[r] = Idle
        BY <1>1, <2>4 DEF commit_report, At, End, IInv, TypeOK
    <3>2. Grave(req[r]) /\ activity[req[r].report] + 1 >= Limit
        BY <1>1, <2>3, <3>1 DEF IInv, Held, MayHold, Changing, AllKnown, Known
    <3>3. activity'[req[r].report] = activity[req[r].report] + 1
        BY <1>1, <2>3, <2>4 DEF commit_report, IInv, TypeOK
    <3>4. activity'[req[r].report] >= Limit
        BY <3>2, <3>3
    <3> QED BY <2>3, <3>1, <3>2, <3>4
  <2>5. CASE admin_lock(r)
    <3>1. req[r].at = "write" /\ req[r].kind = "lock" /\ req[r].to = a
        BY <1>1, <2>5 DEF admin_lock, At, IInv, TypeOK
    <3>2. PICK q : q = [req[r] EXCEPT !.at = "log out"]
        OBVIOUS
    <3>3. q.at = "log out"
        BY <2>3, <3>2, Moved DEF Steps
    <3>4. req' = [req EXCEPT ![r] = q]
        BY <2>5, <3>2 DEF admin_lock, Advance
    <3>5. req'[r] = q
        BY <1>1, <3>4 DEF IInv, TypeOK
    <3>6. q # req[r]
        BY <3>1, <3>3
    <3> QED BY <2>3, <3>1, <3>5, <3>6
  <2>6. CASE admin_unlock(r)
      BY <1>1, <2>6 DEF admin_unlock, IInv, TypeOK
  <2> QED BY <2>2, <2>4, <2>5, <2>6
<1>2. IInv /\ [Next]_vars => LockJustified!1
    BY <1>1
<1> QED BY <1>2, Invariant, PTL DEF Spec, LockJustified

\* create_admin and admin_delete: who creates and deletes accounts, and in which session.
THEOREM ActsAlwaysInSession == Spec => ActsInSession
<1>1. ASSUME IInv, [Next]_vars, NEW a \in Admin, state'[a] # state[a]
      PROVE  \E r \in Request : /\ req[r] # Idle /\ req'[r] = Idle /\ req[r].to = a
                                /\ req[r].during /\ Role(req[r].by) = "super"
  <2>1. state' # state
      BY <1>1
  <2>2. PICK r \in Request : delete_commit(r) \/ create_admin(r)
      BY <1>1, <2>1 DEF Next, vars, table, Begin, count, lock_all, commit_report, admin_login,
            sign_session, bad_signature, expired, verified, admin_refresh, rotate_keys,
            invalidate_key, admin_delete, select_account, admin_lock, lock_logs_out, admin_unlock, Fail, admin_logout
  <2>3. /\ req[r] # Idle /\ req[r].at \in {"read", "write"} /\ req[r].kind \in {"delete", "create"}
        /\ Known(req[r], session, activity)
      BY <1>1, <2>2, Asking DEF delete_commit, create_admin
  <2>4. req[r].to = a /\ req'[r] = Idle
      BY <1>1, <2>2 DEF delete_commit, create_admin, End, IInv, TypeOK
  <2> QED BY <2>3, <2>4 DEF Known
<1>2. IInv /\ [Next]_vars => ActsInSession!1
    BY <1>1
<1> QED BY <1>2, Invariant, PTL DEF Spec, ActsInSession
=============================================================================
