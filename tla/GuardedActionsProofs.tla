------------------------ MODULE GuardedActionsProofs ------------------------
(***************************************************************************)
(* guard_action, its intents and the events behind them, for any sets of   *)
(* requests and users and any number of events.                            *)
(*                                                                         *)
(* A request that still has its lock is the only one that has it, and no   *)
(* event that counts is pending under its name: the intent it did not find *)
(* would still be there, since an intent is cleared only by the event that *)
(* has set it, and later events set later ids.                             *)
(***************************************************************************)
EXTENDS GuardedActions, FiniteSetTheorems, SequenceTheorems, TLAPS

NameOfActivity(a) == <<a.op.key, a.who>>

Typed(a) ==
    /\ a.op \in offered
    /\ a.pc = "authorise" => a.op.auth # "no"
    /\ a.pc \in {"check", "mark"} => a.op.refuse # {} /\ a.op.auth # "inside"

Holding(a, L) == a.holds => NameOfActivity(a) \in L

\* E: the users that are entitled now.
Rightful(a, E) ==
    /\ a.who \in E => a.right
    /\ a.op.auth = "before" /\ a.pc \in {"guard", "check", "mark", "emit"} => a.right
    /\ a.op.auth = "inside" /\ a.pc = "emit" => a.right

Alone(a, S) ==
    a.holds /\ a.op.key \in Strict /\ a.pc \in {"check", "mark", "emit"} =>
        \A i \in DOMAIN S : S[i].user = a.who /\ S[i].key = a.op.key => S[i].loose

Sound(a, L, E, S) == Typed(a) /\ Holding(a, L) /\ Rightful(a, E) /\ Alone(a, S)

AllSound == \A r \in Request : req[r] # Idle => Sound(req[r], lock, author \cup admins, stream)

\* No two requests have set one lock.
Unique ==
    \A r, s \in Request :
        r # s /\ req[r] # Idle /\ req[s] # Idle /\ req[r].holds /\ req[s].holds
        => NameOfActivity(req[r]) # NameOfActivity(req[s])

\* What is true of the queued events S, with intents I and newest id `last`.
Queued(S, I, last) ==
    /\ \A i \in DOMAIN S : S[i].id <= last
    /\ \A i, j \in DOMAIN S : i < j => S[i].id < S[j].id
    /\ \A i \in DOMAIN S : S[i].key \in Strict /\ ~S[i].loose =>
          S[i].filed = S[i].key /\ S[i].id <= I[<<S[i].key, S[i].user>>]
    /\ \A i, j \in DOMAIN S :
          i # j /\ S[i].key = S[j].key /\ S[i].user = S[j].user /\ S[i].key \in Strict
          => S[i].loose \/ S[j].loose
    /\ \A i \in DOMAIN S : S[i].name \in {"POST_DELETE", "COMMENT_DELETE"} => S[i].right

IInv == TypeOK /\ AllSound /\ Unique /\ Queued(stream, intent, lastId)

(***************************************************************************)
(* The handlers                                                            *)
(***************************************************************************)

\* What the names of a handler's lock, intents and event are.
LEMMA HandlerNames ==
    ASSUME NEW h \in Handler
    PROVE  /\ h.key \in Key /\ h.mark \in Key /\ h.intent \in Key
           /\ h.event \in {g.event : g \in Handler}
    BY DEF Key

\* A handler whose guard reads a strict intent files it; one that queues a deletion asks for
\* a right.
Consistent(h) ==
    /\ h.key \in Strict => h.auth # "inside" /\ (h.intent = h.key \/ h.event = "invalid")
    /\ h.intent = NoKey => h.key \notin Strict
    /\ h.event \in {"POST_DELETE", "COMMENT_DELETE"} => h.auth \in {"before", "inside"}

LEMMA HandlerFacts ==
    ASSUME NEW h \in Handler
    PROVE  Consistent(h)
<1>1. ASSUME NEW up
      PROVE  Consistent(vote_post(up)) /\ Consistent(vote_comment(up))
    BY DEF Consistent, vote_post, vote_comment, Strict, NoKey
<1>2. Consistent(unvote_post) /\ Consistent(save_post) /\ Consistent(unsave_post)
    BY DEF Consistent, unvote_post, save_post, unsave_post, Strict, NoKey
<1>3. Consistent(create_post) /\ Consistent(delete_post) /\ Consistent(delete_forum)
    BY DEF Consistent, create_post, delete_post, delete_forum, Strict, NoKey
<1>4. Consistent(report_comment) /\ Consistent(delete_comment) /\ Consistent(unvote_comment)
    BY DEF Consistent, report_comment, delete_comment, unvote_comment, Strict, NoKey
<1>5. Consistent(subscribe_forum) /\ Consistent(unsubscribe_forum)
    BY DEF Consistent, subscribe_forum, unsubscribe_forum, Strict, NoKey
<1>6. Consistent(sub_anime) /\ Consistent(unsub_anime) /\ Consistent(unguarded)
    BY DEF Consistent, sub_anime, unsub_anime, unguarded, Strict, NoKey
<1> QED
    BY <1>1, <1>2, <1>3, <1>4, <1>5, <1>6
       DEF Handler, Family, comment_on_post, report_post, delete_user

\* Where a handler may ask for the right to act.
LEMMA HandlerAuth ==
    ASSUME NEW h \in Handler
    PROVE  h.auth \in {"no", "before", "inside"}
<1>1. ASSUME NEW up
      PROVE  vote_post(up).auth = "no" /\ vote_comment(up).auth = "no"
    BY DEF vote_post, vote_comment
<1>2. /\ unvote_post.auth = "no" /\ save_post.auth = "no" /\ unsave_post.auth = "no"
      /\ create_post.auth = "no" /\ report_comment.auth = "no" /\ unvote_comment.auth = "no"
    BY DEF unvote_post, save_post, unsave_post, create_post, report_comment, unvote_comment
<1>3. delete_post.auth = "inside" /\ delete_forum.auth = "before" /\ delete_comment.auth = "before"
    BY DEF delete_post, delete_forum, delete_comment
<1>4. /\ subscribe_forum.auth = "no" /\ unsubscribe_forum.auth = "no" /\ sub_anime.auth = "no"
      /\ unsub_anime.auth = "no" /\ unguarded.auth = "no"
    BY DEF subscribe_forum, unsubscribe_forum, sub_anime, unsub_anime, unguarded
<1> QED
    BY <1>1, <1>2, <1>3, <1>4
       DEF Handler, Family, comment_on_post, report_post, delete_user

\* Handlers of the family on offer are handlers.
LEMMA OfferedHandler ==
    ASSUME TypeOK, NEW h \in offered
    PROVE  h \in Handler
    BY DEF TypeOK, Handler

\* The queued events.
LEMMA StreamFacts ==
    ASSUME TypeOK
    PROVE  /\ Len(stream) \in Nat /\ DOMAIN stream = 1 .. Len(stream)
           /\ \A i \in DOMAIN stream :
                 /\ stream[i] \in Event /\ stream[i].id \in Nat \ {0}
                 /\ stream[i].user \in User /\ stream[i].filed \in Key /\ stream[i].key \in Key
<1>1. stream \in Seq(Event)
    BY DEF TypeOK
<1>2. Len(stream) \in Nat /\ DOMAIN stream = 1 .. Len(stream)
    BY <1>1, LenProperties
<1>3. \A i \in DOMAIN stream : stream[i] \in Event
    BY <1>1, <1>2, ElementOfSeq
<1>4. \A e \in Event : e.id \in Nat \ {0} /\ e.user \in User /\ e.filed \in Key /\ e.key \in Key
    BY MaxEventsAssumption DEF Event
<1> QED BY <1>2, <1>3, <1>4

(***************************************************************************)
(* Steps of one request that leave Redis and the database alone            *)
(***************************************************************************)

\* A request moves on to the activity a, or ends; it gains no lock.
LEMMA MoveIInv ==
    ASSUME IInv, NEW r \in Request, NEW a \in Activity \cup {Idle},
           UNCHANGED <<database, redis>>, req' = [req EXCEPT ![r] = a],
           a # Idle => Sound(a, lock, author \cup admins, stream),
           a # Idle /\ a.holds => /\ req[r] # Idle /\ req[r].holds
                                  /\ NameOfActivity(req[r]) = NameOfActivity(a)
    PROVE  IInv'
<1> USE DEF database, redis
<1>1. \A x \in Request : req'[x] = IF x = r THEN a ELSE req[x]
    BY DEF IInv, TypeOK
<1>2. TypeOK'
  <2>1. req' \in [Request -> Activity \cup {Idle}]
      BY DEF IInv, TypeOK
  <2>2. \A x \in Request : req'[x] # Idle =>
            /\ req'[x].op \in offered
            /\ req'[x].pc = "authorise" => req'[x].op.auth # "no"
            /\ req'[x].pc \in {"check", "mark"} => req'[x].op.refuse # {}
      BY <1>1 DEF IInv, TypeOK, Sound, Typed
  <2> QED BY <2>1, <2>2 DEF IInv, TypeOK
<1>3. \A x \in Request : req'[x] # Idle => Sound(req'[x], lock, author \cup admins, stream)
    BY <1>1 DEF IInv, AllSound
<1>4. AllSound'
    BY <1>3 DEF AllSound, Sound, Typed
<1>5. Unique'
    BY <1>1 DEF IInv, Unique
<1>6. Queued(stream, intent, lastId)'
    BY DEF IInv
<1> QED BY <1>2, <1>4, <1>5, <1>6 DEF IInv

\* A request moves on to the step pc.
LEMMA GotoIInv ==
    ASSUME IInv, NEW r \in Request, req[r] # Idle, NEW pc \in {"guard", "check", "mark", "emit", "leave"},
           Goto(r, pc), UNCHANGED <<database, redis>>,
           pc \in {"check", "mark"} => req[r].op.refuse # {} /\ req[r].op.auth # "inside",
           req[r].op.auth = "before" /\ pc # "leave" => req[r].right,
           req[r].op.auth = "inside" /\ pc = "emit" => req[r].right,
           pc \in {"check", "mark", "emit"} =>
               req[r].pc \in {"check", "mark", "emit"} \/ req[r].op.auth = "inside" \/ ~req[r].holds
    PROVE  IInv'
<1> DEFINE q == req[r]
<1>1. q \in Activity /\ Sound(q, lock, author \cup admins, stream)
    BY DEF IInv, TypeOK, AllSound
<1>2. PICK a : a = [q EXCEPT !.pc = pc]
    OBVIOUS
<1>3. /\ a \in Activity /\ a.pc = pc /\ a.op = q.op /\ a.who = q.who
      /\ a.holds = q.holds /\ a.right = q.right
    BY <1>1, <1>2 DEF Activity
<1>4. req' = [req EXCEPT ![r] = a]
    BY <1>2 DEF Goto
<1>5. q.op \in Handler
    BY <1>1 DEF Activity
<1>6. Typed(a) /\ Rightful(a, author \cup admins)
    BY <1>1, <1>3 DEF Sound, Typed, Rightful
<1>7. Holding(a, lock)
    BY <1>1, <1>3 DEF Sound, Holding, NameOfActivity
<1>8. Alone(a, stream)
    BY <1>1, <1>3, <1>5, HandlerFacts DEF Sound, Alone, Consistent
<1>9. NameOfActivity(a) = NameOfActivity(q)
    BY <1>3 DEF NameOfActivity
<1> HIDE DEF q
<1> QED BY <1>3, <1>4, <1>6, <1>7, <1>8, <1>9, MoveIInv DEF Sound, q

\* A request ends, and its lock, if it has one, stays.
LEMMA EndIInv ==
    ASSUME IInv, NEW r \in Request, End(r), UNCHANGED <<database, redis>>
    PROVE  IInv'
    BY MoveIInv DEF End

\* The steps of the handlers that leave Redis alone.
LEMMA HandlerIInv ==
    ASSUME IInv, NEW r \in Request,
           \/ \E h \in offered, u \in User : Begin(r, h, u)
           \/ Authorise(r) \/ CheckRow(r) \/ Fail(r) \/ Die(r)
    PROVE  IInv'
<1> DEFINE q == req[r]
<1>0. q # Idle => q \in Activity /\ Sound(q, lock, author \cup admins, stream)
    BY DEF IInv, TypeOK, AllSound
<1>1. ASSUME NEW h \in offered, NEW u \in User, Begin(r, h, u)
      PROVE  IInv'
  <2> DEFINE a == [pc |-> IF h.auth = "before" THEN "authorise" ELSE "guard",
                   op |-> h, who |-> u, holds |-> FALSE, right |-> Entitled(u)]
  <2>1. h \in Handler
      BY OfferedHandler DEF IInv
  <2>2. a \in Activity
      BY <2>1 DEF Activity, Entitled
  <2>3. Sound(a, lock, author \cup admins, stream)
      BY DEF Sound, Typed, Holding, Rightful, Alone, Entitled
  <2>4. ~a.holds
      OBVIOUS
  <2>5. UNCHANGED <<database, redis>> /\ (req' = [req EXCEPT ![r] = a] \/ End(r))
      BY <1>1 DEF Begin, End, IInv, TypeOK
  <2> HIDE DEF a
  <2> QED BY <2>2, <2>3, <2>4, <2>5, MoveIInv, EndIInv
<1>2. CASE Authorise(r)
  <2>1. q # Idle /\ q.pc = "authorise" /\ UNCHANGED <<database, redis>>
      BY <1>2 DEF Authorise, At, Active
  <2>2. q.op \in Handler /\ q.op.auth # "no"
      BY <1>0, <2>1 DEF Activity, Sound, Typed
  <2>3. CASE Entitled(q.who) /\ Goto(r, IF q.op.auth = "before" THEN "guard" ELSE "emit")
    <3>1. q.right
        BY <1>0, <2>1, <2>3 DEF Sound, Rightful, Entitled
    <3>2. CASE q.op.auth = "before"
        BY <2>1, <2>3, <3>1, <3>2, GotoIInv
    <3>3. CASE q.op.auth # "before"
      <4>1. q.op.auth = "inside"
          BY <2>2, <3>3, HandlerAuth
      <4> QED BY <2>1, <2>3, <3>1, <3>3, <4>1, GotoIInv
    <3> QED BY <3>2, <3>3
  <2>4. CASE IF q.op.auth = "before" THEN End(r) ELSE Goto(r, "leave")
      BY <2>1, <2>4, EndIInv, GotoIInv
  <2> QED BY <1>2, <2>3, <2>4 DEF Authorise
<1>3. CASE CheckRow(r)
  <2>1. /\ q # Idle /\ q.pc = "check" /\ UNCHANGED <<database, redis>>
        /\ Goto(r, "mark") \/ Goto(r, "emit")
      BY <1>3 DEF CheckRow, At, Active
  <2>2. q.op.refuse # {} /\ q.op.auth # "inside" /\ (q.op.auth = "before" => q.right)
      BY <1>0, <2>1 DEF Sound, Typed, Rightful
  <2> QED BY <2>1, <2>2, GotoIInv
<1>4. CASE Fail(r)
  <2>1. q # Idle /\ UNCHANGED <<database, redis>> /\ (End(r) \/ Goto(r, "leave"))
      BY <1>4 DEF Fail, Active
  <2> QED BY <2>1, EndIInv, GotoIInv
<1>5. CASE Die(r)
    BY <1>5, EndIInv DEF Die
<1> QED BY <1>1, <1>2, <1>3, <1>4, <1>5

(***************************************************************************)
(* The lock                                                                *)
(***************************************************************************)

\* Guard: the lock is set where there was none, and the intent that is missing says that
\* no event that counts is pending.
LEMMA GuardIInv ==
    ASSUME IInv, NEW r \in Request, Guard(r)
    PROVE  IInv'
<1> DEFINE q == req[r]
           n == NameOf(r)
<1>1. /\ q # Idle /\ q.pc = "guard" /\ q \in Activity
      /\ Sound(q, lock, author \cup admins, stream)
      /\ UNCHANGED <<database, intent, stream, lastId>>
    BY DEF Guard, At, Active, IInv, TypeOK, AllSound
<1>2. CASE n \in lock /\ Goto(r, "leave") /\ UNCHANGED lock
    BY <1>1, <1>2, GotoIInv DEF redis
<1>3. CASE n \notin lock /\ lock' = lock \cup {n}
           /\ req' = [req EXCEPT ![r].holds = TRUE,
                                 ![r].pc = IF intent[n] = 0 THEN Inside(q.op) ELSE "leave"]
  <2> DEFINE pc == IF intent[n] = 0 THEN Inside(q.op) ELSE "leave"
  <2>1. q.op \in Handler /\ q.who \in User /\ n = <<q.op.key, q.who>> /\ n \in Name
      BY <1>1, HandlerNames DEF Activity, NameOf, Name
  <2>2. /\ pc \in {"authorise", "check", "emit", "leave"}
        /\ pc = "authorise" => q.op.auth = "inside"
        /\ pc = "check" => q.op.refuse # {} /\ q.op.auth # "inside"
        /\ pc = "emit" => q.op.auth # "inside"
        /\ pc # "leave" => intent[n] = 0
      BY DEF Inside
  <2> HIDE DEF pc
  <2>3. PICK a : a = [q EXCEPT !.holds = TRUE, !.pc = pc]
      OBVIOUS
  <2>4. /\ a \in Activity /\ a.pc = pc /\ a.op = q.op /\ a.who = q.who
        /\ a.holds = TRUE /\ a.right = q.right
      BY <1>1, <2>2, <2>3 DEF Activity
  <2>5. req' = [req EXCEPT ![r] = a]
      BY <1>3, <2>3 DEF pc
  <2>6. \A x \in Request : req'[x] = IF x = r THEN a ELSE req[x]
      BY <2>5 DEF IInv, TypeOK
  <2>7. \A i \in DOMAIN stream :
            n = <<stream[i].key, stream[i].user>> /\ intent[n] = 0 /\ stream[i].key \in Strict
            => stream[i].loose
    <3>1. \A i \in DOMAIN stream : stream[i].id \in Nat \ {0}
        BY StreamFacts DEF IInv
    <3>2. ASSUME NEW i \in DOMAIN stream,
                 n = <<stream[i].key, stream[i].user>>, intent[n] = 0, stream[i].key \in Strict,
                 ~stream[i].loose
          PROVE  FALSE
      <4>1. stream[i].id <= intent[n]
          BY <3>2 DEF IInv, Queued
      <4> QED BY <3>1, <3>2, <4>1
    <3> QED BY <3>2
  <2>8. Alone(a, stream)
      BY <2>1, <2>2, <2>4, <2>7 DEF Alone
  <2>9. Typed(a) /\ Rightful(a, author \cup admins)
      BY <1>1, <2>2, <2>4, HandlerAuth DEF Sound, Typed, Rightful
  <2>10. Holding(a, lock \cup {n}) /\ NameOfActivity(a) = n
      BY <2>1, <2>4 DEF Holding, NameOfActivity
  <2>11. \A x \in Request : req'[x] # Idle =>
             Sound(req'[x], lock \cup {n}, author \cup admins, stream)
      BY <2>6, <2>8, <2>9, <2>10 DEF IInv, AllSound, Sound, Holding
  <2>12. PICK L : L = lock \cup {n}
      OBVIOUS
  <2>13. AllSound'
      BY <1>1, <1>3, <2>11, <2>12 DEF AllSound, Sound, Typed, database
  <2>14. \A x \in Request : req[x] # Idle /\ req[x].holds => NameOfActivity(req[x]) # n
      BY <1>3 DEF IInv, AllSound, Sound, Holding
  <2>15. Unique'
      BY <2>6, <2>10, <2>14 DEF IInv, Unique
  <2>16. TypeOK'
    <3>1. req' \in [Request -> Activity \cup {Idle}] /\ lock' \subseteq Name
        BY <1>3, <2>1, <2>4, <2>5 DEF IInv, TypeOK
    <3>2. \A x \in Request : req'[x] # Idle => Typed(req'[x])
        BY <2>11 DEF Sound
    <3> QED BY <1>1, <3>1, <3>2 DEF IInv, TypeOK, Typed, database
  <2> QED BY <1>1, <2>13, <2>15, <2>16 DEF IInv
<1> QED BY <1>2, <1>3 DEF Guard

\* The lock called n goes, and with it what a request held by it; a request may end.
LEMMA UnlockIInv ==
    ASSUME IInv, NEW n, lock' = lock \ {n}, UNCHANGED <<database, intent, stream, lastId>>,
           req' \in [Request -> Activity \cup {Idle}],
           \A x \in Request : req'[x] # Idle =>
               /\ req[x] # Idle
               /\ req'[x].pc = req[x].pc /\ req'[x].op = req[x].op /\ req'[x].who = req[x].who
               /\ req'[x].right = req[x].right
               /\ req'[x].holds => req[x].holds /\ NameOf(x) # n
    PROVE  IInv'
<1>1. \A x \in Request : req'[x] # Idle => Sound(req'[x], lock \ {n}, author \cup admins, stream)
    BY DEF IInv, AllSound, Sound, Typed, Holding, Rightful, Alone, NameOfActivity, NameOf
<1>2. PICK L : L = lock \ {n}
    OBVIOUS
<1>3. AllSound'
    BY <1>1, <1>2 DEF AllSound, Sound, Typed, database
<1>4. Unique'
    BY DEF IInv, Unique, NameOfActivity
<1>5. \A x \in Request : req'[x] # Idle => Typed(req'[x])
    BY <1>1 DEF Sound
<1>6. TypeOK'
    BY <1>5 DEF IInv, TypeOK, Typed, database
<1> QED BY <1>3, <1>4, <1>6 DEF IInv

\* What Dispossessed makes of the requests.
LEMMA DispossessedType ==
    ASSUME TypeOK, NEW n
    PROVE  /\ Dispossessed(n) \in [Request -> Activity \cup {Idle}]
           /\ \A x \in Request : Dispossessed(n)[x] # Idle =>
                 LET a == Dispossessed(n)[x]
                 IN  /\ req[x] # Idle
                     /\ a.pc = req[x].pc /\ a.op = req[x].op /\ a.who = req[x].who
                     /\ a.right = req[x].right
                     /\ a.holds => req[x].holds /\ NameOf(x) # n
<1> SUFFICES ASSUME NEW x \in Request
             PROVE  LET a == Dispossessed(n)[x]
                    IN  /\ a \in Activity \cup {Idle}
                        /\ a # Idle =>
                              /\ req[x] # Idle
                              /\ a.pc = req[x].pc /\ a.op = req[x].op /\ a.who = req[x].who
                              /\ a.right = req[x].right
                              /\ a.holds => req[x].holds /\ NameOf(x) # n
    BY DEF Dispossessed
<1>1. CASE x \in Active /\ NameOf(x) = n
  <2>1. Dispossessed(n)[x] = [req[x] EXCEPT !.holds = FALSE] /\ req[x] \in Activity /\ req[x] # Idle
      BY <1>1 DEF Dispossessed, Active, TypeOK
  <2> QED BY <1>1, <2>1 DEF Activity
<1>2. CASE ~(x \in Active /\ NameOf(x) = n)
    BY <1>2 DEF Dispossessed, Active, TypeOK
<1> QED BY <1>1, <1>2

\* Leave and LockExpire.
LEMMA LeaveIInv ==
    ASSUME IInv, \/ \E r \in Request : Leave(r)
                 \/ \E n \in Name : LockExpire(n)
    PROVE  IInv'
<1>1. ASSUME NEW r \in Request, Leave(r)
      PROVE  IInv'
  <2> DEFINE n == NameOf(r)
             d == Dispossessed(n)
  <2>1. /\ lock' = lock \ {n} /\ UNCHANGED <<database, intent, stream, lastId>>
        /\ req' = [d EXCEPT ![r] = Idle]
      BY <1>1 DEF Leave
  <2>2. /\ d \in [Request -> Activity \cup {Idle}]
        /\ \A x \in Request : d[x] # Idle =>
              /\ req[x] # Idle
              /\ d[x].pc = req[x].pc /\ d[x].op = req[x].op /\ d[x].who = req[x].who
              /\ d[x].right = req[x].right
              /\ d[x].holds => req[x].holds /\ NameOf(x) # n
      BY DispossessedType DEF IInv
  <2> HIDE DEF n, d
  <2>3. \A x \in Request : req'[x] # Idle => req'[x] = d[x]
      BY <2>1, <2>2
  <2>4. req' \in [Request -> Activity \cup {Idle}]
      BY <2>1, <2>2
  <2>5. \A x \in Request : req'[x] # Idle =>
            /\ req[x] # Idle
            /\ req'[x].pc = req[x].pc /\ req'[x].op = req[x].op /\ req'[x].who = req[x].who
            /\ req'[x].right = req[x].right
            /\ req'[x].holds => req[x].holds /\ NameOf(x) # n
      BY <2>2, <2>3
  <2> QED BY <2>1, <2>4, <2>5, UnlockIInv
<1>2. ASSUME NEW n \in Name, LockExpire(n)
      PROVE  IInv'
  <2>1. /\ lock' = lock \ {n} /\ UNCHANGED <<database, intent, stream, lastId>>
        /\ req' = Dispossessed(n)
      BY <1>2 DEF LockExpire
  <2> QED BY <2>1, DispossessedType, UnlockIInv DEF IInv
<1> QED BY <1>1, <1>2

(***************************************************************************)
(* Events and intents                                                      *)
(***************************************************************************)

\* A step that changes events and intents, after which a request may leave.
LEMMA QueueIInv ==
    ASSUME IInv, UNCHANGED <<offered, author, admins, lock>>,
           row' \in [User -> RowValue], stream' \in Seq(Event),
           intent' \in [Name -> 0..MaxEvents], lastId' \in 0..MaxEvents,
           Queued(stream', intent', lastId'),
           req' \in [Request -> Activity \cup {Idle}],
           \A x \in Request : req'[x] # Idle =>
               /\ req[x] # Idle
               /\ req'[x].pc \in {req[x].pc, "leave"} /\ req'[x].op = req[x].op
               /\ req'[x].who = req[x].who /\ req'[x].holds = req[x].holds
               /\ req'[x].right = req[x].right
               /\ Alone(req'[x], stream')
    PROVE  IInv'
<1>1. \A x \in Request : req'[x] # Idle => Sound(req'[x], lock, author \cup admins, stream')
    BY DEF IInv, AllSound, Sound, Typed, Holding, Rightful, NameOfActivity
<1>2. PICK S : S = stream'
    OBVIOUS
<1>3. AllSound'
    BY <1>1, <1>2 DEF AllSound, Sound, Typed
<1>4. Unique'
    BY DEF IInv, Unique, NameOfActivity
<1>5. \A x \in Request : req'[x] # Idle => Typed(req'[x])
    BY <1>1 DEF Sound
<1>6. TypeOK'
    BY <1>5 DEF IInv, TypeOK, Typed
<1>7. Queued(stream, intent, lastId)'
    OBVIOUS
<1> QED BY <1>3, <1>4, <1>6, <1>7 DEF IInv

\* A request that leaves is alone, whatever is queued.
LEMMA LeavingAlone ==
    ASSUME IInv, NEW r \in Request, req[r] # Idle, Goto(r, "leave")
    PROVE  /\ req' \in [Request -> Activity \cup {Idle}]
           /\ \A x \in Request : req'[x] # Idle =>
                 /\ req[x] # Idle
                 /\ x = r => req'[x].pc = "leave"
                 /\ x # r => req'[x] = req[x]
                 /\ req'[x].op = req[x].op /\ req'[x].who = req[x].who
                 /\ req'[x].holds = req[x].holds /\ req'[x].right = req[x].right
<1>1. req[r] \in Activity
    BY DEF IInv, TypeOK
<1>2. PICK a : a = [req[r] EXCEPT !.pc = "leave"]
    OBVIOUS
<1>3. /\ a \in Activity /\ a.pc = "leave" /\ a.op = req[r].op /\ a.who = req[r].who
      /\ a.holds = req[r].holds /\ a.right = req[r].right
    BY <1>1, <1>2 DEF Activity
<1>4. req' = [req EXCEPT ![r] = a]
    BY <1>2 DEF Goto
<1> QED BY <1>3, <1>4 DEF IInv, TypeOK

\* Mark: the intents only grow.
LEMMA MarkIInv ==
    ASSUME IInv, NEW r \in Request, Mark(r)
    PROVE  IInv'
<1> DEFINE n == <<req[r].op.mark, req[r].who>>
<1>1. /\ req[r] # Idle /\ req[r] \in Activity /\ lastId < MaxEvents /\ lastId' = lastId + 1
      /\ intent' = [intent EXCEPT ![n] = lastId + 1]
      /\ Goto(r, "leave") /\ UNCHANGED <<database, lock, stream>>
    BY DEF Mark, At, Active, IInv, TypeOK
<1>2. n \in Name
    BY <1>1, HandlerNames DEF Activity, Name
<1>3. lastId \in 0 .. MaxEvents /\ lastId + 1 \in 0 .. MaxEvents
    BY <1>1, MaxEventsAssumption DEF IInv, TypeOK
<1> HIDE DEF n
<1>4. intent' \in [Name -> 0..MaxEvents] /\ lastId' \in 0..MaxEvents
    BY <1>1, <1>2, <1>3 DEF IInv, TypeOK
<1>5. \A m \in Name : intent'[m] = IF m = n THEN lastId + 1 ELSE intent[m]
    BY <1>1 DEF IInv, TypeOK
<1>6. Queued(stream, intent', lastId')
  <2>1. ASSUME NEW i \in DOMAIN stream
        PROVE  stream[i].id <= lastId'
      BY <1>1, <1>3, StreamFacts DEF IInv, Queued
  <2>2. ASSUME NEW i \in DOMAIN stream, stream[i].key \in Strict, ~stream[i].loose
        PROVE  stream[i].id <= intent'[<<stream[i].key, stream[i].user>>]
    <3>1. <<stream[i].key, stream[i].user>> \in Name
        BY StreamFacts DEF IInv, Name
    <3>2. stream[i].id <= intent[<<stream[i].key, stream[i].user>>]
        BY <2>2 DEF IInv, Queued
    <3> QED BY <1>1, <1>5, <2>1, <3>1, <3>2
  <2> QED BY <2>1, <2>2 DEF IInv, Queued
<1>7. ASSUME NEW x \in Request, req'[x] # Idle
      PROVE  Alone(req'[x], stream)
  <2>1. PICK a : a = req'[x]
      OBVIOUS
  <2>2. /\ req[x] # Idle
        /\ x = r => a.pc = "leave"
        /\ x # r => a = req[x]
      BY <1>1, <1>7, <2>1, LeavingAlone
  <2>3. Alone(req[x], stream)
      BY <2>2 DEF IInv, AllSound, Sound
  <2>4. Alone(a, stream)
      BY <2>2, <2>3 DEF Alone
  <2> QED BY <2>1, <2>4
<1> QED BY <1>1, <1>4, <1>6, <1>7, LeavingAlone, QueueIInv DEF IInv, TypeOK, database

\* The stream after an event is appended.
LEMMA Appended ==
    ASSUME TypeOK, NEW e \in Event
    PROVE  /\ Append(stream, e) \in Seq(Event)
           /\ DOMAIN Append(stream, e) = 1 .. Len(stream) + 1
           /\ DOMAIN stream = 1 .. Len(stream) /\ Len(stream) \in Nat
           /\ \A i \in DOMAIN stream : Append(stream, e)[i] = stream[i]
           /\ Append(stream, e)[Len(stream) + 1] = e
    BY StreamFacts DEF TypeOK

\* Emit: the new event counts only if its request still has the lock, and then no other
\* event of its name counts; it carries the newest id, and sets the intent to it.
LEMMA EmitIInv ==
    ASSUME IInv, NEW r \in Request, Emit(r)
    PROVE  IInv'
<1> DEFINE a == req[r]
           e == [id |-> lastId + 1, name |-> a.op.event, key |-> a.op.key, filed |-> a.op.intent,
                 user |-> a.who, loose |-> ~a.holds, right |-> a.right]
           n == <<a.op.intent, a.who>>
           S == Append(stream, e)
           m == Len(stream) + 1
<1>1. /\ a # Idle /\ a \in Activity /\ a.pc = "emit" /\ a.op.event # "invalid"
      /\ lastId < MaxEvents /\ lastId' = lastId + 1
      /\ Sound(a, lock, author \cup admins, stream)
      /\ Goto(r, "leave") /\ UNCHANGED <<database, lock>>
    BY DEF Emit, At, Active, IInv, TypeOK, AllSound
<1>2. /\ intent' = IF a.op.intent = NoKey THEN intent ELSE [intent EXCEPT ![n] = lastId + 1]
      /\ stream' = S
    BY DEF Emit
<1>3. a.op \in Handler /\ a.who \in User /\ a.holds \in BOOLEAN /\ a.right \in BOOLEAN
    BY <1>1 DEF Activity
<1>4. lastId \in 0 .. MaxEvents /\ lastId + 1 \in 1 .. MaxEvents /\ n \in Name
    BY <1>1, <1>3, MaxEventsAssumption, HandlerNames DEF IInv, TypeOK, Name
<1>5. e \in Event
    BY <1>3, <1>4, HandlerNames DEF Event
<1>6. /\ e.id = lastId + 1 /\ e.name = a.op.event /\ e.key = a.op.key /\ e.filed = a.op.intent
      /\ e.user = a.who /\ e.loose = ~a.holds /\ e.right = a.right
    OBVIOUS
<1> HIDE DEF e, n, a
<1>7. /\ S \in Seq(Event) /\ DOMAIN S = 1 .. m /\ DOMAIN stream = 1 .. Len(stream)
      /\ Len(stream) \in Nat /\ S[m] = e
      /\ \A i \in DOMAIN stream : S[i] = stream[i]
    BY <1>5, Appended DEF IInv
<1> HIDE DEF S
<1>8. ASSUME NEW i \in DOMAIN S
      PROVE  i = m \/ (i \in DOMAIN stream /\ S[i] = stream[i] /\ i < m)
  <2>1. i \in 1 .. m /\ Len(stream) \in Nat /\ DOMAIN stream = 1 .. Len(stream)
      BY <1>7
  <2>2. i = m \/ (i \in 1 .. Len(stream) /\ i < m)
      BY <2>1
  <2> QED BY <1>7, <2>1, <2>2
<1>9. /\ intent' \in [Name -> 0..MaxEvents]
      /\ \A k \in Name : intent'[k] = intent[k] \/ intent'[k] = lastId + 1
      /\ a.op.intent # NoKey => intent'[n] = lastId + 1
    BY <1>2, <1>4 DEF IInv, TypeOK
<1>10. \A i \in DOMAIN stream :
           /\ stream[i].id \in Nat /\ stream[i].id <= lastId
           /\ <<stream[i].key, stream[i].user>> \in Name
    BY StreamFacts DEF IInv, Queued, Name
<1>11. Consistent(a.op)
    BY <1>3, HandlerFacts
<1>12. ASSUME a.op.key \in Strict, a.holds, NEW i \in DOMAIN stream,
              stream[i].user = a.who, stream[i].key = a.op.key
       PROVE  stream[i].loose
    BY <1>1, <1>12 DEF Sound, Alone
<1>13. ASSUME NEW i \in DOMAIN S
       PROVE  S[i].id <= lastId + 1
  <2>1. CASE i = m
      BY <1>4, <1>6, <1>7, <2>1
  <2>2. CASE i \in DOMAIN stream /\ S[i] = stream[i]
    <3>1. S[i].id \in Nat /\ S[i].id <= lastId
        BY <1>10, <2>2
    <3>2. lastId \in Nat
        BY <1>4
    <3> QED BY <3>1, <3>2
  <2> QED BY <1>8, <2>1, <2>2
<1>14. \A i, j \in DOMAIN S : i < j => S[i].id < S[j].id
  <2> SUFFICES ASSUME NEW i \in DOMAIN S, NEW j \in DOMAIN S, i < j
               PROVE  S[i].id < S[j].id
      OBVIOUS
  <2>1. i \in DOMAIN stream /\ S[i] = stream[i]
      BY <1>7, <1>8
  <2>2. CASE j = m
    <3>1. S[j].id = lastId + 1 /\ lastId \in Nat
        BY <1>4, <1>6, <1>7, <2>2
    <3>2. S[i].id \in Nat /\ S[i].id <= lastId
        BY <1>10, <2>1
    <3> QED BY <3>1, <3>2
  <2>3. CASE j # m
      BY <1>8, <2>1, <2>3 DEF IInv, Queued
  <2> QED BY <2>2, <2>3
<1>15. \A i \in DOMAIN S : S[i].key \in Strict /\ ~S[i].loose =>
           S[i].filed = S[i].key /\ S[i].id <= intent'[<<S[i].key, S[i].user>>]
  <2> SUFFICES ASSUME NEW i \in DOMAIN S, S[i].key \in Strict, ~S[i].loose
               PROVE  S[i].filed = S[i].key /\ S[i].id <= intent'[<<S[i].key, S[i].user>>]
      OBVIOUS
  <2>1. CASE i = m
    <3>1. a.op.key \in Strict /\ a.op.intent = a.op.key /\ a.op.intent # NoKey
        BY <1>1, <1>6, <1>7, <1>11, <2>1 DEF Consistent
    <3>2. <<S[i].key, S[i].user>> = n /\ S[i].filed = S[i].key /\ S[i].id = lastId + 1
        BY <1>6, <1>7, <2>1, <3>1 DEF n
    <3> QED BY <1>4, <1>9, <3>1, <3>2
  <2>2. CASE i \in DOMAIN stream /\ S[i] = stream[i]
    <3>1. S[i].filed = S[i].key /\ S[i].id <= intent[<<S[i].key, S[i].user>>]
        BY <2>2 DEF IInv, Queued
    <3>2. S[i].id \in Nat /\ S[i].id <= lastId /\ <<S[i].key, S[i].user>> \in Name
        BY <1>10, <2>2
    <3> QED BY <1>4, <1>9, <3>1, <3>2
  <2> QED BY <1>8, <2>1, <2>2
<1>16. \A i, j \in DOMAIN S :
           i # j /\ S[i].key = S[j].key /\ S[i].user = S[j].user /\ S[i].key \in Strict
           => S[i].loose \/ S[j].loose
  <2> SUFFICES ASSUME NEW i \in DOMAIN S, NEW j \in DOMAIN S, i # j,
                      S[i].key = S[j].key, S[i].user = S[j].user, S[i].key \in Strict
               PROVE  S[i].loose \/ S[j].loose
      OBVIOUS
  <2>1. ASSUME NEW k \in DOMAIN stream, S[m].key = stream[k].key, S[m].user = stream[k].user,
               S[m].key \in Strict
        PROVE  S[m].loose \/ stream[k].loose
    <3>1. CASE a.holds
      <4>1. a.op.key \in Strict /\ stream[k].user = a.who /\ stream[k].key = a.op.key
          BY <1>6, <1>7, <2>1
      <4> QED BY <1>12, <3>1, <4>1
    <3>2. CASE ~a.holds
        BY <1>6, <1>7, <3>2
    <3> QED BY <3>1, <3>2
  <2>2. CASE i = m
    <3>1. j \in DOMAIN stream /\ S[j] = stream[j]
        BY <1>8, <2>2
    <3> QED BY <2>1, <2>2, <3>1
  <2>3. CASE j = m
    <3>1. i \in DOMAIN stream /\ S[i] = stream[i]
        BY <1>8, <2>3
    <3> QED BY <2>1, <2>3, <3>1
  <2>4. CASE i # m /\ j # m
    <3>1. i \in DOMAIN stream /\ S[i] = stream[i] /\ j \in DOMAIN stream /\ S[j] = stream[j]
        BY <1>8, <2>4
    <3> QED BY <3>1 DEF IInv, Queued
  <2> QED BY <2>2, <2>3, <2>4
<1>17. \A i \in DOMAIN S : S[i].name \in {"POST_DELETE", "COMMENT_DELETE"} => S[i].right
  <2>1. a.op.event \in {"POST_DELETE", "COMMENT_DELETE"} => a.right
      BY <1>1, <1>11 DEF Consistent, Sound, Rightful
  <2> QED BY <1>6, <1>7, <1>8, <2>1 DEF IInv, Queued
<1>18. Queued(S, intent', lastId')
    BY <1>1, <1>13, <1>14, <1>15, <1>16, <1>17 DEF Queued
<1>19. ASSUME NEW x \in Request, req'[x] # Idle
       PROVE  Alone(req'[x], S)
  <2>1. CASE x = r
      BY <1>1, <1>19, <2>1, LeavingAlone DEF Alone, a
  <2>2. CASE x # r
    <3>1. req'[x] = req[x] /\ req[x] # Idle /\ Alone(req[x], stream)
        BY <1>1, <1>19, <2>2, LeavingAlone DEF IInv, AllSound, Sound, a
    <3>2. req[x].holds /\ a.holds => NameOfActivity(req[x]) # NameOfActivity(a)
        BY <1>1, <2>2, <3>1 DEF IInv, Unique, a
    <3> QED BY <1>6, <1>7, <1>8, <3>1, <3>2 DEF Alone, NameOfActivity
  <2> QED BY <2>1, <2>2
<1>20. lastId' \in 0 .. MaxEvents
    BY <1>1, <1>4
<1>21. UNCHANGED <<offered, author, admins, lock>> /\ row' \in [User -> RowValue]
    BY <1>1 DEF IInv, TypeOK, database
<1>22. req' \in [Request -> Activity \cup {Idle}]
    BY <1>1, LeavingAlone DEF a
<1>23. \A x \in Request : req'[x] # Idle =>
           /\ req[x] # Idle
           /\ req'[x].pc \in {req[x].pc, "leave"} /\ req'[x].op = req[x].op
           /\ req'[x].who = req[x].who /\ req'[x].holds = req[x].holds
           /\ req'[x].right = req[x].right
    BY <1>1, LeavingAlone DEF a
<1> QED BY <1>2, <1>7, <1>9, <1>18, <1>19, <1>20, <1>21, <1>22, <1>23, QueueIInv

\* The events behind the head, and what is true of them.
LEMMA TailFacts ==
    ASSUME IInv, stream # <<>>
    PROVE  /\ Tail(stream) \in Seq(Event) /\ Head(stream) = stream[1] /\ 1 \in DOMAIN stream
           /\ \A i \in DOMAIN Tail(stream) :
                 i + 1 \in DOMAIN stream /\ Tail(stream)[i] = stream[i + 1] /\ 1 < i + 1
           /\ \A i, j \in DOMAIN Tail(stream) : i < j => i + 1 < j + 1
           /\ \A i, j \in DOMAIN Tail(stream) : i # j => i + 1 # j + 1
<1>1. stream \in Seq(Event) /\ Len(stream) \in Nat /\ DOMAIN stream = 1 .. Len(stream)
    BY StreamFacts DEF IInv, TypeOK
<1>2. Len(stream) # 0
    BY <1>1, EmptySeq
<1>3. /\ Tail(stream) \in Seq(Event) /\ Len(Tail(stream)) = Len(stream) - 1
      /\ \A i \in 1 .. Len(Tail(stream)) : Tail(stream)[i] = stream[i + 1]
      /\ Head(stream) = stream[1]
    BY <1>1, <1>2
<1>4. DOMAIN Tail(stream) = 1 .. Len(stream) - 1
    BY <1>3, LenProperties
<1> QED BY <1>1, <1>2, <1>3, <1>4

\* DeadLetter and Process: the head goes, and an intent only if it is the head's, whose id
\* is below those of the events that follow.
LEMMA TailIInv ==
    ASSUME IInv, stream # <<>>, stream' = Tail(stream), row' \in [User -> RowValue],
           intent' \in [Name -> 0..MaxEvents],
           \A n \in Name : intent'[n] = intent[n] \/ intent[n] = Head(stream).id,
           UNCHANGED <<offered, author, admins, lock, lastId, req>>
    PROVE  IInv'
<1> DEFINE T == Tail(stream)
<1>1. /\ T \in Seq(Event) /\ Head(stream) = stream[1] /\ 1 \in DOMAIN stream
      /\ \A i \in DOMAIN T : i + 1 \in DOMAIN stream /\ T[i] = stream[i + 1] /\ 1 < i + 1
      /\ \A i, j \in DOMAIN T : i < j => i + 1 < j + 1
      /\ \A i, j \in DOMAIN T : i # j => i + 1 # j + 1
    BY TailFacts
<1>2. stream' = T
    OBVIOUS
<1> HIDE DEF T
<1>3. Queued(T, intent', lastId)
  <2>1. \A i \in DOMAIN T : T[i].id <= lastId
      BY <1>1 DEF IInv, Queued
  <2>2. \A i, j \in DOMAIN T : i < j => T[i].id < T[j].id
      BY <1>1 DEF IInv, Queued
  <2>3. ASSUME NEW i \in DOMAIN T, T[i].key \in Strict, ~T[i].loose
        PROVE  T[i].filed = T[i].key /\ T[i].id <= intent'[<<T[i].key, T[i].user>>]
    <3> DEFINE n == <<T[i].key, T[i].user>>
    <3>1. n \in Name
        BY <1>1, StreamFacts DEF IInv, Name
    <3>2. T[i].filed = T[i].key /\ T[i].id <= intent[n]
        BY <1>1, <2>3 DEF IInv, Queued
    <3>3. Head(stream).id < T[i].id /\ T[i].id \in Nat /\ Head(stream).id \in Nat
        BY <1>1, StreamFacts DEF IInv, Queued
    <3> HIDE DEF n
    <3>4. intent[n] # Head(stream).id
        BY <3>2, <3>3
    <3> QED BY <3>1, <3>2, <3>4 DEF n
  <2>4. \A i, j \in DOMAIN T :
            i # j /\ T[i].key = T[j].key /\ T[i].user = T[j].user /\ T[i].key \in Strict
            => T[i].loose \/ T[j].loose
      BY <1>1 DEF IInv, Queued
  <2>5. \A i \in DOMAIN T : T[i].name \in {"POST_DELETE", "COMMENT_DELETE"} => T[i].right
      BY <1>1 DEF IInv, Queued
  <2> QED BY <2>1, <2>2, <2>3, <2>4, <2>5 DEF Queued
<1>4. \A x \in Request : req[x] # Idle => Alone(req[x], T)
  <2> SUFFICES ASSUME NEW x \in Request, req[x] # Idle
               PROVE  Alone(req[x], T)
      OBVIOUS
  <2>1. Alone(req[x], stream)
      BY DEF IInv, AllSound, Sound
  <2> QED BY <1>1, <2>1 DEF Alone
<1>5. lastId \in 0..MaxEvents /\ req \in [Request -> Activity \cup {Idle}]
    BY DEF IInv, TypeOK
<1> QED BY <1>1, <1>2, <1>3, <1>4, <1>5, QueueIInv

\* The database worker.
LEMMA WorkerIInv ==
    ASSUME IInv, Process \/ DeadLetter
    PROVE  IInv'
<1>1. row \in [User -> RowValue] /\ intent \in [Name -> 0..MaxEvents]
    BY DEF IInv, TypeOK
<1>2. CASE Process
  <2>1. /\ stream # <<>> /\ stream' = Tail(stream)
        /\ UNCHANGED <<offered, author, admins, lock, lastId, req>>
      BY <1>2 DEF Process
  <2>2. PICK v \in Rows : row' = [row EXCEPT ![Head(stream).user] = v]
      BY <1>2 DEF Process
  <2>3. v \in RowValue
      BY <2>2 DEF Rows, RowValue
  <2>4. row' \in [User -> RowValue]
      BY <1>1, <2>2, <2>3
  <2>5. PICK n : /\ n = <<Head(stream).filed, Head(stream).user>>
                 /\ intent' = [intent EXCEPT ![n] = IF @ = Head(stream).id THEN 0 ELSE @]
      BY <1>2 DEF Process
  <2>6. \A k \in Name : intent'[k] = IF k = n /\ intent[n] = Head(stream).id THEN 0 ELSE intent[k]
      BY <1>1, <2>5
  <2>7. 0 \in 0..MaxEvents
      BY MaxEventsAssumption
  <2>8. intent' \in [Name -> 0..MaxEvents]
      BY <1>1, <2>5, <2>6, <2>7
  <2> QED BY <2>1, <2>4, <2>6, <2>8, TailIInv
<1>3. CASE DeadLetter
    BY <1>1, <1>3, TailIInv DEF DeadLetter, database
<1> QED BY <1>2, <1>3

\* IntentExpire: the events the intent stood for no longer count.
LEMMA IntentExpireIInv ==
    ASSUME IInv, NEW n \in Name, IntentExpire(n)
    PROVE  IInv'
<1> DEFINE S == [i \in DOMAIN stream |->
                    [stream[i] EXCEPT !.loose = @ \/ <<stream[i].filed, stream[i].user>> = n]]
<1>1. /\ intent' = [intent EXCEPT ![n] = 0] /\ stream' = S
      /\ UNCHANGED <<database, lock, lastId, req>>
    BY DEF IntentExpire
<1>2. ASSUME NEW i \in DOMAIN stream
      PROVE  /\ S[i] \in Event
             /\ S[i].id = stream[i].id /\ S[i].name = stream[i].name /\ S[i].key = stream[i].key
             /\ S[i].filed = stream[i].filed /\ S[i].user = stream[i].user
             /\ S[i].right = stream[i].right
             /\ S[i].loose <=> stream[i].loose \/ <<stream[i].filed, stream[i].user>> = n
  <2>1. PICK b \in BOOLEAN : b = (stream[i].loose \/ <<stream[i].filed, stream[i].user>> = n)
      OBVIOUS
  <2>2. S[i] = [stream[i] EXCEPT !.loose = b] /\ stream[i] \in Event
      BY <2>1, StreamFacts DEF IInv
  <2> HIDE DEF S
  <2>3. /\ S[i] \in Event /\ S[i].loose = b
        /\ S[i].id = stream[i].id /\ S[i].name = stream[i].name /\ S[i].key = stream[i].key
        /\ S[i].filed = stream[i].filed /\ S[i].user = stream[i].user
        /\ S[i].right = stream[i].right
      BY <2>2 DEF Event
  <2> QED BY <2>1, <2>3
<1>3. Len(stream) \in Nat /\ DOMAIN stream = 1 .. Len(stream) /\ DOMAIN S = DOMAIN stream
    BY StreamFacts DEF IInv
<1> HIDE DEF S
<1>4. S \in Seq(Event)
  <2>1. S = [i \in 1 .. Len(stream) |-> S[i]]
      BY <1>3 DEF S
  <2>2. \A i \in 1 .. Len(stream) : S[i] \in Event
      BY <1>2, <1>3
  <2> QED BY <1>3, <2>1, <2>2, IsASeq
<1>5. intent \in [Name -> 0..MaxEvents] /\ 0 \in 0..MaxEvents
    BY MaxEventsAssumption DEF IInv, TypeOK
<1>6. intent' \in [Name -> 0..MaxEvents] /\ \A k \in Name : k # n => intent'[k] = intent[k]
    BY <1>1, <1>5
<1>7. Queued(S, intent', lastId)
  <2>1. \A i \in DOMAIN S : S[i].id <= lastId
      BY <1>2, <1>3 DEF IInv, Queued
  <2>2. \A i, j \in DOMAIN S : i < j => S[i].id < S[j].id
      BY <1>2, <1>3 DEF IInv, Queued
  <2>3. ASSUME NEW i \in DOMAIN S, S[i].key \in Strict, ~S[i].loose
        PROVE  S[i].filed = S[i].key /\ S[i].id <= intent'[<<S[i].key, S[i].user>>]
    <3>1. i \in DOMAIN stream /\ stream[i].key \in Strict /\ ~stream[i].loose
        BY <1>2, <1>3, <2>3
    <3>2. /\ stream[i].filed = stream[i].key
          /\ stream[i].id <= intent[<<stream[i].key, stream[i].user>>]
        BY <3>1 DEF IInv, Queued
    <3>3. <<stream[i].key, stream[i].user>> \in Name /\ <<stream[i].key, stream[i].user>> # n
        BY <1>2, <2>3, <3>1, <3>2, StreamFacts DEF IInv, Name
    <3> QED BY <1>2, <1>6, <3>1, <3>2, <3>3
  <2>4. \A i, j \in DOMAIN S :
            i # j /\ S[i].key = S[j].key /\ S[i].user = S[j].user /\ S[i].key \in Strict
            => S[i].loose \/ S[j].loose
      BY <1>2, <1>3 DEF IInv, Queued
  <2>5. \A i \in DOMAIN S : S[i].name \in {"POST_DELETE", "COMMENT_DELETE"} => S[i].right
      BY <1>2, <1>3 DEF IInv, Queued
  <2> QED BY <2>1, <2>2, <2>3, <2>4, <2>5 DEF Queued
<1>8. \A x \in Request : req[x] # Idle => Alone(req[x], S)
    BY <1>2, <1>3 DEF IInv, AllSound, Sound, Alone
<1>9. /\ lastId \in 0..MaxEvents /\ req \in [Request -> Activity \cup {Idle}]
      /\ row \in [User -> RowValue]
    BY DEF IInv, TypeOK
<1> QED BY <1>1, <1>4, <1>6, <1>7, <1>8, <1>9, QueueIInv DEF database

(***************************************************************************)
(* The roles                                                               *)
(***************************************************************************)

\* RoleChange: who gains a role gains the right in the requests it is making.
LEMMA RoleIInv ==
    ASSUME IInv, NEW u \in User, RoleChange(u)
    PROVE  IInv'
<1>1. /\ admins' \subseteq User
      /\ \A w \in admins' : w = u \/ w \in admins
      /\ UNCHANGED <<offered, author, row, redis>>
    BY DEF RoleChange, IInv, TypeOK
<1>2. ASSUME NEW x \in Request
      PROVE  /\ req'[x] \in Activity \cup {Idle}
             /\ req'[x] # Idle =>
                   /\ req[x] # Idle
                   /\ req'[x].pc = req[x].pc /\ req'[x].op = req[x].op /\ req'[x].who = req[x].who
                   /\ req'[x].holds = req[x].holds
                   /\ req[x].right => req'[x].right
                   /\ u \in admins' /\ req'[x].who = u => req'[x].right
  <2>1. req[x] \in Activity \cup {Idle}
      BY DEF IInv, TypeOK
  <2>2. CASE x \in Active /\ req[x].who = u /\ u \in admins'
    <3>1. req'[x] = [req[x] EXCEPT !.right = TRUE] /\ req[x] # Idle
        BY <2>2 DEF RoleChange, Active
    <3>2. PICK q : q = req'[x]
        OBVIOUS
    <3>3. q = [req[x] EXCEPT !.right = TRUE] /\ req[x] \in Activity
        BY <2>1, <3>1, <3>2
    <3>4. /\ q \in Activity /\ q.right = TRUE /\ q.pc = req[x].pc /\ q.op = req[x].op
          /\ q.who = req[x].who /\ q.holds = req[x].holds
        BY <3>3 DEF Activity
    <3> QED BY <3>1, <3>2, <3>4
  <2>3. CASE ~(x \in Active /\ req[x].who = u /\ u \in admins')
    <3>1. req'[x] = req[x]
        BY <2>3 DEF RoleChange
    <3> QED BY <2>1, <2>3, <3>1 DEF Active
  <2> QED BY <2>2, <2>3
<1>3. req' \in [Request -> Activity \cup {Idle}]
  <2>1. DOMAIN req' = Request /\ req' = [x \in Request |-> req'[x]]
      BY DEF RoleChange
  <2> QED BY <1>2, <2>1
<1>4. ASSUME NEW x \in Request, req'[x] # Idle
      PROVE  Sound(req'[x], lock, author \cup admins', stream)
  <2>1. Sound(req[x], lock, author \cup admins, stream)
      BY <1>2, <1>4 DEF IInv, AllSound
  <2>2. Rightful(req'[x], author \cup admins')
      BY <1>1, <1>2, <1>4, <2>1 DEF Sound, Rightful
  <2>3. Typed(req'[x]) /\ Holding(req'[x], lock) /\ Alone(req'[x], stream)
      BY <1>2, <1>4, <2>1 DEF Sound, Typed, Holding, Alone, NameOfActivity
  <2> QED BY <2>2, <2>3 DEF Sound
<1>5. PICK E : E = author \cup admins'
    OBVIOUS
<1>6. AllSound'
    BY <1>1, <1>4, <1>5 DEF AllSound, Sound, Typed, redis
<1>7. Unique'
    BY <1>2 DEF IInv, Unique, NameOfActivity
<1>8. \A x \in Request : req'[x] # Idle => Typed(req'[x])
    BY <1>4 DEF Sound
<1>9. TypeOK'
    BY <1>1, <1>3, <1>8 DEF IInv, TypeOK, Typed, redis
<1>10. Queued(stream, intent, lastId)'
    BY <1>1 DEF IInv, redis
<1> QED BY <1>6, <1>7, <1>9, <1>10 DEF IInv

(***************************************************************************)
(* The invariant                                                           *)
(***************************************************************************)

\* Nothing is under way, locked, intended or queued at first.
LEMMA InitIInv ==
    ASSUME Init
    PROVE  IInv
<1>1. /\ req = [r \in Request |-> Idle] /\ stream = <<>> /\ lastId = 0 /\ lock = {}
      /\ intent = [n \in Name |-> 0] /\ 0 \in 0..MaxEvents
    BY MaxEventsAssumption DEF Init
<1>2. stream \in Seq(Event) /\ DOMAIN stream = {}
    BY <1>1
<1>3. Rows \subseteq RowValue
    BY DEF Rows, RowValue
<1>4. offered \in Family /\ author \subseteq User /\ admins \subseteq User /\ row \in [User -> RowValue]
    BY <1>3 DEF Init
<1>5. TypeOK
    BY <1>1, <1>2, <1>4 DEF TypeOK
<1>6. AllSound /\ Unique
    BY <1>1 DEF AllSound, Unique
<1>7. Queued(stream, intent, lastId)
    BY <1>2 DEF Queued
<1> QED BY <1>5, <1>6, <1>7 DEF IInv

LEMMA NextIInv ==
    ASSUME IInv, [Next]_vars
    PROVE  IInv'
<1>1. ASSUME NEW r \in Request,
             \/ \E h \in offered, u \in User : Begin(r, h, u)
             \/ Authorise(r) \/ CheckRow(r) \/ Fail(r) \/ Die(r)
      PROVE  IInv'
    BY <1>1, HandlerIInv
<1>2. ASSUME NEW r \in Request, Guard(r) \/ Mark(r) \/ Emit(r) \/ Leave(r)
      PROVE  IInv'
    BY <1>2, GuardIInv, MarkIInv, EmitIInv, LeaveIInv
<1>3. ASSUME NEW n \in Name, LockExpire(n) \/ IntentExpire(n)
      PROVE  IInv'
    BY <1>3, LeaveIInv, IntentExpireIInv
<1>4. CASE Process \/ DeadLetter
    BY <1>4, WorkerIInv
<1>5. ASSUME NEW u \in User, RoleChange(u)
      PROVE  IInv'
    BY <1>5, RoleIInv
<1>6. CASE UNCHANGED vars
    BY <1>6 DEF vars, IInv, TypeOK, AllSound, Sound, Typed, Unique, Queued, Active
<1> QED BY <1>1, <1>2, <1>3, <1>4, <1>5, <1>6 DEF Next

\* What the lock, the intents and the queued events say of each other, in every state.
THEOREM Invariant == Spec => []IInv
<1>1. Init => IInv
    BY InitIInv
<1>2. IInv /\ [Next]_vars => IInv'
    BY NextIInv
<1> QED BY <1>1, <1>2, PTL DEF Spec

(***************************************************************************)
(* The properties                                                          *)
(***************************************************************************)

\* The state of the handlers, Redis and the database worker is what their code makes of it.
THEOREM GuardedTypes == Spec => []TypeOK
<1>1. IInv => TypeOK
    BY DEF IInv
<1> QED BY <1>1, Invariant, PTL

\* A set whose members are all equal.
LEMMA AtMostOne ==
    ASSUME NEW S, \A x, y \in S : x = y
    PROVE  Cardinality(S) <= 1
<1>1. CASE S = {}
  <2>1. Cardinality(S) = 0
      BY <1>1, FS_EmptySet
  <2> QED BY <2>1
<1>2. ASSUME NEW x \in S
      PROVE  Cardinality(S) <= 1
  <2>1. S = {x}
      BY <1>2
  <2>2. Cardinality(S) = 1
      BY <2>1, FS_Singleton
  <2> QED BY <2>2
<1> QED BY <1>1, <1>2

\* guard_action: of the requests it has let in for one action of a user, at most one still
\* has the lock it has set.
THEOREM AlwaysOneHolder == Spec => []OneHolder
<1>1. ASSUME IInv
      PROVE  OneHolder
  <2> SUFFICES ASSUME NEW n \in Name
               PROVE  Cardinality({r \in Bodies(n) : req[r].holds}) <= 1
      BY DEF OneHolder
  <2> DEFINE H == {r \in Bodies(n) : req[r].holds}
  <2>1. \A r, s \in H : r = s
      BY <1>1 DEF IInv, Unique, Bodies, Active, NameOf, NameOfActivity
  <2> HIDE DEF H
  <2>2. Cardinality(H) <= 1
      BY <2>1, AtMostOne
  <2> QED BY <2>2 DEF H
<1> QED BY <1>1, Invariant, PTL

\* emit_user_event and guard_action: while an event waits for the database worker, its
\* intent keeps its user from emitting another for the same action.
THEOREM AlwaysOneEventPending == Spec => []OneEventPending
<1>1. ASSUME IInv
      PROVE  OneEventPending
  <2> SUFFICES ASSUME NEW u \in User, NEW k \in Strict
               PROVE  Cardinality({i \in DOMAIN stream : stream[i].user = u /\ stream[i].key = k
                                                         /\ ~stream[i].loose}) <= 1
      BY DEF OneEventPending
  <2> DEFINE P == {i \in DOMAIN stream : stream[i].user = u /\ stream[i].key = k /\ ~stream[i].loose}
  <2>1. \A i, j \in P : i = j
      BY <1>1 DEF IInv, Queued
  <2> HIDE DEF P
  <2>2. Cardinality(P) <= 1
      BY <2>1, AtMostOne
  <2> QED BY <2>2 DEF P
<1> QED BY <1>1, Invariant, PTL

\* delete_post and delete_comment: an event that deletes was emitted for the author or for
\* somebody who had a role in the forum during the request.
THEOREM AlwaysDeletionsAuthorised == Spec => []DeletionAuthorised
<1>1. IInv => DeletionAuthorised
    BY DEF IInv, Queued, DeletionAuthorised
<1> QED BY <1>1, Invariant, PTL
=============================================================================
