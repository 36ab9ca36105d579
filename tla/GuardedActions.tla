--------------------------- MODULE GuardedActions ---------------------------
(***************************************************************************)
(* The handlers of the resource server that turn a user's action on a      *)
(* resource (vote, save, report, subscribe, create, delete) into an event, *)
(* and CacheManager.guard_action, which is to let each action through      *)
(* once.  A handler looks the resource up, takes the action lock and reads *)
(* the intent in one MULTI, checks the database, and emits counters,       *)
(* intent and event in another MULTI.  A database worker applies the event *)
(* later and clears the intent, which expires after a while by itself.     *)
(*                                                                         *)
(* Each handler is a record of what distinguishes it; the steps all of     *)
(* them take are the actions.  The lookups go through CacheLoad's          *)
(* distributed_get_or_load: here they return a result, None or raise.      *)
(***************************************************************************)
EXTENDS Naturals, Sequences, FiniteSets

CONSTANTS
    Request,      \* requests in progress, in any worker process
    User,
    Idle,         \* a request slot in which nothing runs
    MaxEvents     \* bound: events emitted, and markers set, in a behaviour

ASSUME RequestAssumption == IsFiniteSet(Request) /\ Idle \notin Request
ASSUME UserAssumption == IsFiniteSet(User)
ASSUME MaxEventsAssumption == MaxEvents \in Nat \ {0}

(***************************************************************************)
(* The handlers.  key: the table and action that name the lock and the     *)
(* intent guard_action uses; auth: where the right to act is tested;       *)
(* refuse: the rows on which it answers 409; other: the row it tests is    *)
(* not that of the resource; mark: the intent that 409 leaves behind;      *)
(* intent, event: what it emits.                                           *)
(***************************************************************************)

NoKey == <<"", "">>
NoRow == "none"

vote_post(up) ==
    [key |-> <<"posts", "VOTE">>, auth |-> "no", refuse |-> IF up THEN {"up"} ELSE {"down"},
     other |-> FALSE, mark |-> <<"post_votes", "VOTE">>, intent |-> <<"posts", "VOTE">>,
     event |-> "POST_VOTE"]

unvote_post ==
    [key |-> <<"posts", "VOTE">>, auth |-> "no", refuse |-> {NoRow}, other |-> FALSE,
     mark |-> <<"post_votes", "VOTE">>, intent |-> <<"posts", "VOTE">>, event |-> "POST_UNVOTE"]

\* Mutant of save_post: the event is emitted with the intent of another action.
save_post_mislabelled ==
    [key |-> <<"posts", "SAVE">>, auth |-> "no", refuse |-> {"row"}, other |-> FALSE,
     mark |-> <<"posts", "SAVE">>, intent |-> <<"posts", "CREATE">>, event |-> "POST_SAVE"]

save_post ==
    [key |-> <<"posts", "SAVE">>, auth |-> "no", refuse |-> {"row"}, other |-> FALSE,
     mark |-> <<"posts", "SAVE">>, intent |-> <<"posts", "SAVE">>, event |-> "POST_SAVE"]

unsave_post ==
    [key |-> <<"posts", "SAVE">>, auth |-> "no", refuse |-> {NoRow}, other |-> FALSE,
     mark |-> <<"posts", "SAVE">>, intent |-> <<"posts", "SAVE">>, event |-> "POST_UNSAVE"]

\* With a client tag; without one the lock has a name of its own and never conflicts.
create_post ==
    [key |-> <<"posts", "CREATE">>, auth |-> "no", refuse |-> {}, other |-> FALSE,
     mark |-> NoKey, intent |-> NoKey, event |-> "POST_CREATE"]

\* The intent is filed under the forums table: the guard never finds it.
delete_post ==
    [key |-> <<"posts", "DELETE">>, auth |-> "inside", refuse |-> {}, other |-> FALSE,
     mark |-> NoKey, intent |-> <<"forums", "DELETE">>, event |-> "POST_DELETE"]

\* The comment's vote is looked up under the id of the post.
vote_comment(up) ==
    [key |-> <<"comments", "VOTE">>, auth |-> "no", refuse |-> IF up THEN {"up"} ELSE {"down"},
     other |-> TRUE, mark |-> <<"comment_votes", "VOTE">>, intent |-> <<"comments", "VOTE">>,
     event |-> "COMMENT_VOTE"]

\* `not existing_vote` refuses a downvote too; the intent is filed under UNVOTE.
unvote_comment ==
    [key |-> <<"comments", "VOTE">>, auth |-> "no", refuse |-> {NoRow, "down"}, other |-> TRUE,
     mark |-> <<"comment_votes", "VOTE">>, intent |-> <<"comments", "UNVOTE">>,
     event |-> "COMMENT_UNVOTE"]

\* The table name in key carries the report tag; a report is emitted as POST_UNSAVE.
report_comment ==
    [key |-> <<"comments", "REPORT">>, auth |-> "no", refuse |-> {"row"}, other |-> FALSE,
     mark |-> <<"comments", "REPORT">>, intent |-> <<"comments", "REPORT">>,
     event |-> "POST_UNSAVE"]

delete_comment ==
    [key |-> <<"comments", "DELETE">>, auth |-> "before", refuse |-> {}, other |-> FALSE,
     mark |-> NoKey, intent |-> <<"comments", "DELETE">>, event |-> "COMMENT_DELETE"]

subscribe_forum ==
    [key |-> <<"forums", "SUB">>, auth |-> "no", refuse |-> {"row"}, other |-> FALSE,
     mark |-> <<"forums", "SUB">>, intent |-> <<"forums", "SUB">>, event |-> "FORUM_SUB"]

\* Guarded by SUB, but its intent is filed under UNSUB.
unsubscribe_forum ==
    [key |-> <<"forums", "SUB">>, auth |-> "no", refuse |-> {NoRow}, other |-> FALSE,
     mark |-> <<"forums", "UNSUB">>, intent |-> <<"forums", "UNSUB">>, event |-> "FORUM_UNSUB"]

\* The Event is built without its side effects, which have no default: it raises.
delete_forum ==
    [key |-> <<"forums", "DELETE">>, auth |-> "before", refuse |-> {}, other |-> FALSE,
     mark |-> NoKey, intent |-> NoKey, event |-> "invalid"]

sub_anime ==
    [key |-> <<"animes", "SUB">>, auth |-> "no", refuse |-> {"row"}, other |-> FALSE,
     mark |-> <<"anime_subscriptions", "SUB">>, intent |-> <<"animes", "SUB">>,
     event |-> "ANIME_SUB"]

\* The test is inverted: 409 for who is subscribed.
unsub_anime ==
    [key |-> <<"animes", "SUB">>, auth |-> "no", refuse |-> {"row"}, other |-> FALSE,
     mark |-> <<"anime_subscriptions", "UNSUB">>, intent |-> <<"animes", "SUB">>,
     event |-> "ANIME_UNSUB"]

\* The handlers that ask fetch_indicators instead, which splits an intent that is
\* None, or bytes by a str: it always raises, before they have changed anything.
unguarded == [key |-> NoKey, auth |-> "no", refuse |-> {}, other |-> FALSE,
              mark |-> NoKey, intent |-> NoKey, event |-> "invalid"]
comment_on_post == unguarded
report_post == unguarded
delete_user == unguarded

\* The handlers that share a lock, an intent or a table.  Handlers of two families
\* do not interact, so a behaviour is about one family.
Family == { {vote_post(TRUE), vote_post(FALSE), unvote_post}, {save_post, unsave_post},
            {create_post}, {delete_post, delete_forum}, {report_comment}, {delete_comment},
            {vote_comment(TRUE), vote_comment(FALSE), unvote_comment},
            {subscribe_forum, unsubscribe_forum}, {sub_anime, unsub_anime},
            {comment_on_post, report_post, delete_user} }
Handler == UNION Family
Key == {h.key : h \in Handler} \cup {h.mark : h \in Handler} \cup {h.intent : h \in Handler}
RowValue == {NoRow, "row", "up", "down"}

VARIABLES
    offered,    \* the family of handlers this behaviour is about
    author,     \* the users whose post or comment the resource is
    admins,     \* admins of the forum it is in (or its owner, for delete_forum)
    row,        \* each user's row in the table the family's events change
    lock,       \* the action locks in Redis
    intent,     \* Redis: the id in each intent, 0 if there is none
    stream,     \* the events the database worker has not processed
    lastId,     \* the newest intent id
    req         \* what each request is doing

vars == <<offered, author, admins, row, lock, intent, stream, lastId, req>>
redis == <<lock, intent, stream, lastId>>
database == <<offered, author, admins, row>>

\* What has the name of a lock and an intent: an action of a user.
Name == Key \X User

\* loose: the event was emitted by a request that had lost its lock, or its intent has
\* expired since; right: its request had the right to act (both are histories).
Event == [id : 1..MaxEvents, name : {h.event : h \in Handler}, key : Key, filed : Key, user : User,
          loose : BOOLEAN, right : BOOLEAN]

\* holds: the action lock is still the one the request has set; right: its user had the
\* right to act at some time since it began (both are histories).
Activity == [pc : {"authorise", "guard", "check", "mark", "emit", "leave"}, op : Handler,
             who : User, holds : BOOLEAN, right : BOOLEAN]

TypeOK ==
    /\ offered \in Family /\ author \subseteq User /\ admins \subseteq User
    /\ row \in [User -> RowValue]
    /\ lock \subseteq Name
    /\ intent \in [Name -> 0..MaxEvents]
    /\ stream \in Seq(Event) /\ lastId \in 0..MaxEvents
    /\ req \in [Request -> Activity \cup {Idle}]
    /\ \A r \in Request : req[r] # Idle =>
          /\ req[r].op \in offered
          /\ req[r].pc = "authorise" => req[r].op.auth # "no"
          /\ req[r].pc \in {"check", "mark"} => req[r].op.refuse # {}

Active == {r \in Request : req[r] # Idle}
NameOf(r) == <<req[r].op.key, req[r].who>>
At(r, pc) == r \in Active /\ req[r].pc = pc
Goto(r, pc) == req' = [req EXCEPT ![r].pc = pc]
End(r) == req' = [req EXCEPT ![r] = Idle]
Entitled(u) == u \in author \cup admins

\* Whether the family asks for a right, and the values a row of its table can have.
Restricted == \E h \in offered : h.auth # "no"
Rows == IF \E h \in offered : {"up", "down"} \cap h.refuse # {} THEN {NoRow, "up", "down"}
        ELSE IF \E h \in offered : h.refuse # {} THEN {NoRow, "row"} ELSE {NoRow}

Init ==
    /\ offered \in Family
    /\ author \in SUBSET (IF Restricted THEN User ELSE {})
    /\ admins \in SUBSET (IF Restricted THEN User ELSE {})
    /\ row \in [User -> Rows]
    /\ lock = {} /\ intent = [n \in Name |-> 0]
    /\ stream = <<>> /\ lastId = 0
    /\ req = [r \in Request |-> Idle]

(***************************************************************************)
(* guard_action                                                            *)
(***************************************************************************)

\* Mutant of Inside: a handler without a table of its own asks for a row all the same.
InsideAlwaysChecks(h) == IF h.auth = "inside" THEN "authorise" ELSE "check"

\* Where a handler goes once the guard has let it in.
Inside(h) == IF h.auth = "inside" THEN "authorise" ELSE IF h.refuse = {} THEN "emit" ELSE "check"

\* Mutant of Guard: SET without NX.
GuardWithoutNX(r) ==
    /\ At(r, "guard")
    /\ lock' = lock \cup {NameOf(r)}
    /\ req' = [req EXCEPT ![r].holds = TRUE,
                          ![r].pc = IF intent[NameOf(r)] = 0 THEN Inside(req[r].op) ELSE "leave"]
    /\ UNCHANGED <<database, intent, stream, lastId>>

\* SET NX PX and GET in one MULTI.  No lock: DuplicateRequestException.  An intent: the
\* client returns bytes, and splitting them by a str raises.  Both pass through finally.
Guard(r) ==
    /\ At(r, "guard")
    /\ \/ /\ NameOf(r) \in lock
          /\ Goto(r, "leave")
          /\ UNCHANGED lock
       \/ /\ NameOf(r) \notin lock
          /\ lock' = lock \cup {NameOf(r)}
          /\ req' = [req EXCEPT ![r].holds = TRUE,
                                ![r].pc = IF intent[NameOf(r)] = 0 THEN Inside(req[r].op) ELSE "leave"]
    /\ UNCHANGED <<database, intent, stream, lastId>>

\* The requests when the lock called n is gone: nobody holds it any more.
Dispossessed(n) ==
    [r \in Request |-> IF r \in Active /\ NameOf(r) = n THEN [req[r] EXCEPT !.holds = FALSE] ELSE req[r]]

\* The finally clause deletes the lock, whoever has set it.  Also the way out after an
\* event was emitted: the code behind `yield None` splits None and raises, so that the
\* client is told 500 for what has been done.
Leave(r) ==
    /\ At(r, "leave")
    /\ lock' = lock \ {NameOf(r)}
    /\ req' = [Dispossessed(NameOf(r)) EXCEPT ![r] = Idle]
    /\ UNCHANGED <<database, intent, stream, lastId>>

LockExpire(n) ==
    /\ n \in lock
    /\ lock' = lock \ {n}
    /\ req' = Dispossessed(n)
    /\ UNCHANGED <<database, intent, stream, lastId>>

\* Every intent has a time to live.
IntentExpire(n) ==
    /\ intent[n] # 0
    /\ intent' = [intent EXCEPT ![n] = 0]
    /\ stream' = [i \in DOMAIN stream |->
                    [stream[i] EXCEPT !.loose = @ \/ <<stream[i].filed, stream[i].user>> = n]]
    /\ UNCHANGED <<database, lock, lastId, req>>

(***************************************************************************)
(* The steps of a handler                                                  *)
(***************************************************************************)

\* The resource is looked up; if there is none (404) or the lookup raises, or for a
\* handler that asks fetch_indicators, the request ends and nothing has changed.
Begin(r, h, u) ==
    /\ req[r] = Idle
    /\ \/ /\ h.key # NoKey
          /\ req' = [req EXCEPT ![r] = [pc |-> IF h.auth = "before" THEN "authorise" ELSE "guard",
                                        op |-> h, who |-> u, holds |-> FALSE, right |-> Entitled(u)]]
       \/ UNCHANGED req
    /\ UNCHANGED <<database, redis>>

\* Mutant of Authorise: the caller's role in the forum is not looked up.
AuthoriseAnybody(r) ==
    /\ At(r, "authorise")
    /\ Goto(r, IF req[r].op.auth = "before" THEN "guard" ELSE "emit")
    /\ UNCHANGED <<database, redis>>

\* The author passes, others need a role in the forum; check_permission lets each of
\* the three roles delete posts and comments.  A role that is in the cache cannot be
\* rebuilt from it (ForumAdminResult asks for str keys, the client returns bytes) and
\* raises: an answer is always the database's.
Authorise(r) ==
    /\ At(r, "authorise")
    /\ \/ /\ Entitled(req[r].who)
          /\ Goto(r, IF req[r].op.auth = "before" THEN "guard" ELSE "emit")
       \/ /\ ~Entitled(req[r].who)      \* 403
          /\ IF req[r].op.auth = "before" THEN End(r) ELSE Goto(r, "leave")
    /\ UNCHANGED <<database, redis>>

\* The repository's get_vote, check_saved, check_reported or check_subscription.
CheckRow(r) ==
    /\ At(r, "check")
    /\ \E v \in IF req[r].op.other THEN Rows ELSE {row[req[r].who]} :
          Goto(r, IF v \in req[r].op.refuse THEN "mark" ELSE "emit")
    /\ UNCHANGED <<database, redis>>

\* set_intent before the 409.
Mark(r) ==
    /\ At(r, "mark") /\ lastId < MaxEvents
    /\ lastId' = lastId + 1
    /\ intent' = [intent EXCEPT ![<<req[r].op.mark, req[r].who>>] = lastId + 1]
    /\ Goto(r, "leave")
    /\ UNCHANGED <<database, lock, stream>>

\* emit_user_event: counters, intent and event in one MULTI.
Emit(r) ==
    /\ At(r, "emit") /\ req[r].op.event # "invalid" /\ lastId < MaxEvents
    /\ lastId' = lastId + 1
    /\ LET a == req[r]
       IN  /\ intent' = IF a.op.intent = NoKey THEN intent
                        ELSE [intent EXCEPT ![<<a.op.intent, a.who>>] = lastId + 1]
           /\ stream' = Append(stream, [id |-> lastId + 1, name |-> a.op.event, key |-> a.op.key,
                                        filed |-> a.op.intent, user |-> a.who,
                                        loose |-> ~a.holds, right |-> a.right])
    /\ Goto(r, "leave")
    /\ UNCHANGED <<database, lock>>

\* Anything raises: a lookup of an admin or a forum owner, the database, Redis, the
\* construction or serialisation of the event.
Fail(r) ==
    /\ r \in Active /\ req[r].pc # "leave"
    /\ IF req[r].pc = "guard" \/ (req[r].pc = "authorise" /\ req[r].op.auth = "before")
       THEN End(r) ELSE Goto(r, "leave")
    /\ UNCHANGED <<database, redis>>

\* The worker process dies; its lock stays until it expires.
Die(r) ==
    /\ r \in Active
    /\ End(r)
    /\ UNCHANGED <<database, redis>>

(***************************************************************************)
(* The database worker and the database                                    *)
(***************************************************************************)

\* Mutant of Process: the intent is deleted without comparing its value.
ProcessUnconditional ==
    /\ stream # <<>>
    /\ \E v \in Rows : row' = [row EXCEPT ![Head(stream).user] = v]
    /\ intent' = [intent EXCEPT ![<<Head(stream).filed, Head(stream).user>>] = 0]
    /\ stream' = Tail(stream)
    /\ UNCHANGED <<offered, author, admins, lock, lastId, req>>

\* An event has been applied (what the row is then is not assumed) and its intent is
\* cleared by the script that compares it with the value the event was emitted with.
Process ==
    /\ stream # <<>>
    /\ \E v \in Rows : row' = [row EXCEPT ![Head(stream).user] = v]
    /\ intent' = [intent EXCEPT ![<<Head(stream).filed, Head(stream).user>>] =
                                    IF @ = Head(stream).id THEN 0 ELSE @]
    /\ stream' = Tail(stream)
    /\ UNCHANGED <<offered, author, admins, lock, lastId, req>>

\* A dead-lettered event has no effect and its intent stays.
DeadLetter ==
    /\ stream # <<>>
    /\ stream' = Tail(stream)
    /\ UNCHANGED <<database, lock, intent, lastId, req>>

\* Admins come and go.
RoleChange(u) ==
    /\ Restricted
    /\ admins' = IF u \in admins THEN admins \ {u} ELSE admins \cup {u}
    /\ req' = [r \in Request |-> IF r \in Active /\ req[r].who = u /\ u \in admins'
                                 THEN [req[r] EXCEPT !.right = TRUE] ELSE req[r]]
    /\ UNCHANGED <<offered, author, row, redis>>

Next ==
    \/ \E r \in Request :
          \/ \E h \in offered, u \in User : Begin(r, h, u)
          \/ Authorise(r) \/ Guard(r) \/ CheckRow(r) \/ Mark(r) \/ Emit(r)
          \/ Fail(r) \/ Leave(r) \/ Die(r)
    \/ \E n \in Name : LockExpire(n) \/ IntentExpire(n)
    \/ Process \/ DeadLetter
    \/ \E u \in User : RoleChange(u)

Spec == Init /\ [][Next]_vars

(***************************************************************************)
(* Properties                                                              *)
(***************************************************************************)

\* The requests the guard has let in under the name n.
Bodies(n) == {r \in Active : NameOf(r) = n /\ req[r].pc \in {"check", "mark", "emit"}}

\* guard_action is to let one request of a user through at a time.  A loser deletes the
\* winner's lock in its finally clause, and a lock may expire under a slow request; but
\* that is the only way in: of the requests at work under one name, at most one still
\* has the lock it has set.
OneHolder == \A n \in Name : Cardinality({r \in Bodies(n) : req[r].holds}) <= 1

\* The actions whose intent is the one their guard reads.
Strict == {<<"posts", "VOTE">>, <<"posts", "SAVE">>, <<"animes", "SUB">>,
           <<"comments", "REPORT">>, <<"comments", "DELETE">>}

\* While an event waits for the database worker, its intent keeps the user from emitting
\* another for the same action, so that a counter is not moved twice for one row.
\* Exceptions: an event emitted by a request that had lost its lock, and an event whose
\* intent expired before the worker came to it.
OneEventPending ==
    \A u \in User, k \in Strict :
        Cardinality({i \in DOMAIN stream : stream[i].user = u /\ stream[i].key = k
                                           /\ ~stream[i].loose}) <= 1

\* A post or comment is queued for deletion only for its author or for somebody who was
\* an admin of its forum at some time during the request, however roles change meanwhile.
DeletionAuthorised ==
    \A i \in DOMAIN stream : stream[i].name \in {"POST_DELETE", "COMMENT_DELETE"} => stream[i].right
=============================================================================
