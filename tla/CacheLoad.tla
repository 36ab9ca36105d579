------------------------------ MODULE CacheLoad ------------------------------
(***************************************************************************)
(* CacheManager.distributed_get_or_load of the resource server: requests   *)
(* for one resource read it through Redis.  On a miss they elect a leader  *)
(* with SET NX PX; the leader reads the database, caches what it found (or *)
(* a negative entry) and deletes the lock; the others poll the lock, look  *)
(* at the cache once it is gone, and try again a bounded number of times.  *)
(*                                                                         *)
(* The Redis client has no decode_responses, so what HGETALL returns has   *)
(* bytes for keys.  NF_SENTINEL_KEY, a str, is never in it (and in the     *)
(* polling branch it is looked for in the tuple (entry, ttl)): no reader   *)
(* recognises a negative entry, and no field name of a cached row matches. *)
(***************************************************************************)
EXTENDS Naturals, FiniteSets

CONSTANTS
    Request,              \* requests for the resource, in any worker process
    Value,                \* contents the row of the resource may have
    NoRow,                \* there is no such row
    NoRequest,            \* the load lock is free
    FETCH_MAX_RETRIES,
    FETCH_WAITING_MAX_INTERVALS,
    MaxLapses             \* bound: expiries of the lock of a leader at work

Outcome == {"none", "hollow", "error", "incoherent"}

ASSUME RequestAssumption == IsFiniteSet(Request) /\ NoRequest \notin Request
ASSUME ValueAssumption == NoRow \notin Value /\ (Value \cup {NoRow}) \cap Outcome = {}
ASSUME LimitAssumption == /\ FETCH_MAX_RETRIES \in Nat
                          /\ FETCH_WAITING_MAX_INTERVALS \in Nat \ {0}
                          /\ MaxLapses \in Nat

Row == Value \cup {NoRow}

\* The result classes distributed_get_or_load is called with.
Dto == {"User", "Forum", "Comment", "Post", "Anime", "ForumAdmin"}

\* The classes whose rows a leader can cache.  The others raise first: those that
\* call super() in a slotted dataclass, and those with a field like id_, which
\* construct_from_orm strips to id and leaves unset, so that cache_repr fails.
Storable == {"ForumAdmin"}

\* The classes with the inherited construct_from_cache, which skips every unknown
\* field and returns an object with none of its attributes set.
Lenient == {"User", "Forum", "Comment"}

VARIABLES
    dto,        \* class of the resource
    row,        \* the row in the database
    cache,      \* the Redis hash: the NF sentinel field, and the fields of a row
    lock,       \* holder of the load lock in Redis
    lapses,     \* how often the lock of a leader at work has expired
    pc,         \* where each request is
    attempt,    \* leader_attempt of each request
    interval,   \* i, the polls of the lock in this attempt
    loaded,     \* what a leader has read
    result,     \* the cache entry a request has answered from
    answer,     \* a row, NoRow (the caller's 404), or an outcome
    truth       \* history: every row there was since the request began

vars == <<dto, row, cache, lock, lapses, pc, attempt, interval, loaded, result, answer, truth>>
local == <<pc, attempt, interval, loaded, result, answer, truth>>

NoEntry == [nf |-> FALSE, val |-> NoRow]
Entry == [nf : BOOLEAN, val : Row]

TypeOK ==
    /\ dto \in Dto /\ row \in Row /\ cache \in Entry
    /\ lock \in Request \cup {NoRequest} /\ lapses \in Nat
    /\ pc \in [Request -> {"idle", "elect", "wait", "follow", "load", "store", "unlock", "done"}]
    /\ attempt \in [Request -> 0..FETCH_MAX_RETRIES]
    /\ interval \in [Request -> 0..FETCH_WAITING_MAX_INTERVALS]
    /\ loaded \in [Request -> Row]
    /\ result \in [Request -> Entry]
    /\ answer \in [Request -> Row \cup Outcome]
    /\ truth \in [Request -> SUBSET Row]

Init ==
    /\ dto \in Dto /\ row \in Row
    /\ cache = NoEntry /\ lock = NoRequest /\ lapses = 0
    /\ pc = [r \in Request |-> "idle"]
    /\ attempt = [r \in Request |-> 0]
    /\ interval = [r \in Request |-> 0]
    /\ loaded = [r \in Request |-> NoRow]
    /\ result = [r \in Request |-> NoEntry]
    /\ answer = [r \in Request |-> "none"]
    /\ truth = [r \in Request |-> {}]

\* Requests between the SET that made them leader and the DELETE of the lock.
Leaders == {r \in Request : pc[r] \in {"load", "store", "unlock"}}

(***************************************************************************)
(* Reading the cache                                                       *)
(***************************************************************************)

\* construct_from_cache on an entry with bytes for keys.
Rebuilt == IF dto \in Lenient THEN "hollow" ELSE "error"

\* A request answers from the entry in the cache.
Hit(r) ==
    /\ cache # NoEntry
    /\ pc' = [pc EXCEPT ![r] = "done"]
    /\ result' = [result EXCEPT ![r] = cache]
    /\ answer' = [answer EXCEPT ![r] = Rebuilt]
    /\ UNCHANGED <<dto, row, cache, lock, lapses, attempt, interval, loaded>>

\* The call begins with _fetch_from_cache; the expiry it prolongs is untimed here.
Get(r) ==
    /\ pc[r] = "idle"
    /\ truth' = [truth EXCEPT ![r] = {row}]
    /\ \/ Hit(r)
       \/ /\ cache = NoEntry
          /\ pc' = [pc EXCEPT ![r] = "elect"]
          /\ UNCHANGED <<dto, row, cache, lock, lapses, attempt, interval, loaded, result, answer>>

(***************************************************************************)
(* Electing a leader and waiting for it                                    *)
(***************************************************************************)

\* Mutant of Elect: SET without NX.
ElectWithoutNX(r) ==
    /\ pc[r] = "elect" /\ attempt[r] < FETCH_MAX_RETRIES
    /\ lock' = r
    /\ pc' = [pc EXCEPT ![r] = "load"]
    /\ UNCHANGED <<dto, row, cache, lapses, attempt, interval, loaded, result, answer, truth>>

Elect(r) ==
    /\ pc[r] = "elect" /\ attempt[r] < FETCH_MAX_RETRIES
    /\ \/ /\ lock = NoRequest
          /\ lock' = r
          /\ pc' = [pc EXCEPT ![r] = "load"]
          /\ UNCHANGED interval
       \/ /\ lock # NoRequest
          /\ pc' = [pc EXCEPT ![r] = "wait"]
          /\ interval' = [interval EXCEPT ![r] = 1]
          /\ UNCHANGED lock
    /\ UNCHANGED <<dto, row, cache, lapses, attempt, loaded, result, answer, truth>>

\* The attempts are used up: CacheCoherenceException.
GiveUp(r) ==
    /\ pc[r] = "elect" /\ attempt[r] = FETCH_MAX_RETRIES
    /\ pc' = [pc EXCEPT ![r] = "done"]
    /\ answer' = [answer EXCEPT ![r] = "incoherent"]
    /\ UNCHANGED <<dto, row, cache, lock, lapses, attempt, interval, loaded, result, truth>>

\* Mutant of NextAttempt: leader_attempt is not counted.
NextAttemptUncounted(r) ==
    /\ pc' = [pc EXCEPT ![r] = "elect"]
    /\ UNCHANGED attempt

NextAttempt(r) ==
    /\ pc' = [pc EXCEPT ![r] = "elect"]
    /\ attempt' = [attempt EXCEPT ![r] = @ + 1]

\* Mutant of Wait: while the lock is there, poll again.
WaitForever(r) ==
    /\ pc[r] = "wait" /\ lock = NoRequest
    /\ pc' = [pc EXCEPT ![r] = "follow"]
    /\ UNCHANGED <<dto, row, cache, lock, lapses, attempt, interval, loaded, result, answer, truth>>

\* Mutant of Wait: one interval more than the limit.
WaitOnceMore(r) ==
    /\ pc[r] = "wait"
    /\ interval' = [interval EXCEPT ![r] = @ + 1]
    /\ IF interval[r] > FETCH_WAITING_MAX_INTERVALS THEN NextAttempt(r) ELSE UNCHANGED <<pc, attempt>>
    /\ UNCHANGED <<dto, row, cache, lock, lapses, loaded, result, answer, truth>>

\* One poll of the lock, and the sleep that follows if it is still there.
Wait(r) ==
    /\ pc[r] = "wait"
    /\ \/ /\ lock = NoRequest
          /\ pc' = [pc EXCEPT ![r] = "follow"]
          /\ UNCHANGED <<attempt, interval>>
       \/ /\ lock # NoRequest /\ interval[r] < FETCH_WAITING_MAX_INTERVALS
          /\ interval' = [interval EXCEPT ![r] = @ + 1]
          /\ UNCHANGED <<pc, attempt>>
       \/ /\ lock # NoRequest /\ interval[r] = FETCH_WAITING_MAX_INTERVALS
          /\ NextAttempt(r)
          /\ UNCHANGED interval
    /\ UNCHANGED <<dto, row, cache, lock, lapses, loaded, result, answer, truth>>

\* The lock is gone: the leader has cached the resource, or it has failed.
Follow(r) ==
    /\ pc[r] = "follow"
    /\ \/ Hit(r)
       \/ /\ cache = NoEntry
          /\ NextAttempt(r)
          /\ UNCHANGED <<dto, row, cache, lock, lapses, interval, loaded, result, answer>>
    /\ UNCHANGED truth

(***************************************************************************)
(* The leader                                                              *)
(***************************************************************************)

\* fallback_coroutine, and the conversion of a row it finds.
Load(r) ==
    /\ pc[r] = "load"
    /\ \/ /\ row = NoRow \/ dto \in Storable
          /\ loaded' = [loaded EXCEPT ![r] = row]
          /\ pc' = [pc EXCEPT ![r] = "store"]
          /\ UNCHANGED answer
       \/ /\ row # NoRow /\ dto \notin Storable
          /\ answer' = [answer EXCEPT ![r] = "error"]
          /\ pc' = [pc EXCEPT ![r] = "unlock"]
          /\ UNCHANGED loaded
    /\ UNCHANGED <<dto, row, cache, lock, lapses, attempt, interval, result, truth>>

\* HSET adds fields to the hash; it does not replace it.
Merged(v) == IF v = NoRow THEN [cache EXCEPT !.nf = TRUE] ELSE [cache EXCEPT !.val = v]

\* Mutant of Store: the leader answers from the hash it has written.
StoreReadBack(r) ==
    /\ pc[r] = "store"
    /\ cache' = Merged(loaded[r])
    /\ answer' = [answer EXCEPT ![r] = cache'.val]
    /\ pc' = [pc EXCEPT ![r] = "unlock"]
    /\ UNCHANGED <<dto, row, lock, lapses, attempt, interval, loaded, result, truth>>

Store(r) ==
    /\ pc[r] = "store"
    /\ cache' = Merged(loaded[r])
    /\ answer' = [answer EXCEPT ![r] = loaded[r]]
    /\ pc' = [pc EXCEPT ![r] = "unlock"]
    /\ UNCHANGED <<dto, row, lock, lapses, attempt, interval, loaded, result, truth>>

\* Mutant of LoadFail: a failed load is taken for a missing row.
FailureAsMissing(r) ==
    /\ pc[r] \in {"load", "store"}
    /\ answer' = [answer EXCEPT ![r] = NoRow]
    /\ pc' = [pc EXCEPT ![r] = "unlock"]
    /\ UNCHANGED <<dto, row, cache, lock, lapses, attempt, interval, loaded, result, truth>>

\* The database or Redis raises; a write that was sent may have been made.
LoadFail(r) ==
    /\ pc[r] \in {"load", "store"}
    /\ \/ UNCHANGED cache
       \/ pc[r] = "store" /\ cache' = Merged(loaded[r])
    /\ answer' = [answer EXCEPT ![r] = "error"]
    /\ pc' = [pc EXCEPT ![r] = "unlock"]
    /\ UNCHANGED <<dto, row, lock, lapses, attempt, interval, loaded, result, truth>>

\* finally: the lock is deleted, whoever holds it by now.
Unlock(r) ==
    /\ pc[r] = "unlock"
    /\ lock' = NoRequest
    /\ pc' = [pc EXCEPT ![r] = "done"]
    /\ UNCHANGED <<dto, row, cache, lapses, attempt, interval, loaded, result, answer, truth>>

(***************************************************************************)
(* The surroundings                                                        *)
(***************************************************************************)

\* The local state of r is gone; r stands for another request from here on.
Forget(r) ==
    /\ pc' = [pc EXCEPT ![r] = "idle"]
    /\ attempt' = [attempt EXCEPT ![r] = 0]
    /\ interval' = [interval EXCEPT ![r] = 0]
    /\ loaded' = [loaded EXCEPT ![r] = NoRow]
    /\ result' = [result EXCEPT ![r] = NoEntry]
    /\ answer' = [answer EXCEPT ![r] = "none"]
    /\ truth' = [truth EXCEPT ![r] = {}]
    /\ UNCHANGED <<dto, row, cache, lock, lapses>>

Return(r) == pc[r] = "done" /\ Forget(r)

\* The worker process dies, or Redis fails outside the try block.
Die(r) == pc[r] \notin {"idle", "done"} /\ Forget(r)

\* PX runs out.
LockExpire ==
    /\ lock # NoRequest
    /\ lock' = NoRequest
    /\ \/ lock \in Leaders /\ lapses < MaxLapses /\ lapses' = lapses + 1
       \/ lock \notin Leaders /\ UNCHANGED lapses
    /\ UNCHANGED <<dto, row, cache>> /\ UNCHANGED local

CacheExpire ==
    /\ cache # NoEntry
    /\ cache' = NoEntry
    /\ UNCHANGED <<dto, row, lock, lapses>> /\ UNCHANGED local

\* Another handler or a database worker writes the row.
RowChange ==
    /\ \E v \in Row \ {row} :
          /\ row' = v
          /\ truth' = [r \in Request |-> IF pc[r] = "idle" THEN {} ELSE truth[r] \cup {v}]
    /\ UNCHANGED <<dto, cache, lock, lapses, pc, attempt, interval, loaded, result, answer>>

Step(r) == \/ Elect(r) \/ GiveUp(r) \/ Wait(r) \/ Follow(r)
           \/ Load(r) \/ Store(r) \/ LoadFail(r) \/ Unlock(r)

Next == \/ \E r \in Request : Get(r) \/ Step(r) \/ Return(r) \/ Die(r)
        \/ LockExpire \/ CacheExpire \/ RowChange

Spec == Init /\ [][Next]_vars

\* A request in progress is a coroutine of a live event loop whose calls return or raise.
FairSpec == Spec /\ \A r \in Request : WF_vars(Step(r))

(***************************************************************************)
(* Properties                                                              *)
(***************************************************************************)

\* Single flight: two leaders load at the same time only if the lock of a leader
\* at work has expired, and each expiry lets in one more.  The finally clause
\* deletes a lock by name, so a late leader frees the lock of its successor; that
\* costs nothing, because the late leader is gone by then.
SingleFlight == Cardinality(Leaders) <= 1 + lapses

\* A call that returns without an exception and without a cache hit tells the
\* truth: None or a row is what the table held at some moment of the call, in
\* spite of late leaders, lapsed locks and failures after the read.
AnswerWasTrue == \A r \in Request :
    pc[r] = "done" /\ answer[r] \in Row => answer[r] \in truth[r]

\* Every request that misses the cache comes to an end, whatever happens to the
\* leader it waits for.
Answered == \A r \in Request : (pc[r] = "elect") ~> (pc[r] \in {"done", "idle"})

\* What is left of a call: its attempts, and its polls and awaits in this one.
AttemptLength == FETCH_WAITING_MAX_INTERVALS + 4
Ahead(r) == CASE pc[r] = "elect" -> AttemptLength
              [] pc[r] = "wait" -> FETCH_WAITING_MAX_INTERVALS - interval[r] + 2
              [] pc[r] = "load" -> 3
              [] pc[r] = "store" -> 2
              [] pc[r] \in {"follow", "unlock"} -> 1
              [] pc[r] \in {"idle", "done"} -> 0
Remaining(r) == (FETCH_MAX_RETRIES - attempt[r]) * AttemptLength + Ahead(r)

\* No interplay of leaders, followers and expiries makes a call poll or load for ever:
\* each of its steps uses up some of what is left, and nobody else gives it more.
CallsWindDown == [][\A r \in Request :
    /\ Step(r) => Remaining(r)' < Remaining(r)
    /\ "idle" \notin {pc[r], pc'[r]} => Remaining(r)' <= Remaining(r)]_vars

\* distributed_get_or_load as the lookup its callers take it for: the row is read
\* where the leader's coroutine reads it, the answer stands from its assignment on,
\* and every other way out, the hit of a cache that cannot be read back included,
\* returns no row.
CallOf(r) == CASE pc[r] = "idle" -> <<"idle">>
               [] pc[r] \in {"elect", "wait", "follow", "load"} -> <<"open">>
               [] pc[r] = "store" -> <<"saw", loaded[r]>>
               [] pc[r] \in {"unlock", "done"} -> <<"done", answer[r]>>

LU == INSTANCE Lookup WITH call <- [r \in Request |-> CallOf(r)],
                           Failure <- Outcome \ {"none"}
\* In spite of late leaders, lapsed locks, failed writes of the cache and deaths, a
\* call returns the row of one instant of the call, or no row: it implements Lookup.
ImplementsLookup == LU!LookupSpec

\* What the comments at lines 281 and 326 of cache_manager.py say: whoever meets a
\* negative entry returns None.
NegativeEntryMeansNone == \A r \in Request :
    pc[r] = "done" /\ result[r].nf => answer[r] = NoRow
=============================================================================
