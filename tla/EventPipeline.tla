--------------------------- MODULE EventPipeline ----------------------------
(***************************************************************************)
(* The database workers that consume the event streams: every consumer     *)
(* deduplicates what it has read through the table of processed events,    *)
(* does the work of its kind in PostgreSQL, emits side effects or further  *)
(* events to Redis, and dead-letters what failed.  A pending entry is      *)
(* delivered again and again, even while a slow worker is busy with it or  *)
(* an earlier copy is still queued: a batch may hold it several times.     *)
(*                                                                         *)
(* A call of PostgreSQL or Redis, with the building of its statement or    *)
(* message, succeeds or raises; what follows either is the code's.  The    *)
(* statements the repository holds today are such that most of them raise: *)
(* what is checked holds of the code whether or not they are repaired.     *)
(***************************************************************************)
EXTENDS Naturals, FiniteSets

CONSTANTS
    Entry,          \* entries of the stream a kind of consumer reads
    Worker,         \* consumers of this kind, in one process or several
    MaxRetries,     \* WORKER.MAX_RETRIES
    MaxDeliveries,  \* bound: how often an entry is read, which the code does not limit
    Pages,          \* bound: pages of counters an attempt of a decrement finds
    MaxFaults       \* bound: failures and crashes in a behaviour

ASSUME EntryAssumption == IsFiniteSet(Entry)
ASSUME WorkerAssumption == IsFiniteSet(Worker)
ASSUME BoundsAssumption ==
    /\ MaxRetries \in Nat \ {0} /\ MaxDeliveries \in Nat \ {0}
    /\ Pages \in Nat \ {0} /\ MaxFaults \in Nat

\* The kinds of consumer.  associate, create: queue_insertion_consumer with and without
\* an action; delete: queue_deletion_consumer; orphan: user_orphan_consumer; cascade and
\* decrement: queue_downstream_deletion_consumer and queue_downstream_decrement_consumer.
Kind == {"associate", "create", "delete", "orphan", "cascade", "decrement"}

\* Those whose work is in the transaction of the deduplication: the connection's block
\* commits both when it ends and rolls both back when it raises.
Atomic == {"associate", "create", "delete"}

VARIABLES
    kind,        \* the kind this behaviour is about
    bad,         \* entries that violate a constraint, or have a malformed payload
    deliveries,  \* how often each entry has been delivered
    ready,       \* copies of each entry in the in-process queues
    seen,        \* PostgreSQL: committed ids of processed events
    applied,     \* how often each entry's work has been committed
    effects,     \* how often each entry's side effects were emitted
    dispatched,  \* how often each entry's downstream events were emitted
    sent,        \* how often each page of a decrement was emitted
    ended,       \* the first page of a decrement that was found empty, 0 before that
    dead,        \* entries in the dead letter queue, each under an id made of its own
    stranded,    \* entries whose downstream events are in the dead letter queue
    slips,       \* history: emissions of an entry that another one follows or may follow
    unrecorded,  \* history: applied by a transaction that had lost its dedup record
    interrupted, \* history: recorded as processed, then dropped by a dying consumer
    faults,      \* failures so far
    worker       \* what each consumer is doing

vars == <<kind, bad, deliveries, ready, seen, applied, effects, dispatched, sent, ended,
          dead, stranded, slips, unrecorded, interrupted, faults, worker>>
fixed == <<kind, bad>>
delivery == <<deliveries, ready>>
database == <<seen, applied, unrecorded>>
emission == <<effects, dispatched, sent, ended, slips>>

\* batch: the entries in it; copies: how often it holds each; held: dedup records of the
\* open transaction; done: work of the open transaction; reported: inserted_ids; tries:
\* attempts of the step in progress; rounds: attempts of user_orphan_consumer's own loop
\* that are over; page: the offset; failed: the exception variable of the decrement loop;
\* sown: something was emitted.
Activity == [pc : {"idle", "dedup", "apply", "emit", "amortize", "bury", "rest", "dispatch",
                   "ack", "select", "send", "commit"},
             batch : SUBSET Entry, copies : [Entry -> 0..MaxDeliveries], held : SUBSET Entry,
             done : SUBSET Entry, reported : SUBSET Entry, tries : 0..MaxRetries,
             rounds : 0..MaxRetries, page : 0..(Pages + MaxRetries),
             failed : BOOLEAN, sown : BOOLEAN]
None == [e \in Entry |-> 0]
Rest == [pc |-> "idle", batch |-> {}, copies |-> None, held |-> {}, done |-> {},
         reported |-> {}, tries |-> 0, rounds |-> 0, page |-> 0, failed |-> FALSE, sown |-> FALSE]

TypeOK ==
    /\ kind \in Kind /\ bad \subseteq Entry
    /\ deliveries \in [Entry -> 0..MaxDeliveries] /\ ready \in [Entry -> 0..MaxDeliveries]
    /\ applied \in [Entry -> Nat] /\ effects \in [Entry -> Nat] /\ dispatched \in [Entry -> Nat]
    /\ sent \in [Entry -> [1..Pages -> Nat]] /\ slips \in [Entry -> Nat]
    /\ ended \in [Entry -> 0..(Pages + MaxRetries)]
    /\ seen \subseteq Entry /\ dead \subseteq Entry /\ stranded \subseteq Entry
    /\ unrecorded \subseteq Entry /\ interrupted \subseteq Entry
    /\ faults \in 0..MaxFaults
    /\ worker \in [Worker -> Activity]
    \* No dedup record is in two transactions, nor in one and committed.
    /\ \A v, w \in Worker : v # w => worker[v].held \cap worker[w].held = {}
    /\ \A w \in Worker : worker[w].held \cap seen = {}

Init ==
    /\ kind \in Kind
    /\ bad \in SUBSET (IF kind \in {"delete", "orphan"} THEN {} ELSE Entry)
    /\ deliveries = None /\ ready = None /\ seen = {}
    /\ applied = None /\ effects = None /\ dispatched = None /\ ended = None /\ slips = None
    /\ sent = [e \in Entry |-> [p \in 1..Pages |-> 0]]
    /\ dead = {} /\ stranded = {} /\ unrecorded = {} /\ interrupted = {}
    /\ faults = 0 /\ worker = [w \in Worker |-> Rest]

At(w, pc) == worker[w].pc = pc
Goto(w, pc) == worker' = [worker EXCEPT ![w].pc = pc, ![w].tries = 0]
End(w) == worker' = [worker EXCEPT ![w] = Rest]
Fault == faults < MaxFaults /\ faults' = faults + 1
Bump(f, S) == [e \in Entry |-> IF e \in S THEN f[e] + 1 ELSE f[e]]
BumpBy(f, S, n) == [e \in Entry |-> IF e \in S THEN f[e] + n[e] ELSE f[e]]

\* What an emission of w adds to the slips: every copy, but one of each entry of S.
Surplus(w, S) == [e \in Entry |-> IF e \in S THEN worker[w].copies[e] - 1 ELSE worker[w].copies[e]]

\* No entry of S is in the batch of w more than once.
Single(w, S) == \A e \in S : worker[w].copies[e] = 1

\* A consumer ends by an exception: its transaction is rolled back.
Perish(w) ==
    /\ End(w)
    /\ slips' = IF worker[w].sown THEN Bump(slips, worker[w].batch) ELSE slips
    /\ interrupted' = IF kind \in Atomic \/ At(w, "dedup") THEN interrupted
                      ELSE interrupted \cup worker[w].batch

(***************************************************************************)
(* Delivery                                                                *)
(***************************************************************************)

\* A dispatcher reads a new entry and queues it.  One that does not parse goes to the
\* dead_letter_queue of the process instead and never comes to a consumer.  (As written
\* the read raises: the dispatchers pass the flag read_history for the id.)
Deliver(e) ==
    /\ deliveries[e] = 0
    /\ deliveries' = [deliveries EXCEPT ![e] = 1] /\ ready' = [ready EXCEPT ![e] = @ + 1]
    /\ UNCHANGED <<fixed, database, emission, dead, stranded, interrupted, faults, worker>>

\* A pending entry is read again: in the history of the dispatcher that read it, which
\* is read until it is empty, or of the one that reclaim_pending_events has made its owner.
\* XACK never prevents it: it is sent the id without its dash, which matches no entry.
\* Nor does a copy that is still queued, or in work.
Redeliver(e) ==
    /\ deliveries[e] \in 1..(MaxDeliveries - 1)
    /\ deliveries' = [deliveries EXCEPT ![e] = @ + 1] /\ ready' = [ready EXCEPT ![e] = @ + 1]
    /\ UNCHANGED <<fixed, database, emission, dead, stranded, interrupted, faults, worker>>

\* Kinds that take one event from their queue, not a batch.
Downstream == {"cascade", "decrement"}

\* A consumer takes from the queue what it holds when the quota or the time is reached,
\* copies of an entry included; the downstream kinds take one event, and dead-letter a
\* malformed payload at once.  (As written populate_events_batch_from_queue has no return
\* after its loop has filled the batch: the model has it hand the batch over.)
Take(w) ==
    /\ At(w, "idle")
    /\ \E c \in [Entry -> 0..MaxDeliveries] :
          LET B == {e \in Entry : c[e] > 0}
          IN  /\ B # {} /\ \A e \in Entry : c[e] <= ready[e]
              /\ kind \in Downstream => Cardinality(B) = 1 /\ \A e \in B : c[e] = 1
              /\ ready' = [e \in Entry |-> ready[e] - c[e]]
              /\ worker' = [worker EXCEPT ![w] = [Rest EXCEPT
                    !.batch = B, !.copies = c,
                    !.pc = IF kind \in Downstream /\ B \subseteq bad THEN "bury" ELSE "dedup"]]
    /\ UNCHANGED <<fixed, deliveries, database, emission, dead, stranded, interrupted, faults>>

(***************************************************************************)
(* Deduplication                                                           *)
(***************************************************************************)

\* Mutant of Fresh: the statement does not name the ids that were new.
AllFresh(B) == B

\* The ids INSERT ... ON CONFLICT DO NOTHING returns, or a single INSERT accepts.
Fresh(B) == B \ seen

\* Mutant of Recorded: an insertion waits for nobody.
RecordedByNobody(B) == FALSE

\* An insertion waits for the transaction that has inserted the same id.
Recorded(B) == \E v \in Worker : worker[v].held \cap B # {}

\* batch_dedup_insert_events and trim_duplicate_events, or dedup_insert_event, whose
\* transaction block commits at once; so does user_orphan_consumer's connection block.
\* An id is returned once, but all copies of its entry stay in the batch.
Dedup(w) ==
    /\ At(w, "dedup")
    /\ LET F == Fresh(worker[w].batch)
       IN  /\ ~Recorded(worker[w].batch)
           /\ IF F = {} THEN End(w) ELSE worker' = [worker EXCEPT
                ![w].batch = F,
                ![w].copies = [e \in Entry |-> IF e \in F THEN @[e] ELSE 0],
                ![w].held = IF kind \in Atomic THEN F ELSE {},
                ![w].pc = CASE kind = "orphan" -> "dispatch" [] kind = "decrement" -> "select"
                            [] OTHER -> "apply"]
           /\ seen' = IF kind \in Atomic THEN seen ELSE seen \cup F
    /\ UNCHANGED <<fixed, delivery, applied, unrecorded, emission, dead, stranded, interrupted, faults>>

(***************************************************************************)
(* The work                                                                *)
(***************************************************************************)

\* What batch_insert_with_isolation inserts: bisecting a batch that violates a
\* constraint drops the entries that violate it by themselves.
Insertable(B) == IF kind \in {"associate", "create"} THEN B \ bad ELSE B

\* Mutant of Reported: the TODO of batch_insert_strong_entities is done.
ReportedAlways(D) == D

\* The ids the batch function returns for the entries D that it wrote: none for strong
\* entities, and none for a deletion.
Reported(D) == IF kind = "associate" THEN D ELSE {}

\* What an attempt may write of the batch B of w.  WEAK_INSERTION_SQL neither writes nor
\* returns an entry that a later one, or an earlier copy, has superseded; a statement
\* that holds two copies of one it would write fails, so both pass only where bisecting
\* has put them in different statements.
Writes(w, B) ==
    IF kind = "associate"
    THEN {D \in SUBSET Insertable(B) : Single(w, D) \/ B \cap bad # {}}
    ELSE {Insertable(B)}

\* The statement holds two copies of an entry it would write: it always fails.
Clashes(w) == kind = "associate" /\ ~Single(w, Insertable(worker[w].batch))

\* queue_deletion_consumer hands over a generator, which a second attempt finds empty.
Spent(w) == kind = "delete" /\ worker[w].tries > 0

Apply(w) ==
    /\ At(w, "apply") /\ ~Spent(w)
    /\ \E done \in Writes(w, worker[w].batch) :
          worker' = [worker EXCEPT
             ![w].done = done, ![w].reported = @ \cup Reported(done), ![w].tries = 0,
             ![w].pc = IF kind = "cascade" THEN "ack" ELSE "emit"]
    /\ UNCHANGED <<fixed, delivery, database, emission, dead, stranded, interrupted, faults>>

\* db_execute_with_retries: a failure rolls the transaction back, deduplication included;
\* inserted_ids keeps what an earlier attempt reported.  A transient one is retried.
ApplyFail(w) ==
    /\ At(w, "apply")
    /\ \E ids \in SUBSET Reported(Insertable(worker[w].batch)), again \in BOOLEAN :
          /\ IF Spent(w) \/ (Clashes(w) /\ ~again) THEN UNCHANGED faults ELSE Fault
          /\ again => ~Spent(w) /\ worker[w].tries + 1 < MaxRetries
          /\ worker' = [worker EXCEPT
                ![w].held = {}, ![w].done = {}, ![w].reported = @ \cup ids,
                ![w].tries = IF again THEN @ + 1 ELSE 0,
                ![w].pc = IF again THEN "apply" ELSE "bury"]
    /\ UNCHANGED <<fixed, delivery, database, emission, dead, stranded, interrupted>>

(***************************************************************************)
(* Side effects, acknowledgements and dead letters                         *)
(***************************************************************************)

\* After the batch has been acknowledged, or dead-lettered because that failed.
Proceed(w) ==
    IF kind \in {"orphan", "decrement"} THEN End(w)
    ELSE Goto(w, IF kind \in {"associate", "create"} THEN "rest" ELSE "dispatch")

\* commit_processed_events: the side effects of the whole batch, of each copy in it, in one
\* MULTI.  (consumer.py:186 speaks of the successful events: it is called with all.)
\* Without a dedup record in the transaction another delivery will emit them again.
Emit(w) ==
    /\ At(w, "emit")
    /\ effects' = BumpBy(effects, worker[w].batch, worker[w].copies)
    /\ slips' = BumpBy(slips, worker[w].batch, Surplus(w, worker[w].held))
    /\ worker' = [worker EXCEPT ![w].sown = TRUE, ![w].tries = 0,
                                ![w].pc = IF kind = "delete" THEN "dispatch" ELSE "rest"]
    /\ UNCHANGED <<fixed, delivery, database, dispatched, sent, ended, dead, stranded, interrupted, faults>>

\* The MULTI was executed but its reply is lost: a network error, which is retried.
EmitLost(w) ==
    /\ At(w, "emit") /\ Fault
    /\ effects' = BumpBy(effects, worker[w].batch, worker[w].copies)
    /\ slips' = BumpBy(slips, worker[w].batch, worker[w].copies)
    /\ worker' = [worker EXCEPT ![w].sown = TRUE, ![w].tries = @ + 1,
                                ![w].pc = IF worker[w].tries + 1 < MaxRetries THEN "emit" ELSE "amortize"]
    /\ UNCHANGED <<fixed, delivery, database, dispatched, sent, ended, dead, stranded, interrupted>>

\* dlq_aware_process_events: another error, or too many.
EmitFail(w) ==
    /\ At(w, "emit") \/ At(w, "ack")
    /\ Fault /\ Goto(w, "amortize")
    /\ UNCHANGED <<fixed, delivery, database, emission, dead, stranded, interrupted>>

\* XACK, which changes nothing.
Ack(w) ==
    /\ At(w, "ack") /\ Proceed(w)
    /\ UNCHANGED <<fixed, delivery, database, emission, dead, stranded, interrupted, faults>>

\* amortize_event: XACK and XADD under the entry's own id, which Redis refuses unless it is
\* greater than the last id of the stream.  All kinds add to it, so any id may be refused;
\* that of a second copy always is.  The other commands of the MULTI are executed all the
\* same, then it is raised, as is a failure of Redis.  Without entries nothing is sent.
Bury(w, S, next) ==
    /\ \/ /\ S \cap dead = {} /\ Single(w, S) /\ dead' = dead \cup S /\ next
          /\ UNCHANGED <<slips, interrupted>>
       \/ /\ S # {} /\ Perish(w)
          /\ \E T \in SUBSET S : dead' = dead \cup T
    /\ UNCHANGED faults
BuryUnchanged == <<fixed, delivery, database, effects, dispatched, sent, ended, stranded>>

\* The side effects or the acknowledgement failed; the work goes on.
Amortize(w) == /\ At(w, "amortize") /\ Bury(w, worker[w].batch, Proceed(w))
               /\ UNCHANGED BuryUnchanged

\* The whole batch failed.  Nothing is left in the transaction to commit.
DeclareDead(w) == /\ At(w, "bury") /\ Bury(w, worker[w].batch, End(w))
                  /\ UNCHANGED BuryUnchanged

\* Mutant of Failed: entries whose ids were not reported are taken for inserted.
FailedNever(w) == {}

\* The entries whose id is not among inserted_ids.
Failed(w) == worker[w].batch \ worker[w].reported

\* They are declared dead after the side effects of the whole batch, before the commit.
DeclareRestDead(w) == /\ At(w, "rest") /\ Bury(w, Failed(w), Goto(w, "commit"))
                      /\ UNCHANGED BuryUnchanged

(***************************************************************************)
(* Downstream events                                                       *)
(***************************************************************************)

\* dispatch_downstream_events, dispatch_downstream_counter_decrements: the events of each
\* copy.  The decrements are sent before the cascade that they count is committed.
AfterDispatch == IF kind = "orphan" THEN "ack" ELSE "commit"
Dispatch(w) ==
    /\ At(w, "dispatch")
    /\ dispatched' = BumpBy(dispatched, worker[w].batch, worker[w].copies)
    /\ slips' = BumpBy(slips, worker[w].batch,
                       Surplus(w, IF kind = "delete" THEN worker[w].held ELSE worker[w].batch))
    /\ worker' = [worker EXCEPT ![w].sown = TRUE, ![w].tries = 0, ![w].pc = AfterDispatch]
    /\ UNCHANGED <<fixed, delivery, database, effects, sent, ended, dead, stranded, interrupted, faults>>

\* After the last attempt the events go to the dead letter queue.  If that raises as well,
\* user_orphan_consumer dispatches them anew when it was a network error, and else, or
\* after its own last attempt, declares its batch dead (the others die, see Crash).
Undelivered(w, sown) ==
    LET a == [worker[w] EXCEPT !.sown = sown, !.tries = 0]
    IN  \/ /\ worker' = [worker EXCEPT ![w] = [a EXCEPT !.pc = AfterDispatch]]
           /\ stranded' = stranded \cup worker[w].batch
        \/ /\ kind = "orphan"
           /\ \/ /\ a.rounds + 1 < MaxRetries
                 /\ worker' = [worker EXCEPT ![w] = [a EXCEPT !.rounds = @ + 1]]
              \/ worker' = [worker EXCEPT ![w] = [a EXCEPT !.pc = "bury"]]
           /\ stranded' \in {stranded, stranded \cup worker[w].batch}

\* The reply is lost: a network error, which is retried.
DispatchLost(w) ==
    /\ At(w, "dispatch") /\ Fault
    /\ dispatched' = BumpBy(dispatched, worker[w].batch, worker[w].copies)
    /\ slips' = BumpBy(slips, worker[w].batch, worker[w].copies)
    /\ IF worker[w].tries + 1 = MaxRetries THEN Undelivered(w, TRUE)
       ELSE /\ worker' = [worker EXCEPT ![w].sown = TRUE, ![w].tries = @ + 1]
            /\ UNCHANGED stranded
    /\ UNCHANGED <<fixed, delivery, database, effects, sent, ended, dead, interrupted>>

\* The events cannot be added.
DispatchFail(w) ==
    /\ At(w, "dispatch") /\ Fault /\ Undelivered(w, worker[w].sown)
    /\ UNCHANGED <<fixed, delivery, database, emission, dead, interrupted>>

(***************************************************************************)
(* Downstream counters                                                     *)
(***************************************************************************)

\* Mutant of Offset: every attempt starts at the first page again.
OffsetReset(w) == 0

\* The offset with which the next attempt starts: it is not reset.
Offset(w) == worker[w].page + 1

\* Selecting no rows ends an attempt; the loop over attempts has no break and selects
\* again, behind the page that was empty.  An exception of an earlier attempt is never
\* forgotten.  The query has no ORDER BY, and the cascade may not have committed the rows
\* it counts: there may be rows, or none, at any offset, whatever was read before.  Which
\* rows a page holds is not modelled: between two pages a row may be missed or repeated.
Select(w) ==
    /\ At(w, "select")
    /\ LET a == worker[w]
           last == a.tries + 1 = MaxRetries
       IN  \/ /\ a.page < Pages
              /\ worker' = [worker EXCEPT ![w] = [a EXCEPT !.page = @ + 1, !.pc = "send"]]
              /\ UNCHANGED ended
           \/ /\ ended' = [e \in Entry |-> IF e \in a.batch /\ ended[e] = 0 THEN a.page + 1 ELSE ended[e]]
              /\ worker' = [worker EXCEPT ![w] =
                    [a EXCEPT !.tries = IF last THEN 0 ELSE @ + 1, !.page = Offset(w),
                              !.pc = IF ~last THEN "select" ELSE IF a.failed THEN "bury" ELSE "ack"]]
    /\ UNCHANGED <<fixed, delivery, database, effects, dispatched, sent, slips, dead, stranded,
                   interrupted, faults>>

\* A transient error is retried from the same page.
SelectFail(w) ==
    /\ At(w, "select") /\ Fault
    /\ \E again \in BOOLEAN :
          /\ again => worker[w].tries + 1 < MaxRetries
          /\ worker' = [worker EXCEPT ![w].failed = TRUE, ![w].tries = IF again THEN @ + 1 ELSE 0,
                                      ![w].pc = IF again THEN "select" ELSE "bury"]
    /\ UNCHANGED <<fixed, delivery, database, emission, dead, stranded, interrupted>>

\* emit_downstream_counter_decrement_updates, retried when its reply is lost.
SentPage(w) == [e \in Entry |-> IF e \in worker[w].batch
                                 THEN [sent[e] EXCEPT ![worker[w].page] = @ + 1] ELSE sent[e]]
Send(w) ==
    /\ At(w, "send")
    /\ sent' = SentPage(w)
    /\ worker' = [worker EXCEPT ![w].pc = "select"]
    /\ UNCHANGED <<fixed, delivery, database, effects, dispatched, ended, slips, dead, stranded, interrupted, faults>>
SendLost(w) ==
    /\ At(w, "send") /\ Fault
    /\ sent' = SentPage(w) /\ slips' = Bump(slips, worker[w].batch)
    /\ UNCHANGED <<fixed, delivery, database, effects, dispatched, ended, dead, stranded, interrupted, worker>>
SendFail(w) ==
    /\ At(w, "send") /\ Fault /\ Goto(w, "bury")
    /\ UNCHANGED <<fixed, delivery, database, emission, dead, stranded, interrupted>>

(***************************************************************************)
(* The end of the connection's block                                       *)
(***************************************************************************)

\* Mutant of Commit: the work is committed, the record of it is not.
CommitForgets(w) ==
    /\ At(w, "commit") /\ End(w)
    /\ applied' = Bump(applied, worker[w].done)
    /\ UNCHANGED <<fixed, delivery, seen, unrecorded, emission, dead, stranded, interrupted, faults>>

\* executemany of a strong insertion has inserted every copy; a deletion or an association
\* changes the same row.
Commit(w) ==
    /\ At(w, "commit") /\ End(w)
    /\ seen' = seen \cup worker[w].held
    /\ applied' = IF kind = "create" THEN BumpBy(applied, worker[w].done, worker[w].copies)
                  ELSE Bump(applied, worker[w].done)
    /\ unrecorded' = IF kind \in Atomic THEN unrecorded \cup (worker[w].done \ worker[w].held)
                     ELSE unrecorded
    /\ UNCHANGED <<fixed, delivery, emission, dead, stranded, interrupted, faults>>

\* An exception no clause catches, or the death of the process.
Crash(w) ==
    /\ ~At(w, "idle") /\ Fault /\ Perish(w)
    /\ UNCHANGED <<fixed, delivery, database, effects, dispatched, sent, ended, dead, stranded>>

Next ==
    \/ \E e \in Entry : Deliver(e) \/ Redeliver(e)
    \/ \E w \in Worker :
          \/ Take(w) \/ Dedup(w) \/ Apply(w) \/ ApplyFail(w)
          \/ Emit(w) \/ EmitLost(w) \/ EmitFail(w) \/ Ack(w)
          \/ Amortize(w) \/ DeclareDead(w) \/ DeclareRestDead(w)
          \/ Dispatch(w) \/ DispatchLost(w) \/ DispatchFail(w)
          \/ Select(w) \/ SelectFail(w) \/ Send(w) \/ SendLost(w) \/ SendFail(w)
          \/ Commit(w) \/ Crash(w)

Spec == Init /\ [][Next]_vars

(***************************************************************************)
(* Properties                                                              *)
(***************************************************************************)

\* Deliveries may overlap, a batch may hold an entry several times and consumers die, yet
\* the work of an entry is committed once.  A strong insertion inserts every copy, but it
\* reports none, so all are declared dead, where Redis refuses the id of the second: the
\* consumer ends and nothing is committed.  Exception: db_execute_with_retries has rolled
\* the dedup record back with the failed attempt, and a later one committed the work alone.
AppliedOnce == \A e \in Entry : applied[e] > 1 => e \in unrecorded

Busy(e) == \E w \in Worker : e \in worker[w].batch /\ ~At(w, "dedup")
Finished(e) ==
    \/ e \in dead
    \/ CASE kind = "orphan" -> dispatched[e] > 0 \/ e \in stranded
         [] kind = "decrement" ->
                ended[e] > 0 /\ \A p \in 1..Pages : p < ended[e] => sent[e][p] > 0
         [] OTHER -> applied[e] > 0

\* An entry recorded as processed, which no consumer will touch again, has been worked on
\* or is in the dead letter queue.  Where the record is in the transaction of the work
\* this holds through every failure; where it is committed first, an entry is lost only by
\* a consumer that died with it.  A decrement has been worked on when every page up to the
\* first empty one was emitted.
NothingLost ==
    \A e \in seen : Finished(e) \/ (kind \notin Atomic /\ (Busy(e) \/ e \in interrupted))

\* Side effects, downstream events and pages of counters are emitted once for an entry,
\* however many batches it comes in, but for what the slips count: a reply of Redis that
\* was lost, a consumer that died after emitting, an attempt that had lost its dedup
\* record, and the further copies of the entry in one batch, which trim_duplicate_events
\* leaves there.
EmittedOnce ==
    \A e \in Entry :
        /\ effects[e] <= 1 + slips[e]
        /\ dispatched[e] <= 1 + slips[e]
        /\ \A p \in 1..Pages : sent[e][p] <= 1 + slips[e]

\* Where an entry is: not recorded yet, recorded and finished, recorded and in the hands of
\* a consumer, recorded and lost.
Life(e) == IF e \notin seen THEN "open"
           ELSE IF Finished(e) THEN "finished"
           ELSE IF kind \notin Atomic /\ Busy(e) THEN "claimed" ELSE "lost"

EL == INSTANCE EntryLife WITH recordFirst <- kind \notin Atomic,
                              life <- [e \in Entry |-> Life(e)],
                              count <- applied, loose <- unrecorded

\* Every step of a consumer, failures and deaths included, moves the entries it touches
\* along the life EntryLife allows: a record is never taken back nor made without the
\* work, a lost entry is never taken up again, work is repeated only after it lost its
\* record.
ImplementsEntryLife == EL!LifeSpec
=============================================================================
