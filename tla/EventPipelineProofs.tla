------------------------ MODULE EventPipelineProofs -------------------------
(***************************************************************************)
(* The consumers of the event streams, for any entries, workers, retries,  *)
(* deliveries and failures.                                                *)
(*                                                                         *)
(* Two arguments run side by side.  Where the dedup record is in the       *)
(* transaction of the work, an entry recorded by a transaction is in no    *)
(* other one and not committed: whoever holds the record is the first to   *)
(* emit.  Where the record is committed first, an entry behind the dedup   *)
(* step is in one consumer's batch only, and nothing was done with it.     *)
(* A third fact keeps the copies of an entry apart: a consumer of strong   *)
(* entities that reaches its commit holds each entry once, for only then   *)
(* has Redis accepted all its dead letters (Local, at "commit").           *)
(* From these follows the life of every entry, the last section.           *)
(***************************************************************************)
EXTENDS EventPipeline, FiniteSetTheorems, TLAPS

\* The steps a kind of consumer takes.
OnPath(k, pc) ==
    /\ pc = "emit" => k \in Atomic
    /\ pc = "rest" => k \in {"associate", "create"}
    /\ pc = "dispatch" => k \in {"delete", "orphan", "cascade"}
    /\ pc = "ack" => k \notin Atomic
    /\ pc \in {"select", "send"} => k = "decrement"
    /\ pc = "apply" => k \in Atomic \cup {"cascade"}
    /\ pc = "commit" => k \notin {"orphan", "decrement"}

\* What a consumer of kind k knows of its own batch and transaction.
Local(a, k) ==
    /\ OnPath(k, a.pc)
    /\ a.held \subseteq a.batch /\ a.done \subseteq a.batch
    /\ k \notin Atomic => a.held = {}
    /\ a.pc = "idle" => a.batch = {}
    /\ a.pc \in {"idle", "dedup", "bury"} => a.held = {} /\ a.done = {}
    /\ a.pc \in {"idle", "dedup"} => a.reported = {} /\ a.page = 0
    /\ a.held # {} => a.held = a.batch
    /\ a.held # {} /\ a.pc = "apply" => a.reported = {}
    /\ a.held # {} /\ a.pc # "apply" => a.reported \subseteq a.done
    /\ a.held # {} /\ a.pc # "apply" /\ k = "delete" => a.done = a.batch
    /\ k = "cascade" /\ a.pc \in {"ack", "amortize", "dispatch", "commit"} => a.done = a.batch
    /\ k \in {"orphan", "decrement"} => a.done = {}
    /\ \A e \in a.batch : a.copies[e] \in Nat \ {0}
    /\ k = "create" => a.reported = {}
    /\ k = "create" /\ a.pc = "commit" => \A e \in a.batch : a.copies[e] = 1
    /\ a.pc # "amortize" => a.tries < MaxRetries
    /\ a.pc \in {"select", "send"} => a.page <= Pages + a.tries
    /\ a.pc = "send" => a.page \in 1..Pages

\* What the emissions (D: downstream events, P: pages, L: slips), the empty pages N and dead
\* letters (B: the batch, S: downstream events) say of a consumer's step.
Progress(a, k, D, L, P, N, B, S) ==
    /\ \/ k = "cascade" /\ a.pc \in {"apply", "ack", "amortize", "dispatch"}
       \/ k = "orphan" /\ a.pc = "dispatch"
       => \A e \in a.batch : D[e] <= L[e]
    /\ k = "orphan" /\ a.pc = "ack" => \A e \in a.batch : D[e] > 0 \/ e \in S
    /\ a.pc = "select" => \A e \in a.batch, p \in 1..Pages :
                              /\ (N[e] = 0 /\ p <= a.page) \/ p < N[e] => P[e][p] > 0
                              /\ p > a.page => P[e][p] <= L[e]
    /\ a.pc = "send" => \A e \in a.batch, p \in 1..Pages :
                              /\ (N[e] = 0 /\ p < a.page) \/ p < N[e] => P[e][p] > 0
                              /\ p >= a.page => P[e][p] <= L[e]
    /\ k = "decrement" /\ a.pc = "ack" =>
           \A e \in a.batch : N[e] > 0 /\ \A p \in 1..Pages : p < N[e] => P[e][p] > 0
    /\ k \in {"associate", "create"} /\ a.pc = "commit" => a.batch \ a.reported \subseteq B

AllSound ==
    \A w \in Worker : /\ Local(worker[w], kind)
                      /\ Progress(worker[w], kind, dispatched, slips, sent, ended, dead, stranded)

\* Behind the dedup step.
Past(a) == a.pc \notin {"idle", "dedup", "bury"}

\* Where the record is committed first, batches behind the dedup step are recorded, not yet
\* applied, and apart; nothing is done with an entry that is not recorded.
Apart ==
    kind \notin Atomic =>
        /\ \A w \in Worker : Past(worker[w]) =>
              \A e \in worker[w].batch : e \in seen /\ applied[e] = 0
        /\ \A v, w \in Worker : v # w /\ Past(worker[v]) /\ Past(worker[w])
                                => worker[v].batch \cap worker[w].batch = {}
        /\ \A e \in Entry : \/ applied[e] > 0 \/ dispatched[e] > 0 \/ ended[e] > 0
                            \/ \E p \in 1..Pages : sent[e][p] > 0
                            => e \in seen

\* Where the record is in the transaction, what was applied is recorded, or known not to be.
AppliedRecorded == kind \in Atomic => \A e \in Entry : applied[e] > 0 => e \in seen \cup unrecorded

\* The consumer b still has to commit the record of e, and has emitted.
Standing(b, e, R) == e \in b.held /\ b.sown /\ b.pc \in R

\* An emission counter x against the slips s: the one emission that is not a slip was made
\* by whoever recorded the entry.
Emitted(x, s, e, R, W, S) ==
    /\ x <= s + 1
    /\ x > s => e \in S \/ \E v \in Worker : Standing(W[v], e, R)

AfterEmit == {"rest", "dispatch", "commit"}

Counted ==
    \A e \in Entry :
        /\ Emitted(effects[e], slips[e], e, AfterEmit, worker, seen)
        /\ Emitted(dispatched[e], slips[e], e, {"commit"}, worker, seen)
        /\ \A p \in 1..Pages : sent[e][p] <= slips[e] + 1

\* No more copies of an entry are queued than were delivered.
Queued == \A e \in Entry : ready[e] <= deliveries[e]

IInv == /\ TypeOK /\ Queued /\ AllSound /\ Apart /\ AppliedRecorded /\ AppliedOnce
        /\ NothingLost /\ Counted

(***************************************************************************)
(* The shape of a step                                                     *)
(***************************************************************************)

\* How a step of a consumer, from b to a, may move a counter from x to x1 and the slips
\* from s to s1.
Covers(x, s, x1, s1, b, a, e, R) ==
    \/ x1 <= s1
    \/ x1 + s <= x + s1 /\ (Standing(b, e, R) => Standing(a, e, R))
    \/ x1 <= s1 + 1 /\ (e \in seen \/ Standing(a, e, R))

LEMMA EmittedKept ==
    ASSUME NEW f \in [Entry -> Nat], NEW f1 \in [Entry -> Nat], NEW w \in Worker, NEW a, NEW R,
           NEW e \in Entry, slips \in [Entry -> Nat], slips' \in [Entry -> Nat],
           \A v \in Worker : worker'[v] = IF v = w THEN a ELSE worker[v],
           Emitted(f[e], slips[e], e, R, worker, seen),
           Covers(f[e], slips[e], f1[e], slips'[e], worker[w], a, e, R)
    PROVE  Emitted(f1[e], slips'[e], e, R, worker', seen)
<1>0. f[e] \in Nat /\ f1[e] \in Nat /\ slips[e] \in Nat /\ slips'[e] \in Nat
    OBVIOUS
<1>1. CASE f1[e] <= slips'[e]
    BY <1>0, <1>1 DEF Emitted
<1>2. CASE /\ f1[e] + slips[e] <= f[e] + slips'[e]
           /\ Standing(worker[w], e, R) => Standing(a, e, R)
  <2>1. f1[e] <= slips'[e] + 1 /\ (f1[e] > slips'[e] => f[e] > slips[e])
      BY <1>0, <1>2 DEF Emitted
  <2>2. ASSUME NEW v \in Worker, Standing(worker[v], e, R)
        PROVE  \E u \in Worker : Standing(worker'[u], e, R)
    <3>1. CASE v = w
        BY <1>2, <2>2, <3>1
    <3>2. CASE v # w
        BY <2>2, <3>2
    <3> QED BY <3>1, <3>2
  <2> QED BY <2>1, <2>2 DEF Emitted
<1>3. CASE f1[e] <= slips'[e] + 1 /\ (e \in seen \/ Standing(a, e, R))
    BY <1>3 DEF Emitted
<1> QED BY <1>1, <1>2, <1>3 DEF Covers

\* An entry that is finished stays so.
LEMMA FinishedGrows ==
    ASSUME NEW e \in Entry, Finished(e), kind' = kind, dead \subseteq dead',
           stranded \subseteq stranded', applied[e] \in Nat, applied'[e] \in Nat,
           applied'[e] >= applied[e], dispatched[e] \in Nat, dispatched'[e] \in Nat,
           dispatched'[e] >= dispatched[e], ended[e] > 0 => ended'[e] = ended[e],
           \A p \in 1..Pages : /\ sent[e][p] \in Nat /\ sent'[e][p] \in Nat
                               /\ sent'[e][p] >= sent[e][p]
    PROVE  Finished(e)'
<1>1. applied[e] > 0 => applied'[e] > 0
    OBVIOUS
<1>2. dispatched[e] > 0 => dispatched'[e] > 0
    OBVIOUS
<1>3. \A p \in 1..Pages : sent[e][p] > 0 => sent'[e][p] > 0
    OBVIOUS
<1> QED BY <1>1, <1>2, <1>3 DEF Finished

\* What the emissions and dead letters say stays said while they grow, and while nobody
\* else works on the batch.
LEMMA ProgressGrows ==
    ASSUME NEW a \in Activity, Local(a, kind),
           dispatched \in [Entry -> Nat], slips \in [Entry -> Nat],
           slips' \in [Entry -> Nat], sent \in [Entry -> [1..Pages -> Nat]],
           Progress(a, kind, dispatched, slips, sent, ended, dead, stranded),
           dead \subseteq dead', stranded \subseteq stranded',
           \A e \in Entry : slips'[e] >= slips[e],
           kind \notin Atomic /\ Past(a) =>
               \A e \in a.batch : /\ dispatched'[e] = dispatched[e] /\ sent'[e] = sent[e]
                                  /\ ended'[e] = ended[e]
    PROVE  Progress(a, kind, dispatched', slips', sent', ended', dead', stranded')
<1>1. a.batch \subseteq Entry
    BY DEF Activity
<1>2. ASSUME NEW e \in a.batch
      PROVE  /\ slips[e] \in Nat /\ slips'[e] \in Nat /\ slips'[e] >= slips[e] /\ dispatched[e] \in Nat
             /\ \A p \in 1..Pages : sent[e][p] \in Nat
    BY <1>1
<1>3. a.pc \in {"select", "send"} => kind = "decrement"
    BY DEF Local, OnPath
<1>4. ASSUME \/ kind = "cascade" /\ a.pc \in {"apply", "ack", "amortize", "dispatch"}
             \/ kind = "orphan" /\ a.pc = "dispatch",
             NEW e \in a.batch
      PROVE  dispatched'[e] <= slips'[e]
  <2>1. dispatched[e] <= slips[e] /\ dispatched'[e] = dispatched[e]
      BY <1>4 DEF Progress, Past, Atomic
  <2> QED BY <1>2, <2>1
<1>5. ASSUME kind = "orphan", a.pc = "ack", NEW e \in a.batch
      PROVE  dispatched'[e] > 0 \/ e \in stranded'
    BY <1>5 DEF Progress, Past, Atomic
<1>6. ASSUME a.pc = "select", NEW e \in a.batch, NEW p \in 1..Pages
      PROVE  /\ (ended'[e] = 0 /\ p <= a.page) \/ p < ended'[e] => sent'[e][p] > 0
             /\ p > a.page => sent'[e][p] <= slips'[e]
  <2>1. /\ sent'[e] = sent[e] /\ ended'[e] = ended[e]
        /\ (ended[e] = 0 /\ p <= a.page) \/ p < ended[e] => sent[e][p] > 0
        /\ p > a.page => sent[e][p] <= slips[e]
      BY <1>3, <1>6 DEF Progress, Past, Atomic
  <2> QED BY <1>2, <2>1
<1>7. ASSUME a.pc = "send", NEW e \in a.batch, NEW p \in 1..Pages
      PROVE  /\ (ended'[e] = 0 /\ p < a.page) \/ p < ended'[e] => sent'[e][p] > 0
             /\ p >= a.page => sent'[e][p] <= slips'[e]
  <2>1. /\ sent'[e] = sent[e] /\ ended'[e] = ended[e]
        /\ (ended[e] = 0 /\ p < a.page) \/ p < ended[e] => sent[e][p] > 0
        /\ p >= a.page => sent[e][p] <= slips[e]
      BY <1>3, <1>7 DEF Progress, Past, Atomic
  <2> QED BY <1>2, <2>1
<1>8. ASSUME kind = "decrement", a.pc = "ack", NEW e \in a.batch
      PROVE  ended'[e] > 0 /\ \A p \in 1..Pages : p < ended'[e] => sent'[e][p] > 0
    BY <1>8 DEF Progress, Past, Atomic
<1>9. kind \in {"associate", "create"} /\ a.pc = "commit" => a.batch \ a.reported \subseteq dead'
    BY DEF Progress
<1> QED BY <1>4, <1>5, <1>6, <1>7, <1>8, <1>9 DEF Progress

\* The types, as the steps need them.
LEMMA Types ==
    ASSUME IInv
    PROVE  /\ worker \in [Worker -> Activity]
           /\ \A w \in Worker : /\ worker[w] \in Activity /\ worker[w].batch \subseteq Entry
                                /\ Local(worker[w], kind)
                                /\ Progress(worker[w], kind, dispatched, slips, sent, ended, dead, stranded)
           /\ applied \in [Entry -> Nat] /\ effects \in [Entry -> Nat]
           /\ dispatched \in [Entry -> Nat] /\ slips \in [Entry -> Nat]
           /\ sent \in [Entry -> [1..Pages -> Nat]]
    BY DEF IInv, TypeOK, AllSound, Activity

\* The first empty page of an entry is found once, by the consumer that has its batch.
EndedGrows(w) ==
    /\ ended' \in [Entry -> 0..(Pages + MaxRetries)]
    /\ \A e \in Entry : ended[e] > 0 \/ e \notin worker[w].batch \/ ~Past(worker[w])
                         => ended'[e] = ended[e]

LEMMA EndedKept ==
    ASSUME IInv, NEW w \in Worker, ended' = ended
    PROVE  EndedGrows(w)
    BY DEF EndedGrows, IInv, TypeOK

\* A step leaves the queues within what was delivered.
Queues == /\ deliveries' \in [Entry -> 0..MaxDeliveries] /\ ready' \in [Entry -> 0..MaxDeliveries]
          /\ \A e \in Entry : ready'[e] <= deliveries'[e]

LEMMA QueuesKept ==
    ASSUME IInv, UNCHANGED delivery
    PROVE  Queues
    BY DEF Queues, Queued, delivery, IInv, TypeOK

\* A step of one consumer that commits nothing to the database.
LEMMA StepIInv ==
    ASSUME IInv, NEW w \in Worker, NEW a \in Activity, worker' = [worker EXCEPT ![w] = a],
           UNCHANGED <<fixed, database>>,
           Queues,
           effects' \in [Entry -> Nat], dispatched' \in [Entry -> Nat], slips' \in [Entry -> Nat],
           sent' \in [Entry -> [1..Pages -> Nat]], EndedGrows(w),
           dead' \subseteq Entry, stranded' \subseteq Entry, interrupted' \subseteq Entry,
           faults' \in 0..MaxFaults,
           dead \subseteq dead', stranded \subseteq stranded', interrupted \subseteq interrupted',
           \A e \in Entry : /\ slips'[e] >= slips[e] /\ dispatched'[e] >= dispatched[e]
                            /\ \A p \in 1..Pages : sent'[e][p] >= sent[e][p],
           Local(a, kind), Progress(a, kind, dispatched', slips', sent', ended', dead', stranded'),
           a.held \subseteq worker[w].held,
           kind \notin Atomic /\ Past(a) => Past(worker[w]) /\ a.batch \subseteq worker[w].batch,
           kind \notin Atomic =>
               \A e \in Entry : e \notin worker[w].batch \/ ~Past(worker[w])
                                => dispatched'[e] = dispatched[e] /\ sent'[e] = sent[e],
           kind \notin Atomic /\ worker[w].pc # "dedup" =>
               \A e \in worker[w].batch : \/ a.pc # "dedup" /\ e \in a.batch
                                          \/ e \in interrupted' \/ Finished(e)',
           \A e \in Entry :
               /\ Covers(effects[e], slips[e], effects'[e], slips'[e], worker[w], a, e, AfterEmit)
               /\ Covers(dispatched[e], slips[e], dispatched'[e], slips'[e], worker[w], a, e, {"commit"})
               /\ \A p \in 1..Pages : sent'[e][p] <= slips'[e] + 1
    PROVE  IInv'
<1>1. /\ worker' \in [Worker -> Activity]
      /\ \A v \in Worker : worker'[v] = IF v = w THEN a ELSE worker[v]
    BY Types
<1>2. UNCHANGED <<kind, bad, seen, applied, unrecorded>>
    BY DEF fixed, database
<1>3. TypeOK'
  <2>1. \A u, v \in Worker : u # v => worker'[u].held \cap worker'[v].held = {}
      BY <1>1 DEF IInv, TypeOK
  <2>2. \A v \in Worker : worker'[v].held \cap seen = {}
      BY <1>1 DEF IInv, TypeOK
  <2> QED BY <1>1, <1>2, <2>1, <2>2 DEF IInv, TypeOK, EndedGrows, Queues
<1>4. AllSound'
  <2>1. ASSUME NEW v \in Worker, v # w
        PROVE  Progress(worker[v], kind, dispatched', slips', sent', ended', dead', stranded')
    <3>1. kind \notin Atomic /\ Past(worker[v]) =>
              \A e \in worker[v].batch : /\ dispatched'[e] = dispatched[e] /\ sent'[e] = sent[e]
                                         /\ ended'[e] = ended[e]
        BY <2>1, Types DEF IInv, Apart, EndedGrows
    <3>2. /\ worker[v] \in Activity /\ Local(worker[v], kind)
          /\ Progress(worker[v], kind, dispatched, slips, sent, ended, dead, stranded)
          /\ dispatched \in [Entry -> Nat] /\ slips \in [Entry -> Nat]
          /\ sent \in [Entry -> [1..Pages -> Nat]]
        BY Types
    <3> QED BY <3>1, <3>2, ProgressGrows
  <2>2. \A v \in Worker : /\ Local(worker'[v], kind)
                          /\ Progress(worker'[v], kind, dispatched', slips', sent', ended', dead', stranded')
      BY <1>1, <2>1, Types
  <2> QED BY <1>2, <2>2 DEF AllSound
<1>5. Apart'
  <2> SUFFICES ASSUME kind \notin Atomic
               PROVE  /\ \A v \in Worker : Past(worker'[v]) =>
                            \A e \in worker'[v].batch : e \in seen /\ applied[e] = 0
                      /\ \A u, v \in Worker : u # v /\ Past(worker'[u]) /\ Past(worker'[v])
                                              => worker'[u].batch \cap worker'[v].batch = {}
                      /\ \A e \in Entry : \/ applied[e] > 0 \/ dispatched'[e] > 0 \/ ended'[e] > 0
                                          \/ \E p \in 1..Pages : sent'[e][p] > 0
                                          => e \in seen
      BY <1>2 DEF Apart, Past
  <2>1. \A v \in Worker : Past(worker'[v]) =>
            Past(worker[v]) /\ worker'[v].batch \subseteq worker[v].batch
      BY <1>1
  <2>2. ASSUME NEW e \in Entry, \/ applied[e] > 0 \/ dispatched'[e] > 0 \/ ended'[e] > 0
                                \/ \E p \in 1..Pages : sent'[e][p] > 0
        PROVE  e \in seen
    <3>1. CASE e \in worker[w].batch /\ Past(worker[w])
        BY <3>1 DEF IInv, Apart
    <3>2. CASE ~(e \in worker[w].batch /\ Past(worker[w]))
        BY <2>2, <3>2 DEF IInv, Apart, EndedGrows
    <3> QED BY <3>1, <3>2
  <2> QED BY <2>1, <2>2 DEF IInv, Apart
<1>6. AppliedRecorded' /\ AppliedOnce'
    BY <1>2 DEF IInv, AppliedRecorded, AppliedOnce
<1>7. NothingLost'
  <2> SUFFICES ASSUME NEW e \in seen
               PROVE  Finished(e)' \/ (kind \notin Atomic /\ (Busy(e)' \/ e \in interrupted'))
      BY <1>2 DEF NothingLost
  <2>1. e \in Entry
      BY DEF IInv, TypeOK
  <2>2. CASE Finished(e)
    <3>1. /\ applied[e] \in Nat /\ applied'[e] \in Nat /\ applied'[e] >= applied[e]
          /\ dispatched[e] \in Nat /\ dispatched'[e] \in Nat
        BY <1>2, <2>1, Types
    <3>2. dispatched'[e] >= dispatched[e]
        BY <2>1
    <3>3. ASSUME NEW p \in 1..Pages
          PROVE  sent[e][p] \in Nat /\ sent'[e][p] \in Nat /\ sent'[e][p] >= sent[e][p]
        BY <2>1, Types
    <3>4. ended[e] > 0 => ended'[e] = ended[e]
        BY <2>1 DEF EndedGrows
    <3> QED BY <1>2, <2>1, <2>2, <3>1, <3>2, <3>3, <3>4, FinishedGrows
  <2>3. CASE kind \notin Atomic /\ Busy(e)
    <3>1. PICK v \in Worker : e \in worker[v].batch /\ worker[v].pc # "dedup"
        BY <2>3 DEF Busy, At
    <3>2. CASE v = w
        BY <1>1, <2>3, <3>1, <3>2 DEF Busy, At
    <3>3. CASE v # w
        BY <1>1, <2>3, <3>1, <3>3 DEF Busy, At
    <3> QED BY <3>2, <3>3
  <2> QED BY <2>2, <2>3 DEF IInv, NothingLost
<1>8. Counted'
  <2> SUFFICES ASSUME NEW e \in Entry
               PROVE  /\ Emitted(effects'[e], slips'[e], e, AfterEmit, worker', seen)
                      /\ Emitted(dispatched'[e], slips'[e], e, {"commit"}, worker', seen)
                      /\ \A p \in 1..Pages : sent'[e][p] <= slips'[e] + 1
      BY <1>2 DEF Counted, Emitted, Standing, AfterEmit
  <2>1. /\ effects[e] \in Nat /\ effects'[e] \in Nat /\ dispatched[e] \in Nat
        /\ dispatched'[e] \in Nat /\ slips[e] \in Nat /\ slips'[e] \in Nat
      BY Types
  <2>2. /\ Emitted(effects[e], slips[e], e, AfterEmit, worker, seen)
        /\ Emitted(dispatched[e], slips[e], e, {"commit"}, worker, seen)
      BY DEF IInv, Counted
  <2>3. /\ Covers(effects[e], slips[e], effects'[e], slips'[e], worker[w], a, e, AfterEmit)
        /\ Covers(dispatched[e], slips[e], dispatched'[e], slips'[e], worker[w], a, e, {"commit"})
      OBVIOUS
  <2>4. PICK f, g : f = effects' /\ g = dispatched'
      OBVIOUS
  <2>5. f \in [Entry -> Nat] /\ g \in [Entry -> Nat]
      BY <2>4
  <2>6. Emitted(f[e], slips'[e], e, AfterEmit, worker', seen)
      BY <1>1, <2>2, <2>3, <2>4, <2>5, Types, EmittedKept
  <2>7. Emitted(g[e], slips'[e], e, {"commit"}, worker', seen)
      BY <1>1, <2>2, <2>3, <2>4, <2>5, Types, EmittedKept
  <2>8. \A p \in 1..Pages : sent'[e][p] <= slips'[e] + 1
      OBVIOUS
  <2> QED BY <2>4, <2>6, <2>7, <2>8
<1>9. Queued'
    BY DEF Queues, Queued
<1> QED BY <1>3, <1>4, <1>5, <1>6, <1>7, <1>8, <1>9 DEF IInv

\* A step that emits nothing either: the consumer keeps what it holds, or its slips grow.
LEMMA QuietIInv ==
    ASSUME IInv, NEW w \in Worker, NEW a \in Activity, worker' = [worker EXCEPT ![w] = a],
           UNCHANGED <<fixed, database, effects, dispatched, sent>>, EndedGrows(w),
           Queues,
           slips' \in [Entry -> Nat], \A e \in Entry : slips'[e] >= slips[e],
           dead' \subseteq Entry, stranded' \subseteq Entry, interrupted' \subseteq Entry,
           faults' \in 0..MaxFaults,
           dead \subseteq dead', stranded \subseteq stranded', interrupted \subseteq interrupted',
           Local(a, kind), Progress(a, kind, dispatched, slips', sent, ended', dead', stranded'),
           a.held \subseteq worker[w].held,
           kind \notin Atomic /\ Past(a) => Past(worker[w]) /\ a.batch \subseteq worker[w].batch,
           kind \notin Atomic /\ worker[w].pc # "dedup" =>
               \A e \in worker[w].batch : \/ a.pc # "dedup" /\ e \in a.batch
                                          \/ e \in interrupted' \/ Finished(e)',
           \A e \in worker[w].held :
               worker[w].sown /\ worker[w].pc \in AfterEmit =>
                   \/ slips'[e] >= slips[e] + 1
                   \/ /\ e \in a.held /\ a.sown /\ a.pc \in AfterEmit
                      /\ worker[w].pc = "commit" => a.pc = "commit"
    PROVE  IInv'
<1>1. dispatched' = dispatched /\ sent' = sent /\ effects' = effects
    OBVIOUS
<1>2. ASSUME NEW e \in Entry
      PROVE  /\ Covers(effects[e], slips[e], effects[e], slips'[e], worker[w], a, e, AfterEmit)
             /\ Covers(dispatched[e], slips[e], dispatched[e], slips'[e], worker[w], a, e, {"commit"})
             /\ \A p \in 1..Pages : sent[e][p] <= slips'[e] + 1
  <2>1. /\ effects[e] \in Nat /\ dispatched[e] \in Nat /\ slips[e] \in Nat /\ slips'[e] \in Nat
        /\ \A p \in 1..Pages : sent[e][p] \in Nat
        /\ slips'[e] >= slips[e]
      BY Types
  <2>2. /\ effects[e] <= slips[e] + 1 /\ dispatched[e] <= slips[e] + 1
        /\ \A p \in 1..Pages : sent[e][p] <= slips[e] + 1
      BY DEF IInv, Counted, Emitted
  <2>3. CASE slips'[e] >= slips[e] + 1
    <3>1. effects[e] <= slips'[e] /\ dispatched[e] <= slips'[e]
          /\ \A p \in 1..Pages : sent[e][p] <= slips'[e] + 1
        BY <2>1, <2>2, <2>3
    <3> QED BY <3>1 DEF Covers
  <2>4. CASE ~(slips'[e] >= slips[e] + 1)
    <3>1. Standing(worker[w], e, AfterEmit) => Standing(a, e, AfterEmit)
        BY <2>4 DEF Standing
    <3>2. Standing(worker[w], e, {"commit"}) => Standing(a, e, {"commit"})
        BY <2>4 DEF Standing, AfterEmit
    <3>3. /\ effects[e] + slips[e] <= effects[e] + slips'[e]
          /\ dispatched[e] + slips[e] <= dispatched[e] + slips'[e]
          /\ \A p \in 1..Pages : sent[e][p] <= slips'[e] + 1
        BY <2>1, <2>2
    <3> QED BY <3>1, <3>2, <3>3 DEF Covers
  <2> QED BY <2>3, <2>4
<1>3. ASSUME NEW e \in Entry
      PROVE  /\ dispatched[e] >= dispatched[e]
             /\ \A p \in 1..Pages : sent[e][p] >= sent[e][p]
  <2>1. dispatched[e] \in Nat /\ \A p \in 1..Pages : sent[e][p] \in Nat
      BY Types
  <2> QED BY <2>1
<1>4. /\ effects \in [Entry -> Nat] /\ dispatched \in [Entry -> Nat]
      /\ sent \in [Entry -> [1..Pages -> Nat]]
    BY Types
<1> QED BY <1>1, <1>2, <1>3, <1>4, StepIInv, ZenonT(60)

(***************************************************************************)
(* Steps that emit nothing                                                 *)
(***************************************************************************)

LEMMA RestFacts ==
    ASSUME NEW D, NEW L, NEW P, NEW N, NEW B, NEW S
    PROVE  /\ Rest \in Activity /\ Rest.pc = "idle" /\ Rest.batch = {} /\ Rest.held = {}
           /\ Rest.done = {} /\ Rest.reported = {} /\ Rest.tries = 0 /\ Rest.page = 0
           /\ Rest.sown = FALSE /\ Rest.failed = FALSE
           /\ Local(Rest, kind) /\ Progress(Rest, kind, D, L, P, N, B, S)
<1>1. /\ 0 \in 0..MaxRetries /\ 0 \in 0..(Pages + MaxRetries) /\ 0 < MaxRetries
    BY BoundsAssumption
<1>0. None \in [Entry -> 0..MaxDeliveries]
    BY BoundsAssumption DEF None
<1>2. /\ Rest \in Activity /\ Rest.pc = "idle" /\ Rest.batch = {} /\ Rest.held = {}
      /\ Rest.done = {} /\ Rest.reported = {} /\ Rest.tries = 0 /\ Rest.page = 0
      /\ Rest.sown = FALSE /\ Rest.failed = FALSE
    BY <1>0, <1>1 DEF Rest, Activity
<1>3. Local(Rest, kind)
    BY <1>1, <1>2 DEF Local, OnPath
<1>4. Progress(Rest, kind, D, L, P, N, B, S)
    BY <1>2 DEF Progress
<1> QED BY <1>2, <1>3, <1>4

\* The slips after a consumer died, which has or has not emitted.
LEMMA BumpFacts ==
    ASSUME NEW f \in [Entry -> Nat], NEW S
    PROVE  /\ Bump(f, S) \in [Entry -> Nat]
           /\ \A e \in Entry : /\ Bump(f, S)[e] = IF e \in S THEN f[e] + 1 ELSE f[e]
                               /\ Bump(f, S)[e] >= f[e] /\ f[e] \in Nat /\ Bump(f, S)[e] \in Nat
    BY DEF Bump

LEMMA BumpByFacts ==
    ASSUME NEW f \in [Entry -> Nat], NEW S, NEW n, \A e \in Entry \cap S : n[e] \in Nat
    PROVE  /\ BumpBy(f, S, n) \in [Entry -> Nat]
           /\ \A e \in Entry : /\ BumpBy(f, S, n)[e] = IF e \in S THEN f[e] + n[e] ELSE f[e]
                               /\ BumpBy(f, S, n)[e] >= f[e] /\ f[e] \in Nat
                               /\ BumpBy(f, S, n)[e] \in Nat
    BY DEF BumpBy

\* A consumer that ends has finished its batch, or has not touched it, or is interrupted.
LEMMA RestIInv ==
    ASSUME IInv, NEW w \in Worker, worker' = [worker EXCEPT ![w] = Rest],
           UNCHANGED <<fixed, delivery, database, effects, dispatched, sent, ended>>,
           slips' \in [Entry -> Nat], \A e \in Entry : slips'[e] >= slips[e],
           dead' \subseteq Entry, stranded' = stranded, interrupted' \subseteq Entry,
           faults' \in 0..MaxFaults, dead \subseteq dead', interrupted \subseteq interrupted',
           kind \notin Atomic /\ worker[w].pc # "dedup" =>
               \A e \in worker[w].batch : e \in interrupted' \/ Finished(e)',
           \A e \in worker[w].held :
               worker[w].sown /\ worker[w].pc \in AfterEmit => slips'[e] >= slips[e] + 1
    PROVE  IInv'
<1>1. /\ Rest \in Activity /\ Rest.held = {} /\ ~Past(Rest) /\ Local(Rest, kind)
      /\ Progress(Rest, kind, dispatched, slips', sent, ended', dead', stranded')
      /\ EndedGrows(w)
    BY RestFacts, EndedKept DEF Past
<1>2. /\ Queues
      /\ stranded' \subseteq Entry
    BY QueuesKept DEF IInv, TypeOK
<1> QED BY <1>1, <1>2, QuietIInv, ZenonT(60)

LEMMA PerishIInv ==
    ASSUME IInv, NEW w \in Worker, Perish(w),
           UNCHANGED <<fixed, delivery, database, effects, dispatched, sent, ended, stranded>>,
           dead' \subseteq Entry, dead \subseteq dead', faults' \in 0..MaxFaults
    PROVE  IInv'
<1> DEFINE b == worker[w]
<1>1. b.batch \subseteq Entry /\ b.held \subseteq b.batch /\ slips \in [Entry -> Nat]
    BY Types DEF Local
<1>2. /\ worker' = [worker EXCEPT ![w] = Rest]
      /\ slips' = IF b.sown THEN Bump(slips, b.batch) ELSE slips
      /\ interrupted' = IF kind \in Atomic \/ b.pc = "dedup" THEN interrupted
                        ELSE interrupted \cup b.batch
    BY DEF Perish, End, At
<1>3. /\ slips' \in [Entry -> Nat]
      /\ \A e \in Entry : slips'[e] >= slips[e]
      /\ b.sown => \A e \in b.held : slips'[e] >= slips[e] + 1
    BY <1>1, <1>2, BumpFacts
<1>4. interrupted' \subseteq Entry /\ interrupted \subseteq interrupted'
    BY <1>1, <1>2 DEF IInv, TypeOK
<1>5. kind \notin Atomic /\ b.pc # "dedup" => \A e \in b.batch : e \in interrupted'
    BY <1>2
<1> QED BY <1>2, <1>3, <1>4, <1>5, RestIInv, ZenonT(60)

Pcs == {"idle", "dedup", "apply", "emit", "amortize", "bury", "rest", "dispatch", "ack",
        "select", "send", "commit"}

LEMMA GotoFacts ==
    ASSUME NEW b \in Activity, NEW pc \in Pcs
    PROVE  LET a == [b EXCEPT !.pc = pc, !.tries = 0]
           IN  /\ a \in Activity /\ a.pc = pc /\ a.tries = 0 /\ a.batch = b.batch
               /\ a.held = b.held /\ a.done = b.done /\ a.copies = b.copies
               /\ a.reported = b.reported
               /\ a.page = b.page /\ a.failed = b.failed /\ a.sown = b.sown
<1>1. 0 \in 0..MaxRetries
    BY BoundsAssumption
<1> QED BY <1>1 DEF Activity, Pcs

\* A consumer goes on, and dead letters may be added.
LEMMA GotoIInv ==
    ASSUME IInv, NEW w \in Worker, NEW pc \in Pcs, Goto(w, pc),
           UNCHANGED <<fixed, delivery, database, emission, interrupted>>,
           dead' \subseteq Entry, stranded' \subseteq Entry, faults' \in 0..MaxFaults,
           dead \subseteq dead', stranded \subseteq stranded',
           Past(worker[w]), pc \notin {"idle", "dedup"},
           \A a \in Activity :
               /\ a.pc = pc /\ a.tries = 0 /\ a.batch = worker[w].batch
               /\ a.held = worker[w].held /\ a.done = worker[w].done
               /\ a.reported = worker[w].reported /\ a.page = worker[w].page
               /\ a.copies = worker[w].copies
               => Local(a, kind) /\ Progress(a, kind, dispatched, slips, sent, ended, dead', stranded'),
           worker[w].pc \in AfterEmit =>
               \/ pc \in AfterEmit /\ (worker[w].pc = "commit" => pc = "commit")
               \/ kind \notin Atomic
    PROVE  IInv'
<1> DEFINE b == worker[w]
<1>1. b \in Activity /\ (kind \notin Atomic => b.held = {})
    BY Types DEF Local
<1>2. PICK a : a = [b EXCEPT !.pc = pc, !.tries = 0]
    OBVIOUS
<1>3. /\ a \in Activity /\ a.pc = pc /\ a.tries = 0 /\ a.batch = b.batch
      /\ a.held = b.held /\ a.done = b.done /\ a.copies = b.copies /\ a.reported = b.reported
      /\ a.page = b.page /\ a.sown = b.sown
    BY <1>1, <1>2, GotoFacts
<1>4. worker' = [worker EXCEPT ![w] = a]
    BY <1>2 DEF Goto
<1>5. /\ Local(a, kind) /\ Progress(a, kind, dispatched, slips, sent, ended', dead', stranded')
      /\ EndedGrows(w)
    BY <1>3, EndedKept DEF emission
<1>6. /\ UNCHANGED <<fixed, database, effects, dispatched, sent, ended>> /\ slips' = slips
      /\ slips \in [Entry -> Nat] /\ interrupted' = interrupted /\ interrupted \subseteq Entry
      /\ Queues
    BY QueuesKept DEF emission, IInv, TypeOK
<1>7. \A e \in Entry : slips'[e] >= slips[e]
    BY <1>6
<1> HIDE DEF b
<1> QED BY <1>1, <1>3, <1>4, <1>5, <1>6, <1>7, QuietIInv, ZenonT(60) DEF b

\* Deliver, Redeliver: the consumers are left alone.
LEMMA DeliveryIInv ==
    ASSUME IInv, NEW e \in Entry, Deliver(e) \/ Redeliver(e)
    PROVE  IInv'
<1>1. /\ UNCHANGED <<fixed, database, emission, dead, stranded, interrupted, faults, worker>>
      /\ ready' = [ready EXCEPT ![e] = @ + 1]
    BY DEF Deliver, Redeliver
<1>2. /\ deliveries \in [Entry -> 0..MaxDeliveries] /\ ready \in [Entry -> 0..MaxDeliveries]
      /\ deliveries[e] \in Nat /\ ready[e] \in Nat /\ ready[e] <= deliveries[e]
      /\ MaxDeliveries \in Nat \ {0}
    BY BoundsAssumption DEF IInv, TypeOK, Queued
<1>3. deliveries' = [deliveries EXCEPT ![e] = @ + 1] /\ deliveries[e] < MaxDeliveries
    BY <1>2 DEF Deliver, Redeliver
<1>4. /\ deliveries' \in [Entry -> 0..MaxDeliveries]
      /\ ready' \in [Entry -> 0..MaxDeliveries]
  <2>1. deliveries[e] + 1 \in 0..MaxDeliveries /\ ready[e] + 1 \in 0..MaxDeliveries
      BY <1>2, <1>3
  <2> QED BY <1>1, <1>2, <1>3, <2>1
<1>5. \A f \in Entry : ready'[f] <= deliveries'[f]
    BY <1>1, <1>2, <1>3 DEF IInv, Queued
<1>6. TypeOK' /\ Queued'
    BY <1>1, <1>4, <1>5 DEF IInv, TypeOK, Queued, fixed, database, emission
<1>7. (AllSound /\ Apart)'
    BY <1>1 DEF IInv, AllSound, Local, OnPath, Progress, Apart, Past, fixed, database, emission
<1>8. (AppliedRecorded /\ AppliedOnce /\ NothingLost /\ Counted)'
    BY <1>1 DEF IInv, AppliedRecorded, AppliedOnce, NothingLost, Finished, Busy, At, Counted,
       Emitted, Standing, fixed, database, emission
<1> QED BY <1>6, <1>7, <1>8 DEF IInv

\* Take: a fresh batch.
LEMMA TakeIInv ==
    ASSUME IInv, NEW w \in Worker, Take(w)
    PROVE  IInv'
<1>1. PICK c \in [Entry -> 0..MaxDeliveries], B \in SUBSET Entry :
          /\ B = {e \in Entry : c[e] > 0}
          /\ \A e \in Entry : c[e] <= ready[e]
          /\ ready' = [e \in Entry |-> ready[e] - c[e]]
          /\ worker' = [worker EXCEPT ![w] = [Rest EXCEPT !.batch = B, !.copies = c,
                !.pc = IF kind \in Downstream /\ B \subseteq bad THEN "bury" ELSE "dedup"]]
    BY DEF Take
<1>2. PICK pc \in {"bury", "dedup"} :
          pc = IF kind \in Downstream /\ B \subseteq bad THEN "bury" ELSE "dedup"
    OBVIOUS
<1>3. PICK a : a = [Rest EXCEPT !.batch = B, !.copies = c, !.pc = pc]
    OBVIOUS
<1>4. /\ worker[w].pc = "idle" /\ worker[w].batch = {} /\ worker[w].held = {}
      /\ UNCHANGED <<fixed, deliveries, database, emission, dead, stranded, interrupted, faults>>
    BY Types DEF Take, At, Local
<1>5. Queues
  <2>1. /\ deliveries' = deliveries /\ deliveries \in [Entry -> 0..MaxDeliveries]
        /\ ready \in [Entry -> 0..MaxDeliveries] /\ \A e \in Entry : ready[e] <= deliveries[e]
        /\ MaxDeliveries \in Nat
      BY <1>4, BoundsAssumption DEF IInv, TypeOK, Queued
  <2>2. ASSUME NEW e \in Entry
        PROVE  ready[e] - c[e] \in 0..MaxDeliveries /\ ready[e] - c[e] <= deliveries[e]
    <3>1. /\ ready[e] \in 0..MaxDeliveries /\ c[e] \in 0..MaxDeliveries /\ c[e] <= ready[e]
          /\ deliveries[e] \in 0..MaxDeliveries /\ ready[e] <= deliveries[e]
        BY <1>1, <2>1
    <3> QED BY <2>1, <3>1
  <2> QED BY <1>1, <2>1, <2>2 DEF Queues
<1>6. /\ a \in Activity /\ a.pc = pc /\ a.batch = B /\ a.copies = c /\ a.held = {} /\ a.done = {}
      /\ a.reported = {} /\ a.tries = 0 /\ a.page = 0
  <2>1. 0 \in 0..MaxRetries /\ 0 \in 0..(Pages + MaxRetries)
      BY BoundsAssumption
  <2> QED BY <1>1, <1>3, <2>1 DEF Rest, Activity
<1>7. worker' = [worker EXCEPT ![w] = a]
    BY <1>1, <1>2, <1>3
<1>8. 0 < MaxRetries /\ \A e \in B : c[e] \in Nat \ {0}
    BY <1>1, BoundsAssumption
<1>9. Local(a, kind) /\ ~Past(a)
    BY <1>6, <1>8 DEF Local, OnPath, Past
<1>10. /\ UNCHANGED <<fixed, database, effects, dispatched, sent>> /\ slips' = slips
       /\ slips \in [Entry -> Nat] /\ dead' = dead /\ stranded' = stranded
       /\ interrupted' = interrupted /\ dead \subseteq Entry /\ stranded \subseteq Entry
       /\ interrupted \subseteq Entry /\ faults' \in 0..MaxFaults /\ EndedGrows(w)
    BY <1>4, EndedKept DEF emission, IInv, TypeOK
<1>11. \A e \in Entry : slips'[e] >= slips[e]
    BY <1>10
<1>12. Progress(a, kind, dispatched, slips', sent, ended', dead', stranded')
    BY <1>6 DEF Progress
<1> QED BY <1>4, <1>5, <1>6, <1>7, <1>9, <1>10, <1>11, <1>12, QuietIInv, ZenonT(60)

\* What is the case at a step of a consumer.
LEMMA Doing ==
    ASSUME IInv, NEW w \in Worker, NEW pc, At(w, pc)
    PROVE  /\ worker[w] \in Activity /\ worker[w].pc = pc /\ worker[w].batch \subseteq Entry
           /\ Local(worker[w], kind)
           /\ Progress(worker[w], kind, dispatched, slips, sent, ended, dead, stranded)
    BY Types DEF At

\* Apply: the statements of the work are executed.
LEMMA ApplyIInv ==
    ASSUME IInv, NEW w \in Worker, Apply(w)
    PROVE  IInv'
<1> DEFINE b == worker[w]
           pc == IF kind = "cascade" THEN "ack" ELSE "emit"
<1>1. /\ b \in Activity /\ b.pc = "apply" /\ b.batch \subseteq Entry
      /\ Local(b, kind) /\ Progress(b, kind, dispatched, slips, sent, ended, dead, stranded)
      /\ UNCHANGED <<fixed, delivery, database, emission, dead, stranded, interrupted, faults>>
    BY Doing DEF Apply
<1>0. PICK done \in Writes(w, b.batch) :
          worker' = [worker EXCEPT
             ![w].done = done, ![w].reported = @ \cup Reported(done), ![w].tries = 0, ![w].pc = pc]
    BY DEF Apply
<1>2. PICK a : a = [b EXCEPT !.done = done, !.reported = @ \cup Reported(done), !.tries = 0, !.pc = pc]
    OBVIOUS
<1>3. worker' = [worker EXCEPT ![w] = a]
    BY <1>0, <1>2
<1>4. /\ done \subseteq b.batch /\ Reported(done) \subseteq done
      /\ kind \in {"delete", "cascade"} => done = b.batch
      /\ kind = "create" => Reported(done) = {}
      /\ kind \in {"orphan", "decrement"} => kind \notin Atomic \cup {"cascade"}
    BY DEF Writes, Insertable, Reported, Atomic
<1>5. b.reported \subseteq Entry /\ 0 \in 0..MaxRetries /\ 0 < MaxRetries
    BY <1>1, BoundsAssumption DEF Activity
<1>6. /\ a \in Activity /\ a.pc = pc /\ a.tries = 0 /\ a.batch = b.batch /\ a.held = b.held
      /\ a.done = done /\ a.copies = b.copies /\ a.reported = b.reported \cup Reported(done)
      /\ a.sown = b.sown
    BY <1>1, <1>2, <1>4, <1>5 DEF Activity
<1>7. /\ OnPath(kind, "apply") /\ (kind \notin Atomic => b.held = {}) /\ b.held \subseteq b.batch
      /\ b.held # {} => b.held = b.batch /\ b.reported = {}
      /\ kind = "create" => b.reported = {}
      /\ \A e \in b.batch : b.copies[e] \in Nat \ {0}
    BY <1>1 DEF Local
<1>8. Local(a, kind)
  <2>1. OnPath(kind, pc) /\ pc \in {"ack", "emit"} /\ kind \notin {"orphan", "decrement"}
      BY <1>7 DEF OnPath, Atomic
  <2>2. a.held # {} => a.reported \subseteq a.done
      BY <1>4, <1>6, <1>7
  <2> HIDE DEF b, pc
  <2> QED BY <1>4, <1>5, <1>6, <1>7, <2>1, <2>2 DEF Local
<1>9. Progress(a, kind, dispatched, slips, sent, ended, dead, stranded)
    BY <1>1, <1>6, <1>7 DEF Progress, OnPath, Atomic
<1>10. Past(b) /\ a.pc # "dedup" /\ b.pc \notin AfterEmit
    BY <1>1, <1>6 DEF Past, AfterEmit
<1>11. /\ UNCHANGED <<fixed, database, effects, dispatched, sent, ended>> /\ slips' = slips
       /\ slips \in [Entry -> Nat] /\ dead' = dead /\ stranded' = stranded
       /\ interrupted' = interrupted /\ dead \subseteq Entry /\ stranded \subseteq Entry
       /\ interrupted \subseteq Entry /\ faults' \in 0..MaxFaults
       /\ Queues /\ EndedGrows(w)
    BY <1>1, QueuesKept, EndedKept DEF emission, IInv, TypeOK
<1>12. \A e \in Entry : slips'[e] >= slips[e]
    BY <1>11
<1> HIDE DEF b, pc
<1> QED BY <1>3, <1>6, <1>8, <1>9, <1>10, <1>11, <1>12, QuietIInv, ZenonT(60) DEF b

\* ApplyFail: the record of the deduplication is rolled back too.
LEMMA ApplyFailIInv ==
    ASSUME IInv, NEW w \in Worker, ApplyFail(w)
    PROVE  IInv'
<1> DEFINE b == worker[w]
<1>1. /\ b \in Activity /\ b.pc = "apply" /\ b.batch \subseteq Entry
      /\ Local(b, kind) /\ Progress(b, kind, dispatched, slips, sent, ended, dead, stranded)
      /\ UNCHANGED <<fixed, delivery, database, emission, dead, stranded, interrupted>>
    BY Doing DEF ApplyFail
<1>2. PICK ids \in SUBSET Reported(Insertable(b.batch)), again \in BOOLEAN :
          /\ again => b.tries + 1 < MaxRetries
          /\ worker' = [worker EXCEPT
                ![w].held = {}, ![w].done = {}, ![w].reported = @ \cup ids,
                ![w].tries = IF again THEN @ + 1 ELSE 0, ![w].pc = IF again THEN "apply" ELSE "bury"]
    BY DEF ApplyFail
<1>3. PICK n, pc : /\ n = (IF again THEN b.tries + 1 ELSE 0)
                   /\ pc = (IF again THEN "apply" ELSE "bury")
    OBVIOUS
<1>4. PICK a : a = [b EXCEPT !.held = {}, !.done = {}, !.reported = @ \cup ids, !.tries = n, !.pc = pc]
    OBVIOUS
<1>5. worker' = [worker EXCEPT ![w] = a]
    BY <1>2, <1>3, <1>4
<1>6. n \in 0..MaxRetries /\ n < MaxRetries
  <2>1. b.tries \in Nat /\ MaxRetries \in Nat \ {0}
      BY <1>1, BoundsAssumption DEF Activity
  <2> QED BY <1>2, <1>3, <2>1
<1>7. /\ b.reported \subseteq Entry /\ ids \subseteq Entry
      /\ kind = "create" => ids = {}
    BY <1>1, <1>2 DEF Activity, Reported, Insertable
<1>8. pc \in {"apply", "bury"}
    BY <1>3
<1>9. /\ a \in Activity /\ a.pc = pc /\ a.tries = n /\ a.batch = b.batch /\ a.held = {}
      /\ a.done = {} /\ a.sown = b.sown /\ a.copies = b.copies /\ a.reported = b.reported \cup ids
    BY <1>1, <1>4, <1>6, <1>7, <1>8 DEF Activity
<1>10. Local(a, kind)
    BY <1>1, <1>6, <1>7, <1>8, <1>9 DEF Local, OnPath
<1>11. Progress(a, kind, dispatched, slips, sent, ended, dead, stranded)
    BY <1>1, <1>8, <1>9 DEF Progress
<1>12. Past(b) /\ a.pc # "dedup" /\ b.pc \notin AfterEmit
    BY <1>1, <1>8, <1>9 DEF Past, AfterEmit
<1>13. /\ UNCHANGED <<fixed, database, effects, dispatched, sent, ended>> /\ slips' = slips
       /\ slips \in [Entry -> Nat] /\ dead' = dead /\ stranded' = stranded
       /\ interrupted' = interrupted /\ dead \subseteq Entry /\ stranded \subseteq Entry
       /\ interrupted \subseteq Entry /\ faults' \in 0..MaxFaults
       /\ Queues /\ EndedGrows(w)
  <2>1. faults' \in 0..MaxFaults
    <3>1. faults \in 0..MaxFaults /\ MaxFaults \in Nat
        BY BoundsAssumption DEF IInv, TypeOK
    <3>2. faults' = faults \/ (faults < MaxFaults /\ faults' = faults + 1)
        BY DEF ApplyFail, Fault
    <3> QED BY <3>1, <3>2
  <2> QED BY <1>1, <2>1, QueuesKept, EndedKept DEF emission, IInv, TypeOK
<1>14. \A e \in Entry : slips'[e] >= slips[e]
    BY <1>13
<1> HIDE DEF b
<1> QED BY <1>5, <1>9, <1>10, <1>11, <1>12, <1>13, <1>14, QuietIInv, ZenonT(60) DEF b

\* A step that fails, or does not.
LEMMA Faults ==
    ASSUME IInv, Fault \/ UNCHANGED faults
    PROVE  faults' \in 0..MaxFaults
<1>1. faults \in 0..MaxFaults /\ MaxFaults \in Nat
    BY BoundsAssumption DEF IInv, TypeOK
<1>2. faults' = faults \/ (faults < MaxFaults /\ faults' = faults + 1)
    BY DEF Fault
<1> QED BY <1>1, <1>2

\* The consumer a, after a step of b that changes where it is and whether it has emitted.
Follows(a, b, pc, n, sown) ==
    /\ a.pc = pc /\ a.tries = n /\ a.sown = sown /\ a.batch = b.batch /\ a.held = b.held
    /\ a.done = b.done /\ a.copies = b.copies /\ a.reported = b.reported /\ a.page = b.page

\* Where downstream events that were not added lead.
LEMMA UndeliveredShape ==
    ASSUME IInv, NEW w \in Worker, At(w, "dispatch"), NEW x \in BOOLEAN,
           Undelivered(w, x)
    PROVE  \E a \in Activity, pc \in {"dispatch", "ack", "commit", "bury"} :
              /\ worker' = [worker EXCEPT ![w] = a] /\ Follows(a, worker[w], pc, 0, x)
              /\ \/ pc = AfterDispatch /\ stranded' = stranded \cup worker[w].batch
                 \/ /\ kind = "orphan" /\ pc \in {"dispatch", "bury"}
                    /\ stranded' \in {stranded, stranded \cup worker[w].batch}
<1> DEFINE b == worker[w]
<1>1. b \in Activity /\ 0 \in 0..MaxRetries /\ MaxRetries \in Nat
    BY Types, BoundsAssumption
<1>2. PICK c : c = [b EXCEPT !.sown = x, !.tries = 0]
    OBVIOUS
<1>3. /\ c \in Activity /\ c.rounds \in 0..MaxRetries
      /\ \A pc : Follows([c EXCEPT !.pc = pc], b, pc, 0, x)
      /\ \A pc \in Pcs : [c EXCEPT !.pc = pc] \in Activity
      /\ c.pc = b.pc /\ \A r : Follows([c EXCEPT !.rounds = r], b, b.pc, 0, x)
      /\ \A r \in 0..MaxRetries : [c EXCEPT !.rounds = r] \in Activity
    BY <1>1, <1>2 DEF Activity, Follows, Pcs
<1> HIDE DEF b
<1>4. CASE /\ worker' = [worker EXCEPT ![w] = [c EXCEPT !.pc = AfterDispatch]]
           /\ stranded' = stranded \cup b.batch
  <2>1. PICK pc \in {"ack", "commit"} : pc = AfterDispatch
      BY DEF AfterDispatch
  <2> QED BY <1>3, <1>4, <2>1 DEF b, Pcs
<1>5. CASE /\ kind = "orphan" /\ At(w, "dispatch") /\ c.rounds + 1 < MaxRetries
           /\ worker' = [worker EXCEPT ![w] = [c EXCEPT !.rounds = @ + 1]]
           /\ stranded' \in {stranded, stranded \cup b.batch}
  <2>1. PICK r \in 0..MaxRetries : r = c.rounds + 1
      BY <1>1, <1>3, <1>5
  <2>2. PICK a : a = [c EXCEPT !.rounds = r]
      OBVIOUS
  <2>3. worker' = [worker EXCEPT ![w] = a] /\ b.pc = "dispatch"
      BY <1>5, <2>1, <2>2 DEF b, At
  <2>4. a \in Activity /\ Follows(a, b, "dispatch", 0, x)
      BY <1>3, <2>1, <2>2, <2>3
  <2> QED BY <1>5, <2>3, <2>4 DEF b
<1>6. CASE /\ kind = "orphan" /\ worker' = [worker EXCEPT ![w] = [c EXCEPT !.pc = "bury"]]
           /\ stranded' \in {stranded, stranded \cup b.batch}
    BY <1>3, <1>6 DEF b, Pcs
<1> QED BY <1>2, <1>4, <1>5, <1>6 DEF Undelivered, b

\* EmitFail, SendFail and DispatchFail: on to the dead letters, or past them.
LEMMA FailIInv ==
    ASSUME IInv, NEW w \in Worker, EmitFail(w) \/ SendFail(w) \/ DispatchFail(w)
    PROVE  IInv'
<1> DEFINE b == worker[w]
<1>1. /\ Local(b, kind) /\ Progress(b, kind, dispatched, slips, sent, ended, dead, stranded)
      /\ b \in Activity /\ b.batch \subseteq Entry /\ 0 < MaxRetries
    BY Types, BoundsAssumption
<1>2. /\ faults' \in 0..MaxFaults /\ dead \subseteq Entry /\ stranded \subseteq Entry
      /\ UNCHANGED <<fixed, delivery, database, emission, dead, interrupted>>
    BY Faults DEF EmitFail, SendFail, DispatchFail, IInv, TypeOK
<1>3. CASE EmitFail(w)
  <2>1. b.pc \in {"emit", "ack"} /\ Goto(w, "amortize") /\ stranded' = stranded /\ Past(b)
      BY <1>3 DEF EmitFail, At, Past
  <2>2. ASSUME NEW a \in Activity,
               a.pc = "amortize" /\ a.tries = 0 /\ a.batch = b.batch /\ a.held = b.held
               /\ a.done = b.done /\ a.copies = b.copies /\ a.reported = b.reported /\ a.page = b.page
        PROVE  Local(a, kind) /\ Progress(a, kind, dispatched, slips, sent, ended, dead, stranded)
    <3>1. Local(a, kind)
        BY <1>1, <2>1, <2>2 DEF Local, OnPath, Atomic
    <3>2. Progress(a, kind, dispatched, slips, sent, ended, dead, stranded)
        BY <1>1, <2>1, <2>2 DEF Progress, Local, OnPath, Atomic
    <3> QED BY <3>1, <3>2
  <2>3. b.pc \notin AfterEmit
      BY <2>1 DEF AfterEmit
  <2> HIDE DEF b
  <2> QED BY <1>2, <2>1, <2>2, <2>3, GotoIInv DEF b, Pcs
<1>4. CASE SendFail(w)
  <2>1. b.pc = "send" /\ Goto(w, "bury") /\ stranded' = stranded /\ Past(b)
      BY <1>4 DEF SendFail, At, Past
  <2>2. kind = "decrement" /\ kind \notin Atomic
      BY <1>1, <2>1 DEF Local, OnPath, Atomic
  <2>3. ASSUME NEW a \in Activity,
               a.pc = "bury" /\ a.tries = 0 /\ a.batch = b.batch /\ a.held = b.held
               /\ a.done = b.done /\ a.copies = b.copies /\ a.reported = b.reported /\ a.page = b.page
        PROVE  Local(a, kind) /\ Progress(a, kind, dispatched, slips, sent, ended, dead, stranded)
      BY <1>1, <2>1, <2>2, <2>3 DEF Local, OnPath, Progress
  <2> HIDE DEF b
  <2> QED BY <1>2, <2>1, <2>2, <2>3, GotoIInv DEF b, Pcs
<1>5. CASE DispatchFail(w)
  <2>1. b.pc = "dispatch" /\ Past(b) /\ b.sown \in BOOLEAN
      BY <1>1, <1>5 DEF DispatchFail, At, Past, Activity
  <2>2. PICK a \in Activity, pc \in {"dispatch", "ack", "commit", "bury"} :
            /\ worker' = [worker EXCEPT ![w] = a] /\ Follows(a, b, pc, 0, b.sown)
            /\ \/ pc = AfterDispatch /\ stranded' = stranded \cup b.batch
               \/ /\ kind = "orphan" /\ pc \in {"dispatch", "bury"}
                  /\ stranded' \in {stranded, stranded \cup b.batch}
      BY <1>5, <2>1, UndeliveredShape DEF DispatchFail
  <2>3. /\ a.pc = pc /\ a.tries = 0 /\ a.sown = b.sown /\ a.batch = b.batch /\ a.held = b.held
        /\ a.done = b.done /\ a.copies = b.copies /\ a.reported = b.reported /\ a.page = b.page
      BY <2>2 DEF Follows
  <2>4. PICK T : T = stranded'
      OBVIOUS
  <2>5. /\ T \subseteq Entry /\ stranded \subseteq T
        /\ pc = "ack" => kind = "orphan" /\ T = stranded \cup b.batch
        /\ pc \in {"dispatch", "bury"} => kind = "orphan" /\ kind \notin Atomic
        /\ pc = "commit" => kind # "orphan"
      BY <1>1, <1>2, <2>2, <2>4 DEF AfterDispatch, Atomic
  <2> HIDE DEF b
  <2>6. Local(a, kind)
      BY <1>1, <2>1, <2>3, <2>5 DEF Local, OnPath, Atomic
  <2>7. Progress(a, kind, dispatched, slips, sent, ended, dead, T)
    <3>1. kind \in {"delete", "orphan", "cascade"} /\ pc \in {"dispatch", "ack", "commit", "bury"}
        BY <1>1, <2>1 DEF Local, OnPath
    <3>2. kind = "orphan" => \A e \in b.batch : dispatched[e] <= slips[e]
        BY <1>1, <2>1 DEF Progress
    <3> QED BY <2>3, <2>5, <3>1, <3>2 DEF Progress
  <2>8. \A e \in b.held : a.pc \in AfterEmit /\ (b.pc = "commit" => a.pc = "commit")
    <3>1. ASSUME NEW e \in b.held PROVE pc = "commit"
      <4>1. kind \in Atomic
          BY <1>1, <3>1 DEF Local
      <4> QED BY <2>2, <2>5, <4>1 DEF Atomic
    <3> QED BY <2>1, <2>3, <3>1 DEF AfterEmit
  <2>9. /\ UNCHANGED <<fixed, database, effects, dispatched, sent, ended>> /\ slips' = slips
        /\ slips \in [Entry -> Nat] /\ dead' = dead /\ interrupted' = interrupted
        /\ interrupted \subseteq Entry /\ Queues /\ EndedGrows(w)
      BY <1>2, QueuesKept, EndedKept DEF emission, IInv, TypeOK
  <2>10. /\ \A e \in Entry : slips'[e] >= slips[e]
         /\ a.pc # "dedup" /\ a.held \subseteq b.held
      BY <2>3, <2>9
  <2> QED BY <1>1, <1>2, <2>1, <2>2, <2>3, <2>4, <2>5, <2>6, <2>7, <2>8, <2>9, <2>10,
             QuietIInv, ZenonT(60) DEF b
<1> QED BY <1>3, <1>4, <1>5

\* What follows an acknowledgement, or the dead letters in its place.
LEMMA ProceedIInv ==
    ASSUME IInv, NEW w \in Worker, Proceed(w), worker[w].pc \in {"ack", "amortize"},
           UNCHANGED <<fixed, delivery, database, emission, stranded, interrupted>>,
           dead' \subseteq Entry, dead \subseteq dead', faults' \in 0..MaxFaults,
           worker[w].pc = "ack" \/ worker[w].batch \subseteq dead'
    PROVE  IInv'
<1> DEFINE b == worker[w]
<1>1. /\ Local(b, kind) /\ Progress(b, kind, dispatched, slips, sent, ended, dead, stranded)
      /\ b \in Activity /\ b.batch \subseteq Entry
    BY Types
<1>4. /\ 0 < MaxRetries
      /\ slips \in [Entry -> Nat] /\ stranded \subseteq Entry /\ interrupted \subseteq Entry
      /\ Past(b) /\ b.pc \notin AfterEmit
  <2>1. Past(b) /\ b.pc \notin AfterEmit
      BY DEF Past, AfterEmit
  <2>2. stranded \subseteq Entry /\ interrupted \subseteq Entry
      BY DEF IInv, TypeOK
  <2> QED BY <2>1, <2>2, BoundsAssumption, Types
<1>2. CASE kind \in {"orphan", "decrement"}
  <2>1. worker' = [worker EXCEPT ![w] = Rest]
      BY <1>2 DEF Proceed, End
  <2>2. kind \notin Atomic
      BY <1>2 DEF Atomic
  <2>3. \A e \in b.batch : Finished(e)'
    <3>1. CASE b.pc = "ack"
        BY <1>1, <1>4, <1>2, <3>1 DEF Progress, Finished, fixed, emission
    <3>2. CASE b.batch \subseteq dead'
        BY <3>2 DEF Finished
    <3> QED BY <3>1, <3>2
  <2>4. slips' = slips /\ \A e \in Entry : slips'[e] >= slips[e]
      BY <1>1, <1>4 DEF emission
  <2> HIDE DEF b
  <2> QED BY <1>1, <1>4, <2>1, <2>3, <2>4, RestIInv, ZenonT(60) DEF b, emission
<1>3. CASE kind \notin {"orphan", "decrement"}
  <2>1. PICK pc \in {"rest", "dispatch"} : /\ Goto(w, pc)
                                           /\ pc = "rest" <=> kind \in {"associate", "create"}
      BY <1>3 DEF Proceed
  <2>2. kind \in Kind
      BY DEF IInv, TypeOK
  <2>3. PICK T : T = dead'
      OBVIOUS
  <2>4. ASSUME NEW a \in Activity,
               a.pc = pc /\ a.tries = 0 /\ a.batch = b.batch /\ a.held = b.held
               /\ a.done = b.done /\ a.copies = b.copies /\ a.reported = b.reported /\ a.page = b.page
        PROVE  Local(a, kind) /\ Progress(a, kind, dispatched, slips, sent, ended, T, stranded)
    <3>1. Local(a, kind)
        BY <1>1, <1>4, <1>3, <2>1, <2>2, <2>4 DEF Local, OnPath, Kind
    <3>2. Progress(a, kind, dispatched, slips, sent, ended, T, stranded)
        BY <1>1, <1>4, <1>3, <2>1, <2>2, <2>4 DEF Progress, Kind
    <3> QED BY <3>1, <3>2
  <2>5. stranded' = stranded /\ T \subseteq Entry /\ dead \subseteq T
      BY <2>3
  <2> HIDE DEF b
  <2> QED BY <1>1, <1>4, <2>1, <2>3, <2>4, <2>5, GotoIInv DEF b, Pcs
<1> QED BY <1>2, <1>3

LEMMA AckIInv ==
    ASSUME IInv, NEW w \in Worker, Ack(w)
    PROVE  IInv'
<1>1. /\ worker[w].pc = "ack" /\ Proceed(w) /\ dead' = dead /\ dead \subseteq Entry
      /\ UNCHANGED <<fixed, delivery, database, emission, stranded, interrupted, faults>>
    BY DEF Ack, At, IInv, TypeOK
<1> QED BY <1>1, Faults, ProceedIInv

\* Amortize, DeclareDead and DeclareRestDead.  Where adding a dead letter fails the
\* consumer dies.
LEMMA BuryIInv ==
    ASSUME IInv, NEW w \in Worker, Amortize(w) \/ DeclareDead(w) \/ DeclareRestDead(w)
    PROVE  IInv'
<1> DEFINE b == worker[w]
<1>1. /\ Local(b, kind) /\ Progress(b, kind, dispatched, slips, sent, ended, dead, stranded)
      /\ b \in Activity /\ b.batch \subseteq Entry /\ 0 < MaxRetries /\ dead \subseteq Entry
      /\ UNCHANGED BuryUnchanged
    BY Types, BoundsAssumption DEF IInv, TypeOK, Amortize, DeclareDead, DeclareRestDead
<1>2. PICK S \in SUBSET b.batch :
          \/ Amortize(w) /\ S = b.batch
          \/ DeclareDead(w) /\ S = b.batch
          \/ DeclareRestDead(w) /\ S = b.batch \ b.reported
    OBVIOUS
<1>3. CASE Perish(w) /\ UNCHANGED faults /\ \E T \in SUBSET S : dead' = dead \cup T
  <2>1. dead' \subseteq Entry /\ dead \subseteq dead' /\ faults' \in 0..MaxFaults
      BY <1>1, <1>3, Faults
  <2> QED BY <1>1, <1>3, <2>1, PerishIInv DEF BuryUnchanged
<1>4. CASE dead' = dead \cup S /\ Single(w, S) /\ UNCHANGED <<slips, interrupted, faults>>
           /\ (Amortize(w) => Proceed(w)) /\ (DeclareDead(w) => End(w))
           /\ (DeclareRestDead(w) => Goto(w, "commit"))
  <2>1. /\ dead' \subseteq Entry /\ dead \subseteq dead' /\ faults' \in 0..MaxFaults
        /\ UNCHANGED <<fixed, delivery, database, emission, stranded, interrupted>>
      BY <1>1, <1>4, Faults DEF BuryUnchanged, emission
  <2>2. CASE Amortize(w) /\ S = b.batch
    <3>1. b.pc = "amortize" /\ Proceed(w) /\ b.batch \subseteq dead'
        BY <1>4, <2>2 DEF Amortize, At
    <3> QED BY <2>1, <3>1, ProceedIInv
  <2>3. CASE DeclareDead(w) /\ S = b.batch
    <3>1. /\ b.pc = "bury" /\ worker' = [worker EXCEPT ![w] = Rest]
          /\ \A e \in b.batch : Finished(e)'
        BY <1>4, <2>3 DEF DeclareDead, At, End, Finished
    <3>2. slips' = slips /\ slips \in [Entry -> Nat] /\ interrupted \subseteq Entry
          /\ b.pc \notin AfterEmit
        BY <2>1, <3>1 DEF emission, IInv, TypeOK, AfterEmit
    <3>3. \A e \in Entry : slips'[e] >= slips[e]
        BY <3>2
    <3> HIDE DEF b
    <3> QED BY <2>1, <3>1, <3>2, <3>3, RestIInv, ZenonT(60) DEF b, emission
  <2>4. CASE DeclareRestDead(w) /\ S = b.batch \ b.reported
    <3>1. b.pc = "rest" /\ Goto(w, "commit") /\ Past(b) /\ "commit" \in AfterEmit
        BY <1>4, <2>4 DEF DeclareRestDead, At, Past, AfterEmit
    <3>2. PICK T : T = dead' /\ b.batch \ b.reported \subseteq T
        BY <1>4, <2>4
    <3>3. ASSUME NEW a \in Activity,
                 a.pc = "commit" /\ a.tries = 0 /\ a.batch = b.batch /\ a.held = b.held
                 /\ a.done = b.done /\ a.copies = b.copies /\ a.reported = b.reported /\ a.page = b.page
          PROVE  Local(a, kind) /\ Progress(a, kind, dispatched, slips, sent, ended, T, stranded)
      <4>1. Local(a, kind)
          BY <1>1, <1>4, <2>4, <3>1, <3>3 DEF Local, OnPath, Single
      <4>2. Progress(a, kind, dispatched, slips, sent, ended, T, stranded)
          BY <1>1, <3>1, <3>2, <3>3 DEF Progress, Local, OnPath
      <4> QED BY <4>1, <4>2
    <3>4. stranded' = stranded /\ stranded \subseteq Entry
        BY <2>1 DEF IInv, TypeOK
    <3> HIDE DEF b
    <3> QED BY <2>1, <3>1, <3>2, <3>3, <3>4, GotoIInv DEF b, Pcs
  <2> QED BY <1>2, <2>2, <2>3, <2>4
<1> QED BY <1>2, <1>3, <1>4 DEF Amortize, DeclareDead, DeclareRestDead, Bury, Failed

LEMMA CrashIInv ==
    ASSUME IInv, NEW w \in Worker, Crash(w)
    PROVE  IInv'
    BY Faults, PerishIInv DEF Crash, IInv, TypeOK

\* The loop over the pages, wherever it goes.
LEMMA LoopIInv ==
    ASSUME IInv, NEW w \in Worker, At(w, "select"),
           NEW n \in 0..MaxRetries, NEW q \in 0..(Pages + MaxRetries), NEW f \in BOOLEAN,
           NEW pc \in {"select", "send", "ack", "bury"}, NEW N,
           worker' = [worker EXCEPT ![w] = [@ EXCEPT !.tries = n, !.page = q, !.pc = pc, !.failed = f]],
           UNCHANGED <<fixed, delivery, database, effects, dispatched, sent, slips, dead, stranded,
                       interrupted>>,
           ended' = N, EndedGrows(w), Fault \/ UNCHANGED faults,
           n < MaxRetries, pc \in {"select", "send"} => q <= Pages + n, pc = "send" => q \in 1..Pages,
           pc = "select" => \A e \in worker[w].batch, p \in 1..Pages :
                                /\ (N[e] = 0 /\ p <= q) \/ p < N[e] => sent[e][p] > 0
                                /\ p > q => sent[e][p] <= slips[e],
           pc = "send" => \A e \in worker[w].batch, p \in 1..Pages :
                                /\ (N[e] = 0 /\ p < q) \/ p < N[e] => sent[e][p] > 0
                                /\ p >= q => sent[e][p] <= slips[e],
           pc = "ack" => \A e \in worker[w].batch :
                             N[e] > 0 /\ \A p \in 1..Pages : p < N[e] => sent[e][p] > 0
    PROVE  IInv'
<1> DEFINE b == worker[w]
<1>1. /\ b \in Activity /\ b.pc = "select" /\ b.batch \subseteq Entry /\ Local(b, kind)
      /\ kind = "decrement" /\ kind \notin Atomic
    BY Doing DEF Local, OnPath, Atomic
<1>2. PICK a : a = [b EXCEPT !.tries = n, !.page = q, !.pc = pc, !.failed = f]
    OBVIOUS
<1>3. /\ a \in Activity /\ a.pc = pc /\ a.tries = n /\ a.page = q /\ a.batch = b.batch
      /\ a.held = b.held /\ a.done = b.done /\ a.copies = b.copies /\ a.reported = b.reported
    BY <1>1, <1>2 DEF Activity
<1>4. worker' = [worker EXCEPT ![w] = a]
    BY <1>2
<1>5. Local(a, kind)
    BY <1>1, <1>3 DEF Local, OnPath, Atomic
<1>6. Progress(a, kind, dispatched, slips, sent, N, dead, stranded)
  <2> HIDE DEF b
  <2>1. a.pc = pc /\ a.batch = b.batch /\ a.page = q
      BY <1>3
  <2> QED BY <1>1, <2>1 DEF Progress, b
<1>7. Past(b) /\ a.pc # "dedup" /\ b.pc \notin AfterEmit
    BY <1>1, <1>3 DEF Past, AfterEmit
<1>8. /\ UNCHANGED <<fixed, database, effects, dispatched, sent>> /\ slips' = slips
      /\ slips \in [Entry -> Nat] /\ dead' = dead /\ stranded' = stranded
      /\ interrupted' = interrupted /\ dead \subseteq Entry /\ stranded \subseteq Entry
      /\ interrupted \subseteq Entry /\ faults' \in 0..MaxFaults
      /\ Queues
    BY Faults, QueuesKept DEF IInv, TypeOK
<1>9. \A e \in Entry : slips'[e] >= slips[e]
    BY <1>8
<1>10. Progress(a, kind, dispatched, slips', sent, ended', dead', stranded')
    BY <1>6, <1>8
<1> HIDE DEF b
<1> QED BY <1>1, <1>3, <1>4, <1>5, <1>7, <1>8, <1>9, <1>10, QuietIInv, ZenonT(60) DEF b

\* Select: pages up to the first empty one are sent, also when the offset is behind it.
LEMMA SelectIInv ==
    ASSUME IInv, NEW w \in Worker, Select(w)
    PROVE  IInv'
<1> DEFINE b == worker[w]
<1>1. /\ b \in Activity /\ b.pc = "select" /\ At(w, "select") /\ Local(b, kind)
      /\ Progress(b, kind, dispatched, slips, sent, ended, dead, stranded)
      /\ UNCHANGED <<fixed, delivery, database, effects, dispatched, sent, slips, dead, stranded,
                     interrupted, faults>>
    BY Doing DEF Select
<1>2. /\ b.tries \in Nat /\ b.page \in Nat /\ MaxRetries \in Nat \ {0} /\ Pages \in Nat \ {0}
      /\ b.tries < MaxRetries /\ b.page <= Pages + b.tries /\ b.failed \in BOOLEAN
    BY <1>1, BoundsAssumption DEF Activity, Local
<1>3. \A e \in b.batch, p \in 1..Pages :
          /\ (ended[e] = 0 /\ p <= b.page) \/ p < ended[e] => sent[e][p] > 0
          /\ p > b.page => sent[e][p] <= slips[e]
    BY <1>1 DEF Progress
<1>4. CASE /\ b.page < Pages /\ ended' = ended
           /\ worker' = [worker EXCEPT ![w] = [b EXCEPT !.page = @ + 1, !.pc = "send"]]
  <2>1. worker' = [worker EXCEPT ![w] = [@ EXCEPT !.tries = b.tries, !.page = b.page + 1,
                                                  !.pc = "send", !.failed = b.failed]]
    <3>1. [b EXCEPT !.page = @ + 1, !.pc = "send"]
          = [b EXCEPT !.tries = b.tries, !.page = b.page + 1, !.pc = "send", !.failed = b.failed]
        BY <1>1 DEF Activity
    <3> QED BY <1>4, <3>1
  <2>2. /\ b.page + 1 \in 0..(Pages + MaxRetries) /\ b.tries \in 0..MaxRetries
        /\ b.page + 1 <= Pages + b.tries /\ b.page + 1 \in 1..Pages
      BY <1>2, <1>4
  <2>3. \A e \in b.batch, p \in 1..Pages :
            /\ (ended[e] = 0 /\ p < b.page + 1) \/ p < ended[e] => sent[e][p] > 0
            /\ p >= b.page + 1 => sent[e][p] <= slips[e]
      BY <1>2, <1>3
  <2>4. PICK n, q, f : n = b.tries /\ q = b.page + 1 /\ f = b.failed
      OBVIOUS
  <2>5. /\ n \in 0..MaxRetries /\ q \in 0..(Pages + MaxRetries) /\ f \in BOOLEAN
        /\ worker' = [worker EXCEPT ![w] = [@ EXCEPT !.tries = n, !.page = q, !.pc = "send", !.failed = f]]
        /\ n < MaxRetries /\ q <= Pages + n /\ q \in 1..Pages
        /\ \A e \in b.batch, p \in 1..Pages :
              /\ (ended[e] = 0 /\ p < q) \/ p < ended[e] => sent[e][p] > 0
              /\ p >= q => sent[e][p] <= slips[e]
      BY <1>2, <2>1, <2>2, <2>3, <2>4
  <2>6. EndedGrows(w)
      BY <1>4, EndedKept
  <2>7. PICK N, pc : N = ended /\ pc = "send"
      OBVIOUS
  <2>8. /\ pc \in {"select", "send", "ack", "bury"} /\ pc # "select" /\ pc # "ack" /\ ended' = N
        /\ worker' = [worker EXCEPT ![w] = [@ EXCEPT !.tries = n, !.page = q, !.pc = pc, !.failed = f]]
        /\ \A e \in b.batch, p \in 1..Pages :
              /\ (N[e] = 0 /\ p < q) \/ p < N[e] => sent[e][p] > 0
              /\ p >= q => sent[e][p] <= slips[e]
      BY <1>4, <2>5, <2>7
  <2>9. /\ n \in 0..MaxRetries /\ q \in 0..(Pages + MaxRetries) /\ f \in BOOLEAN
        /\ n < MaxRetries /\ q <= Pages + n /\ q \in 1..Pages
      BY <2>5
  <2>10. /\ At(w, "select") /\ (Fault \/ UNCHANGED faults)
         /\ UNCHANGED <<fixed, delivery, database, effects, dispatched, sent, slips, dead, stranded,
                        interrupted>>
      BY <1>1
  <2> HIDE DEF b
  <2> QED BY <2>6, <2>8, <2>9, <2>10, LoopIInv, ZenonT(60) DEF b
<1>5. CASE /\ ended' = [e \in Entry |-> IF e \in b.batch /\ ended[e] = 0 THEN b.page + 1 ELSE ended[e]]
           /\ worker' = [worker EXCEPT ![w] =
                 [b EXCEPT !.tries = IF b.tries + 1 = MaxRetries THEN 0 ELSE @ + 1, !.page = Offset(w),
                           !.pc = IF ~(b.tries + 1 = MaxRetries) THEN "select"
                                  ELSE IF b.failed THEN "bury" ELSE "ack"]]
  <2>1. PICK last \in BOOLEAN : last <=> b.tries + 1 = MaxRetries
      OBVIOUS
  <2>2. PICK n, pc : /\ n = IF last THEN 0 ELSE b.tries + 1
                     /\ pc = IF ~last THEN "select" ELSE IF b.failed THEN "bury" ELSE "ack"
      OBVIOUS
  <2>3. worker' = [worker EXCEPT ![w] = [@ EXCEPT !.tries = n, !.page = b.page + 1,
                                                  !.pc = pc, !.failed = b.failed]]
    <3>1. [b EXCEPT !.tries = n, !.page = b.page + 1, !.pc = pc]
          = [b EXCEPT !.tries = n, !.page = b.page + 1, !.pc = pc, !.failed = b.failed]
        BY <1>1 DEF Activity
    <3>2. worker' = [worker EXCEPT ![w] = [b EXCEPT !.tries = n, !.page = b.page + 1, !.pc = pc]]
        BY <1>5, <2>1, <2>2 DEF Offset
    <3> QED BY <3>1, <3>2
  <2>4. /\ b.page + 1 \in 0..(Pages + MaxRetries) /\ n \in 0..MaxRetries /\ n < MaxRetries
        /\ pc = "select" => b.page + 1 <= Pages + n
      BY <1>2, <2>1, <2>2
  <2>5. PICK N : N = ended'
      OBVIOUS
  <2>6. N \in [Entry -> 0..(Pages + MaxRetries)]
    <3>1. ended \in [Entry -> 0..(Pages + MaxRetries)]
        BY DEF IInv, TypeOK
    <3> QED BY <1>5, <2>4, <2>5, <3>1
  <2>7. ASSUME NEW e \in b.batch
        PROVE  /\ N[e] > 0
               /\ \A p \in 1..Pages : /\ p < N[e] => sent[e][p] > 0
                                      /\ p > b.page + 1 => sent[e][p] <= slips[e]
    <3>1. e \in Entry /\ ended[e] \in Nat
        BY <1>1 DEF IInv, TypeOK, Activity
    <3>2. N[e] = IF ended[e] = 0 THEN b.page + 1 ELSE ended[e]
        BY <1>5, <2>5, <2>7, <3>1
    <3>3. ASSUME NEW p \in 1..Pages
          PROVE  /\ p < N[e] => sent[e][p] > 0
                 /\ p > b.page + 1 => sent[e][p] <= slips[e]
      <4>1. /\ (ended[e] = 0 /\ p <= b.page) \/ p < ended[e] => sent[e][p] > 0
            /\ p > b.page => sent[e][p] <= slips[e]
          BY <1>3, <2>7
      <4> HIDE DEF b
      <4> QED BY <1>2, <3>1, <3>2, <4>1
    <3> HIDE DEF b
    <3> QED BY <1>2, <3>1, <3>2, <3>3
  <2>8. EndedGrows(w)
    <3>1. ASSUME NEW e \in Entry, ended[e] > 0 \/ e \notin b.batch \/ ~Past(b)
          PROVE  ended'[e] = ended[e]
      <4>1. Past(b)
          BY <1>1 DEF Past
      <4>2. ended[e] > 0 => ended[e] # 0
          BY DEF IInv, TypeOK
      <4> QED BY <1>5, <3>1, <4>1, <4>2
    <3> QED BY <2>5, <2>6, <3>1 DEF EndedGrows
  <2>9. pc \in {"select", "ack", "bury"}
      BY <2>2
  <2>10. PICK q, f : q = b.page + 1 /\ f = b.failed
      OBVIOUS
  <2>11. /\ q \in 0..(Pages + MaxRetries) /\ f \in BOOLEAN
         /\ worker' = [worker EXCEPT ![w] = [@ EXCEPT !.tries = n, !.page = q, !.pc = pc, !.failed = f]]
         /\ pc = "select" => q <= Pages + n
         /\ \A e \in b.batch, p \in 1..Pages : p > q => sent[e][p] <= slips[e]
      BY <1>2, <2>3, <2>4, <2>7, <2>10
  <2>12. /\ pc = "select" => \A e \in b.batch, p \in 1..Pages :
                                /\ (N[e] = 0 /\ p <= q) \/ p < N[e] => sent[e][p] > 0
                                /\ p > q => sent[e][p] <= slips[e]
         /\ \A e \in b.batch : N[e] > 0 /\ \A p \in 1..Pages : p < N[e] => sent[e][p] > 0
    <3>1. \A e \in b.batch : N[e] # 0
        BY <2>7
    <3> HIDE DEF b
    <3> QED BY <2>7, <2>11, <3>1
  <2> HIDE DEF b
  <2> QED BY <1>1, <2>4, <2>5, <2>8, <2>9, <2>11, <2>12, LoopIInv DEF b
<1> QED BY <1>4, <1>5 DEF Select

LEMMA SelectFailIInv ==
    ASSUME IInv, NEW w \in Worker, SelectFail(w)
    PROVE  IInv'
<1> DEFINE b == worker[w]
<1>1. /\ b \in Activity /\ b.pc = "select" /\ At(w, "select") /\ Local(b, kind) /\ Fault
      /\ Progress(b, kind, dispatched, slips, sent, ended, dead, stranded)
      /\ UNCHANGED <<fixed, delivery, database, emission, dead, stranded, interrupted>>
    BY Doing DEF SelectFail
<1>2. PICK again \in BOOLEAN :
          /\ again => b.tries + 1 < MaxRetries
          /\ worker' = [worker EXCEPT ![w].failed = TRUE, ![w].tries = IF again THEN @ + 1 ELSE 0,
                                      ![w].pc = IF again THEN "select" ELSE "bury"]
    BY DEF SelectFail
<1>3. /\ b.tries \in Nat /\ b.page \in 0..(Pages + MaxRetries) /\ MaxRetries \in Nat \ {0}
      /\ Pages \in Nat \ {0} /\ b.page <= Pages + b.tries
    BY <1>1, BoundsAssumption DEF Activity, Local
<1>4. PICK n, pc : /\ n = IF again THEN b.tries + 1 ELSE 0
                   /\ pc = IF again THEN "select" ELSE "bury"
    OBVIOUS
<1>5. worker' = [worker EXCEPT ![w] = [@ EXCEPT !.tries = n, !.page = b.page, !.pc = pc, !.failed = TRUE]]
  <2>1. [b EXCEPT !.failed = TRUE, !.tries = n, !.pc = pc]
        = [b EXCEPT !.tries = n, !.page = b.page, !.pc = pc, !.failed = TRUE]
      BY <1>1 DEF Activity
  <2>2. worker' = [worker EXCEPT ![w] = [b EXCEPT !.failed = TRUE, !.tries = n, !.pc = pc]]
      BY <1>2, <1>4
  <2> QED BY <2>1, <2>2
<1>6. /\ n \in 0..MaxRetries /\ n < MaxRetries /\ pc \in {"select", "bury"}
      /\ pc = "select" => b.page <= Pages + n
    BY <1>2, <1>3, <1>4
<1>7. \A e \in b.batch, p \in 1..Pages :
          /\ (ended[e] = 0 /\ p <= b.page) \/ p < ended[e] => sent[e][p] > 0
          /\ p > b.page => sent[e][p] <= slips[e]
    BY <1>1 DEF Progress
<1>8. /\ EndedGrows(w) /\ ended' = ended
      /\ UNCHANGED <<fixed, delivery, database, effects, dispatched, sent, slips, dead, stranded,
                     interrupted>>
    BY <1>1, EndedKept DEF emission
<1>9. PICK N : N = ended
    OBVIOUS
<1> HIDE DEF b
<1> QED BY <1>1, <1>3, <1>5, <1>6, <1>7, <1>8, <1>9, LoopIInv DEF b

(***************************************************************************)
(* Emissions                                                               *)
(***************************************************************************)

\* Whoever holds the record of an entry is the first to emit for it.
LEMMA FirstToEmit ==
    ASSUME IInv, NEW w \in Worker, NEW e \in worker[w].held
    PROVE  /\ e \in Entry
           /\ worker[w].pc \notin AfterEmit => effects[e] <= slips[e]
           /\ worker[w].pc # "commit" => dispatched[e] <= slips[e]
<1>1. e \in Entry /\ e \notin seen /\ \A v \in Worker : v # w => e \notin worker[v].held
    BY Types DEF IInv, TypeOK, Activity
<1>2. /\ Emitted(effects[e], slips[e], e, AfterEmit, worker, seen)
      /\ Emitted(dispatched[e], slips[e], e, {"commit"}, worker, seen)
    BY <1>1 DEF IInv, Counted
<1>3. effects[e] \in Nat /\ dispatched[e] \in Nat /\ slips[e] \in Nat
    BY <1>1, Types
<1>4. ASSUME NEW R, worker[w].pc \notin R
      PROVE  ~\E v \in Worker : Standing(worker[v], e, R)
    BY <1>1, <1>4 DEF Standing
<1>5. worker[w].pc \notin AfterEmit => effects[e] <= slips[e]
    BY <1>1, <1>2, <1>3, <1>4 DEF Emitted
<1>6. worker[w].pc # "commit" => dispatched[e] <= slips[e]
    BY <1>1, <1>2, <1>3, <1>4 DEF Emitted
<1> QED BY <1>1, <1>5, <1>6

\* An emission by the consumer w, which goes on as a.
LEMMA EmissionIInv ==
    ASSUME IInv, NEW w \in Worker, NEW a \in Activity, worker' = [worker EXCEPT ![w] = a],
           a.batch = worker[w].batch, a.held = worker[w].held, a.pc # "dedup", Past(worker[w]),
           UNCHANGED <<fixed, delivery, database, sent, ended, dead, interrupted>>,
           stranded' \subseteq Entry, stranded \subseteq stranded', Fault \/ UNCHANGED faults,
           effects' \in [Entry -> Nat], dispatched' \in [Entry -> Nat], slips' \in [Entry -> Nat],
           \A e \in Entry : /\ slips'[e] >= slips[e] /\ dispatched'[e] >= dispatched[e]
                            /\ e \notin worker[w].batch => dispatched'[e] = dispatched[e],
           Local(a, kind), Progress(a, kind, dispatched', slips', sent, ended, dead, stranded'),
           \A e \in Entry :
               /\ Covers(effects[e], slips[e], effects'[e], slips'[e], worker[w], a, e, AfterEmit)
               /\ Covers(dispatched[e], slips[e], dispatched'[e], slips'[e], worker[w], a, e, {"commit"})
    PROVE  IInv'
<1>1. worker[w].pc # "dedup"
    BY DEF Past
<1>2. /\ UNCHANGED <<fixed, database>> /\ sent' = sent /\ sent \in [Entry -> [1..Pages -> Nat]]
      /\ dead' = dead /\ interrupted' = interrupted /\ dead \subseteq Entry
      /\ interrupted \subseteq Entry /\ faults' \in 0..MaxFaults
      /\ Queues /\ EndedGrows(w) /\ ended' = ended
    BY Faults, QueuesKept, EndedKept DEF IInv, TypeOK
<1>3. ASSUME NEW e \in Entry, NEW p \in 1..Pages
      PROVE  sent[e][p] >= sent[e][p] /\ sent[e][p] <= slips'[e] + 1
  <2>1. /\ sent[e][p] \in Nat /\ slips[e] \in Nat /\ slips'[e] \in Nat
        /\ sent[e][p] <= slips[e] + 1 /\ slips'[e] >= slips[e]
      BY <1>2, Types DEF IInv, Counted
  <2> QED BY <2>1
<1> QED BY <1>1, <1>2, <1>3, StepIInv, ZenonT(60)

\* Both counters grow, or neither.
LEMMA BothBump ==
    ASSUME NEW f \in [Entry -> Nat], NEW g \in [Entry -> Nat], NEW S, NEW e \in Entry, NEW n,
           \A x \in Entry \cap S : n[x] \in Nat,
           NEW a, NEW b, NEW R, Standing(b, e, R) => Standing(a, e, R)
    PROVE  Covers(f[e], g[e], BumpBy(f, S, n)[e], BumpBy(g, S, n)[e], b, a, e, R)
<1>1. /\ f[e] \in Nat /\ g[e] \in Nat
      /\ BumpBy(f, S, n)[e] = IF e \in S THEN f[e] + n[e] ELSE f[e]
      /\ BumpBy(g, S, n)[e] = IF e \in S THEN g[e] + n[e] ELSE g[e]
    BY DEF BumpBy
<1>2. e \in S => n[e] \in Nat
    OBVIOUS
<1>3. BumpBy(f, S, n)[e] + g[e] <= f[e] + BumpBy(g, S, n)[e]
    BY <1>1, <1>2
<1> QED BY <1>3 DEF Covers

\* A counter that is left alone, whatever the slips do.
LEMMA LeftAlone ==
    ASSUME NEW f \in [Entry -> Nat], NEW g \in [Entry -> Nat], NEW h \in [Entry -> Nat],
           NEW e \in Entry, h[e] >= g[e], NEW a, NEW b, NEW R,
           Standing(b, e, R) => Standing(a, e, R)
    PROVE  Covers(f[e], g[e], f[e], h[e], b, a, e, R)
<1>1. f[e] \in Nat /\ g[e] \in Nat /\ h[e] \in Nat
    OBVIOUS
<1>2. f[e] + g[e] <= f[e] + h[e]
    BY <1>1
<1> QED BY <1>2 DEF Covers

\* The one emission that is no slip: the record is in the transaction, or committed.  All
\* copies of an entry of H but one are slips.
LEMMA FirstBump ==
    ASSUME NEW f \in [Entry -> Nat], NEW g \in [Entry -> Nat], NEW S, NEW H, NEW e \in Entry,
           NEW n, NEW m, e \in S => n[e] \in Nat /\ m[e] = IF e \in H THEN n[e] - 1 ELSE n[e],
           NEW a, NEW b, NEW R, b.pc \notin R,
           e \in S \cap H => f[e] <= g[e] /\ (e \in seen \/ Standing(a, e, R))
    PROVE  Covers(f[e], g[e], BumpBy(f, S, n)[e], BumpBy(g, S, m)[e], b, a, e, R)
<1>1. /\ f[e] \in Nat /\ g[e] \in Nat
      /\ BumpBy(f, S, n)[e] = IF e \in S THEN f[e] + n[e] ELSE f[e]
      /\ BumpBy(g, S, m)[e] = IF e \in S THEN g[e] + m[e] ELSE g[e]
    BY DEF BumpBy
<1>2. CASE e \in S \cap H
  <2>1. BumpBy(f, S, n)[e] <= BumpBy(g, S, m)[e] + 1
      BY <1>1, <1>2
  <2> QED BY <1>2, <2>1 DEF Covers
<1>3. CASE e \notin S \cap H
  <2>1. BumpBy(f, S, n)[e] + g[e] <= f[e] + BumpBy(g, S, m)[e]
      BY <1>1, <1>3
  <2> QED BY <2>1 DEF Covers, Standing
<1> QED BY <1>2, <1>3

\* What an emission of the batch adds: every copy, at least one of each entry.
LEMMA SurplusFacts ==
    ASSUME IInv, NEW w \in Worker, Past(worker[w]), NEW S
    PROVE  /\ \A e \in worker[w].batch :
                 /\ e \in Entry /\ worker[w].copies[e] \in Nat \ {0} /\ Surplus(w, S)[e] \in Nat
                 /\ Surplus(w, S)[e] = IF e \in S THEN worker[w].copies[e] - 1 ELSE worker[w].copies[e]
<1>1. worker[w].batch \subseteq Entry /\ \A e \in worker[w].batch : worker[w].copies[e] \in Nat \ {0}
    BY Types DEF Local
<1> QED BY <1>1 DEF Surplus

\* Emit, EmitLost: side effects in the transaction of the deduplication.
LEMMA EmitIInv ==
    ASSUME IInv, NEW w \in Worker, Emit(w) \/ EmitLost(w)
    PROVE  IInv'
<1> DEFINE b == worker[w]
<1>1. /\ b \in Activity /\ b.pc = "emit" /\ b.batch \subseteq Entry /\ Local(b, kind)
      /\ kind \in Atomic /\ Past(b) /\ b.pc \notin AfterEmit /\ b.tries < MaxRetries
      /\ UNCHANGED <<fixed, delivery, database, dispatched, sent, ended, dead, stranded, interrupted>>
    BY Doing DEF Emit, EmitLost, Local, OnPath, Past, AfterEmit
<1>2. /\ effects \in [Entry -> Nat] /\ dispatched \in [Entry -> Nat] /\ slips \in [Entry -> Nat]
      /\ stranded \subseteq Entry /\ MaxRetries \in Nat \ {0} /\ b.tries \in Nat
  <2>1. stranded \subseteq Entry
      BY DEF IInv, TypeOK
  <2>2. b.tries \in Nat
      BY <1>1 DEF Activity
  <2> QED BY <2>1, <2>2, Types, BoundsAssumption
<1>3. PICK n \in 0..MaxRetries, pc \in {"emit", "amortize", "rest", "dispatch"},
          m \in {b.copies, Surplus(w, b.held)} :
          /\ worker' = [worker EXCEPT ![w].sown = TRUE, ![w].tries = n, ![w].pc = pc]
          /\ effects' = BumpBy(effects, b.batch, b.copies) /\ slips' = BumpBy(slips, b.batch, m)
          /\ Fault \/ UNCHANGED faults
          /\ pc # "amortize" => n < MaxRetries
          /\ pc = "rest" => kind # "delete"
          /\ pc = "dispatch" => kind = "delete"
          /\ \/ m = b.copies
             \/ m = Surplus(w, b.held) /\ pc \in AfterEmit
  <2>1. CASE Emit(w)
    <3>1. PICK pc \in {"rest", "dispatch"} : pc = IF kind = "delete" THEN "dispatch" ELSE "rest"
        OBVIOUS
    <3>2. 0 \in 0..MaxRetries /\ 0 < MaxRetries
        BY <1>2
    <3>3. worker' = [worker EXCEPT ![w].sown = TRUE, ![w].tries = 0, ![w].pc = pc]
        BY <2>1, <3>1 DEF Emit
    <3>5. pc \in AfterEmit
        BY DEF AfterEmit
    <3>6. /\ effects' = BumpBy(effects, b.batch, b.copies)
          /\ slips' = BumpBy(slips, b.batch, Surplus(w, b.held))
          /\ UNCHANGED faults
        BY <2>1 DEF Emit
    <3> QED BY <3>1, <3>2, <3>3, <3>5, <3>6
  <2>2. CASE EmitLost(w)
    <3>1. PICK pc \in {"emit", "amortize"} :
              pc = IF b.tries + 1 < MaxRetries THEN "emit" ELSE "amortize"
        OBVIOUS
    <3>2. b.tries + 1 \in 0..MaxRetries /\ (pc = "emit" => b.tries + 1 < MaxRetries)
        BY <1>1, <1>2, <3>1
    <3>3. worker' = [worker EXCEPT ![w].sown = TRUE, ![w].tries = b.tries + 1, ![w].pc = pc]
        BY <2>2, <3>1 DEF EmitLost
    <3>4. /\ effects' = BumpBy(effects, b.batch, b.copies)
          /\ slips' = BumpBy(slips, b.batch, b.copies) /\ Fault
        BY <2>2 DEF EmitLost
    <3> QED BY <1>1, <3>1, <3>2, <3>3, <3>4
  <2> QED BY <2>1, <2>2
<1>4. \A e \in b.batch : /\ e \in Entry /\ b.copies[e] \in Nat \ {0} /\ m[e] \in Nat
                         /\ m[e] = b.copies[e] \/ m = Surplus(w, b.held)
    BY <1>1, <1>3, SurplusFacts
<1>5. /\ slips' \in [Entry -> Nat] /\ effects' \in [Entry -> Nat]
      /\ \A e \in Entry : slips'[e] >= slips[e]
  <2>1. PICK S : S = b.batch
      OBVIOUS
  <2>2. (\A e \in Entry \cap S : b.copies[e] \in Nat) /\ (\A e \in Entry \cap S : m[e] \in Nat)
      BY <1>4, <2>1
  <2> HIDE DEF b
  <2> QED BY <1>2, <1>3, <2>1, <2>2, BumpByFacts DEF b
<1>6. /\ dispatched' = dispatched /\ \A e \in Entry : dispatched[e] >= dispatched[e]
      /\ stranded' = stranded
  <2>1. \A e \in Entry : dispatched[e] \in Nat
      BY <1>2
  <2> QED BY <1>1, <2>1
<1>7. PICK h : h = slips'
    OBVIOUS
<1>8. PICK a : a = [b EXCEPT !.sown = TRUE, !.tries = n, !.pc = pc]
    OBVIOUS
<1>9. a \in Activity /\ Follows(a, b, pc, n, TRUE) /\ worker' = [worker EXCEPT ![w] = a]
    BY <1>1, <1>3, <1>8 DEF Activity, Follows
<1>10. Local(a, kind)
    BY <1>1, <1>3, <1>9 DEF Local, OnPath, Atomic, Follows
<1>11. Progress(a, kind, dispatched, h, sent, ended, dead, stranded)
    BY <1>1, <1>3, <1>9 DEF Progress, Atomic, Follows
<1>12. ASSUME NEW e \in Entry
       PROVE  Covers(dispatched[e], slips[e], dispatched[e], h[e], b, a, e, {"commit"})
  <2>1. ~Standing(b, e, {"commit"})
      BY <1>1 DEF Standing
  <2>2. h \in [Entry -> Nat] /\ h[e] >= slips[e]
      BY <1>5, <1>7
  <2> QED BY <1>2, <2>1, <2>2, LeftAlone
<1>13. ASSUME NEW e \in Entry
       PROVE  Covers(effects[e], slips[e], effects'[e], h[e], b, a, e, AfterEmit)
  <2>0. ~Standing(b, e, AfterEmit)
      BY <1>1 DEF Standing
  <2>1. CASE m = b.copies
    <3>1. PICK S, c : S = b.batch /\ c = b.copies /\ \A x \in Entry \cap S : c[x] \in Nat
        BY <1>4
    <3>2. effects' = BumpBy(effects, S, c) /\ h = BumpBy(slips, S, c)
        BY <1>3, <1>7, <2>1, <3>1
    <3> HIDE DEF b
    <3> QED BY <1>2, <2>0, <3>1, <3>2, BothBump
  <2>2. CASE m = Surplus(w, b.held) /\ pc \in AfterEmit
    <3>1. e \in b.batch \cap b.held => effects[e] <= slips[e] /\ Standing(a, e, AfterEmit)
        BY <1>1, <1>9, <2>2, FirstToEmit DEF Standing, Follows
    <3>2. e \in b.batch => /\ b.copies[e] \in Nat
                           /\ m[e] = IF e \in b.held THEN b.copies[e] - 1 ELSE b.copies[e]
        BY <1>1, <2>2, SurplusFacts
    <3>3. PICK S, H, c : S = b.batch /\ H = b.held /\ c = b.copies
        OBVIOUS
    <3>4. effects' = BumpBy(effects, S, c) /\ h = BumpBy(slips, S, m)
        BY <1>3, <1>7, <3>3
    <3> HIDE DEF b
    <3> QED BY <1>1, <1>2, <3>1, <3>2, <3>3, <3>4, FirstBump
  <2> QED BY <1>3, <2>1, <2>2
<1>14. a.batch = b.batch /\ a.held = b.held /\ a.pc # "dedup"
    BY <1>3, <1>9 DEF Follows
<1>15. /\ Progress(a, kind, dispatched', slips', sent, ended, dead, stranded')
       /\ \A e \in Entry :
             /\ Covers(effects[e], slips[e], effects'[e], slips'[e], b, a, e, AfterEmit)
             /\ Covers(dispatched[e], slips[e], dispatched'[e], slips'[e], b, a, e, {"commit"})
    BY <1>6, <1>7, <1>11, <1>12, <1>13
<1>16. /\ dispatched' \in [Entry -> Nat] /\ stranded' \subseteq Entry /\ stranded \subseteq stranded'
       /\ \A e \in Entry : dispatched'[e] >= dispatched[e] /\ dispatched'[e] = dispatched[e]
    BY <1>2, <1>6
<1> HIDE DEF b
<1> QED BY <1>1, <1>3, <1>5, <1>9, <1>10, <1>14, <1>15, <1>16, EmissionIInv, ZenonT(60) DEF b

\* Dispatch, DispatchLost: downstream events.
LEMMA DispatchIInv ==
    ASSUME IInv, NEW w \in Worker, Dispatch(w) \/ DispatchLost(w)
    PROVE  IInv'
<1> DEFINE b == worker[w]
           H == IF kind = "delete" THEN b.held ELSE b.batch
<1>1. /\ b \in Activity /\ b.pc = "dispatch" /\ b.batch \subseteq Entry /\ Local(b, kind)
      /\ Progress(b, kind, dispatched, slips, sent, ended, dead, stranded)
      /\ kind \in {"delete", "orphan", "cascade"} /\ Past(b) /\ b.tries < MaxRetries
      /\ kind # "delete" => b.held = {}
      /\ At(w, "dispatch")
      /\ UNCHANGED <<fixed, delivery, database, effects, sent, ended, dead, interrupted>>
  <2>1. /\ At(w, "dispatch")
        /\ UNCHANGED <<fixed, delivery, database, effects, sent, ended, dead, interrupted>>
      BY DEF Dispatch, DispatchLost
  <2>2. /\ b \in Activity /\ b.pc = "dispatch" /\ b.batch \subseteq Entry /\ Local(b, kind)
        /\ Progress(b, kind, dispatched, slips, sent, ended, dead, stranded)
      BY <2>1, Doing
  <2> HIDE DEF b
  <2> QED BY <2>1, <2>2 DEF Local, OnPath, Past, Atomic
<1>2. /\ effects \in [Entry -> Nat] /\ dispatched \in [Entry -> Nat] /\ slips \in [Entry -> Nat]
      /\ stranded \subseteq Entry /\ MaxRetries \in Nat \ {0} /\ b.tries \in Nat
  <2>1. stranded \subseteq Entry
      BY DEF IInv, TypeOK
  <2>2. b.tries \in Nat
      BY <1>1 DEF Activity
  <2> QED BY <2>1, <2>2, Types, BoundsAssumption
<1>3. PICK a \in Activity, n \in 0..MaxRetries, pc \in {"dispatch", "ack", "commit", "bury"},
          m \in {b.copies, Surplus(w, H)} :
          /\ worker' = [worker EXCEPT ![w] = a] /\ Follows(a, b, pc, n, TRUE)
          /\ dispatched' = BumpBy(dispatched, b.batch, b.copies)
          /\ slips' = BumpBy(slips, b.batch, m)
          /\ Fault \/ UNCHANGED faults
          /\ n < MaxRetries
          /\ pc \in {"ack", "bury"} => kind = "orphan"
          /\ pc = "commit" => kind # "orphan"
          /\ \/ m = b.copies
             \/ m = Surplus(w, H) /\ pc = AfterDispatch
          /\ stranded' \subseteq Entry /\ stranded \subseteq stranded'
  <2>0. PICK last : last = AfterDispatch
      OBVIOUS
  <2>1. last \in {"ack", "commit"} /\ (last = "ack" <=> kind = "orphan")
      BY <2>0 DEF AfterDispatch
  <2>2. CASE Dispatch(w)
    <3>1. 0 \in 0..MaxRetries /\ 0 < MaxRetries
        BY <1>2
    <3>2. PICK a : a = [b EXCEPT !.sown = TRUE, !.tries = 0, !.pc = last]
        OBVIOUS
    <3>3. a \in Activity /\ Follows(a, b, last, 0, TRUE)
        BY <1>1, <2>1, <3>1, <3>2 DEF Activity, Follows
    <3>4. worker' = [worker EXCEPT ![w] = a]
        BY <2>0, <2>2, <3>2 DEF Dispatch
    <3>5. /\ dispatched' = BumpBy(dispatched, b.batch, b.copies)
          /\ UNCHANGED faults /\ stranded' = stranded
          /\ slips' = BumpBy(slips, b.batch, Surplus(w, H))
        BY <2>2 DEF Dispatch
    <3> HIDE DEF b, H
    <3> QED BY <1>2, <2>0, <2>1, <3>1, <3>3, <3>4, <3>5
  <2>3. CASE DispatchLost(w)
    <3>0. /\ dispatched' = BumpBy(dispatched, b.batch, b.copies) /\ Fault
          /\ slips' = BumpBy(slips, b.batch, b.copies)
        BY <2>3 DEF DispatchLost
    <3>1. CASE b.tries + 1 = MaxRetries
      <4>1. PICK a \in Activity, pc \in {"dispatch", "ack", "commit", "bury"} :
                /\ worker' = [worker EXCEPT ![w] = a] /\ Follows(a, b, pc, 0, TRUE)
                /\ \/ pc = AfterDispatch /\ stranded' = stranded \cup b.batch
                   \/ /\ kind = "orphan" /\ pc \in {"dispatch", "bury"}
                      /\ stranded' \in {stranded, stranded \cup b.batch}
          BY <1>1, <2>3, <3>1, UndeliveredShape DEF DispatchLost
      <4>2. /\ stranded' \subseteq Entry /\ stranded \subseteq stranded'
            /\ 0 \in 0..MaxRetries /\ 0 < MaxRetries
            /\ pc \in {"ack", "bury"} => kind = "orphan"
            /\ pc = "commit" => kind # "orphan"
          BY <1>1, <1>2, <2>0, <2>1, <4>1
      <4> HIDE DEF b, H
      <4> QED BY <3>0, <4>1, <4>2
    <3>2. CASE b.tries + 1 # MaxRetries
      <4>1. PICK n \in 0..MaxRetries : n = b.tries + 1 /\ n < MaxRetries
          BY <1>1, <1>2, <3>2
      <4>2. PICK a : a = [b EXCEPT !.sown = TRUE, !.tries = n]
          OBVIOUS
      <4>3. a \in Activity /\ Follows(a, b, "dispatch", n, TRUE)
          BY <1>1, <4>2 DEF Activity, Follows
      <4>4. worker' = [worker EXCEPT ![w] = a] /\ stranded' = stranded
          BY <2>3, <3>2, <4>1, <4>2 DEF DispatchLost
      <4> HIDE DEF b, H
      <4> QED BY <1>2, <3>0, <4>1, <4>3, <4>4
    <3> QED BY <3>1, <3>2
  <2> QED BY <2>2, <2>3
<1>4. \A e \in b.batch : /\ e \in Entry /\ b.copies[e] \in Nat \ {0} /\ m[e] \in Nat
    BY <1>1, <1>3, SurplusFacts
<1>5. /\ slips' \in [Entry -> Nat] /\ dispatched' \in [Entry -> Nat]
      /\ \A e \in Entry :
            /\ slips'[e] = (IF e \in b.batch THEN slips[e] + m[e] ELSE slips[e])
            /\ dispatched'[e] = (IF e \in b.batch THEN dispatched[e] + b.copies[e] ELSE dispatched[e])
            /\ slips'[e] >= slips[e] /\ dispatched'[e] >= dispatched[e]
            /\ e \notin b.batch => dispatched'[e] = dispatched[e]
            /\ e \in b.batch => dispatched'[e] > 0
  <2>1. PICK S, c : S = b.batch /\ c = b.copies
      OBVIOUS
  <2>2. \A e \in Entry \cap S : c[e] \in Nat /\ c[e] > 0 /\ m[e] \in Nat
      BY <1>4, <2>1
  <2>3. dispatched' = BumpBy(dispatched, S, c) /\ slips' = BumpBy(slips, S, m)
      BY <1>3, <2>1
  <2>4. dispatched' \in [Entry -> Nat] /\ \A e \in Entry :
            /\ dispatched'[e] = (IF e \in S THEN dispatched[e] + c[e] ELSE dispatched[e])
            /\ dispatched[e] \in Nat /\ dispatched'[e] >= dispatched[e]
      BY <1>2, <2>2, <2>3, BumpByFacts
  <2>5. slips' \in [Entry -> Nat] /\ \A e \in Entry :
            /\ slips'[e] >= slips[e]
            /\ slips'[e] = (IF e \in S THEN slips[e] + m[e] ELSE slips[e])
      BY <1>2, <2>2, <2>3, BumpByFacts
  <2>6. ASSUME NEW e \in S \cap Entry
        PROVE  dispatched'[e] > 0
    <3>1. dispatched'[e] = dispatched[e] + c[e] /\ dispatched[e] \in Nat /\ c[e] \in Nat /\ c[e] > 0
        BY <2>2, <2>4
    <3> QED BY <3>1
  <2> HIDE DEF b
  <2> QED BY <2>1, <2>4, <2>5, <2>6
<1>6. PICK h, D, T : h = slips' /\ D = dispatched' /\ T = stranded'
    OBVIOUS
<1>7. /\ a.pc = pc /\ a.tries = n /\ a.sown = TRUE /\ a.batch = b.batch /\ a.held = b.held
      /\ a.done = b.done /\ a.copies = b.copies /\ a.reported = b.reported /\ a.page = b.page
    BY <1>3 DEF Follows
<1>8. Local(a, kind)
  <2> HIDE DEF b
  <2> QED BY <1>1, <1>3, <1>7 DEF Local, OnPath, Atomic
<1>9. kind # "delete" => \A e \in b.batch : dispatched[e] <= slips[e] /\ e \in seen
  <2>1. kind # "delete" => kind \notin Atomic
      BY <1>1 DEF Atomic
  <2> QED BY <1>1, <2>1 DEF Progress, IInv, Apart
<1>10. Progress(a, kind, D, h, sent, ended, dead, T)
  <2>1. ASSUME pc = "dispatch", kind # "delete", NEW e \in b.batch
        PROVE  D[e] <= h[e]
    <3>1. dispatched[e] <= slips[e] /\ e \in Entry /\ dispatched[e] \in Nat /\ slips[e] \in Nat
        BY <1>1, <1>2, <1>9, <2>1
    <3>2. m[e] = b.copies[e] /\ m[e] \in Nat
        BY <1>3, <1>4, <2>1 DEF AfterDispatch
    <3>3. D[e] = dispatched[e] + b.copies[e] /\ h[e] = slips[e] + m[e]
        BY <1>5, <1>6, <2>1, <3>1
    <3> HIDE DEF b
    <3> QED BY <3>1, <3>2, <3>3
  <2>2. \A e \in b.batch : D[e] > 0
      BY <1>1, <1>5, <1>6
  <2>3. kind \notin {"associate", "create", "decrement"}
      BY <1>1
  <2> HIDE DEF b
  <2> QED BY <1>3, <1>7, <2>1, <2>2, <2>3 DEF Progress
<1>11. ASSUME NEW e \in Entry
       PROVE  Covers(effects[e], slips[e], effects[e], h[e], b, a, e, AfterEmit)
  <2>1. Standing(b, e, AfterEmit) => Standing(a, e, AfterEmit)
    <3>1. b.held # {} => pc \in AfterEmit
        BY <1>1, <1>3 DEF AfterEmit
    <3> QED BY <1>7, <3>1 DEF Standing
  <2>2. h \in [Entry -> Nat] /\ h[e] >= slips[e]
      BY <1>5, <1>6
  <2> QED BY <1>2, <2>1, <2>2, LeftAlone
<1>12. ASSUME NEW e \in Entry
       PROVE  Covers(dispatched[e], slips[e], D[e], h[e], b, a, e, {"commit"})
  <2>1. ~Standing(b, e, {"commit"}) /\ b.pc \notin {"commit"}
      BY <1>1 DEF Standing
  <2>2. PICK S, c : S = b.batch /\ c = b.copies /\ \A x \in Entry \cap S : c[x] \in Nat
      BY <1>4
  <2>3. D = BumpBy(dispatched, S, c) /\ h = BumpBy(slips, S, m)
      BY <1>3, <1>6, <2>2
  <2>4. CASE m = b.copies
    <3> HIDE DEF b
    <3> QED BY <1>2, <2>1, <2>2, <2>3, <2>4, BothBump
  <2>5. CASE m = Surplus(w, H) /\ pc = AfterDispatch
    <3>1. e \in b.batch \cap H => dispatched[e] <= slips[e] /\ (e \in seen \/ Standing(a, e, {"commit"}))
      <4>1. CASE kind = "delete"
        <5>1. pc = "commit"
            BY <2>5, <4>1 DEF AfterDispatch
        <5> QED BY <1>1, <1>7, <4>1, <5>1, FirstToEmit DEF Standing
      <4>2. CASE kind # "delete"
          BY <1>9, <4>2
      <4> QED BY <4>1, <4>2
    <3>2. e \in b.batch => /\ b.copies[e] \in Nat
                           /\ m[e] = IF e \in H THEN b.copies[e] - 1 ELSE b.copies[e]
        BY <1>1, <2>5, SurplusFacts
    <3> HIDE DEF b, H
    <3> QED BY <1>2, <2>1, <2>2, <2>3, <3>1, <3>2, FirstBump
  <2> QED BY <1>3, <2>4, <2>5
<1>13. /\ Progress(a, kind, dispatched', slips', sent, ended, dead, stranded')
       /\ \A e \in Entry :
             /\ Covers(effects[e], slips[e], effects'[e], slips'[e], b, a, e, AfterEmit)
             /\ Covers(dispatched[e], slips[e], dispatched'[e], slips'[e], b, a, e, {"commit"})
       /\ effects' \in [Entry -> Nat]
    BY <1>1, <1>2, <1>6, <1>10, <1>11, <1>12
<1>14. a.pc # "dedup"
    BY <1>3, <1>7
<1> HIDE DEF b
<1> QED BY <1>1, <1>3, <1>5, <1>7, <1>8, <1>13, <1>14, EmissionIInv, ZenonT(60) DEF b

\* Send, SendLost: a page of counters.
LEMMA SendIInv ==
    ASSUME IInv, NEW w \in Worker, Send(w) \/ SendLost(w)
    PROVE  IInv'
<1> DEFINE b == worker[w]
<1>1. /\ b \in Activity /\ b.pc = "send" /\ b.batch \subseteq Entry /\ Local(b, kind)
      /\ Progress(b, kind, dispatched, slips, sent, ended, dead, stranded) /\ Past(b)
      /\ kind = "decrement" /\ kind \notin Atomic /\ b.held = {} /\ b.page \in 1..Pages
      /\ UNCHANGED <<fixed, delivery, database, effects, dispatched, ended, dead, stranded, interrupted>>
      /\ sent' = SentPage(w)
    BY Doing DEF Send, SendLost, Local, OnPath, Past, Atomic
<1>2. /\ effects \in [Entry -> Nat] /\ dispatched \in [Entry -> Nat] /\ slips \in [Entry -> Nat]
      /\ sent \in [Entry -> [1..Pages -> Nat]] /\ Pages \in Nat \ {0}
    BY Types, BoundsAssumption
<1>3. PICK h, P : h = slips' /\ P = sent'
    OBVIOUS
<1>4. /\ P \in [Entry -> [1..Pages -> Nat]]
      /\ \A e \in Entry : e \notin b.batch => P[e] = sent[e]
      /\ \A e \in Entry, p \in 1..Pages :
            /\ P[e][p] = (IF e \in b.batch /\ p = b.page THEN sent[e][p] + 1 ELSE sent[e][p])
            /\ P[e][p] >= sent[e][p] /\ sent[e][p] \in Nat
  <2>1. P = [e \in Entry |-> IF e \in b.batch THEN [sent[e] EXCEPT ![b.page] = @ + 1] ELSE sent[e]]
      BY <1>1, <1>3 DEF SentPage
  <2>2. ASSUME NEW e \in Entry
        PROVE  /\ P[e] \in [1..Pages -> Nat]
               /\ e \notin b.batch => P[e] = sent[e]
               /\ \A p \in 1..Pages :
                     /\ P[e][p] = (IF e \in b.batch /\ p = b.page THEN sent[e][p] + 1 ELSE sent[e][p])
                     /\ P[e][p] >= sent[e][p] /\ sent[e][p] \in Nat
    <3>1. PICK r \in [1..Pages -> Nat], q \in 1..Pages : r = sent[e] /\ q = b.page
        BY <1>1, <1>2
    <3>2. CASE e \in b.batch
      <4>1. PICK r1 : r1 = [r EXCEPT ![q] = r[q] + 1]
          OBVIOUS
      <4>2. P[e] = r1
          BY <2>1, <3>1, <3>2, <4>1
      <4>3. /\ r1 \in [1..Pages -> Nat]
            /\ \A p \in 1..Pages : /\ r1[p] = (IF p = q THEN r[p] + 1 ELSE r[p])
                                   /\ r1[p] >= r[p] /\ r[p] \in Nat
          BY <4>1
      <4> HIDE DEF b
      <4> QED BY <3>1, <3>2, <4>2, <4>3
    <3>3. CASE e \notin b.batch
      <4>1. P[e] = r
          BY <2>1, <3>1, <3>3
      <4>2. \A p \in 1..Pages : r[p] >= r[p] /\ r[p] \in Nat
          OBVIOUS
      <4> HIDE DEF b
      <4> QED BY <3>1, <3>3, <4>1, <4>2
    <3> QED BY <3>2, <3>3
  <2>3. P \in [Entry -> [1..Pages -> Nat]]
    <3>1. \A e \in Entry : P[e] \in [1..Pages -> Nat]
        BY <2>2
    <3> QED BY <2>1, <3>1
  <2> QED BY <2>2, <2>3
<1>5. PICK pc \in {"select", "send"} :
          /\ worker' = [worker EXCEPT ![w] = [b EXCEPT !.pc = pc]]
          /\ \/ pc = "select" /\ h = slips
             \/ pc = "send" /\ h = Bump(slips, b.batch)
          /\ Fault \/ UNCHANGED faults
  <2>1. CASE Send(w)
      BY <1>3, <2>1 DEF Send, emission
  <2>2. CASE SendLost(w)
    <3>1. worker \in [Worker -> Activity]
        BY Types
    <3>2. worker = [worker EXCEPT ![w] = [b EXCEPT !.pc = "send"]]
      <4>1. [b EXCEPT !.pc = "send"] = b
          BY <1>1 DEF Activity
      <4> QED BY <3>1, <4>1
    <3> QED BY <1>3, <2>2, <3>2 DEF SendLost
  <2> QED BY <2>1, <2>2
<1>6. PICK a : a = [b EXCEPT !.pc = pc]
    OBVIOUS
<1>7. /\ a \in Activity /\ a.pc = pc /\ a.batch = b.batch /\ a.held = b.held /\ a.done = b.done
      /\ a.copies = b.copies /\ a.reported = b.reported /\ a.tries = b.tries /\ a.page = b.page
    BY <1>1, <1>6 DEF Activity
<1>8. /\ h \in [Entry -> Nat] /\ \A e \in Entry : h[e] >= slips[e] /\ slips[e] \in Nat
      /\ pc = "send" => \A e \in b.batch : h[e] = slips[e] + 1
  <2>1. \A e \in Entry : slips[e] \in Nat
      BY <1>2
  <2>2. CASE h = slips /\ pc = "select"
      BY <1>2, <2>1, <2>2
  <2>3. CASE h = Bump(slips, b.batch)
    <3>1. /\ h \in [Entry -> Nat]
          /\ \A e \in Entry : /\ h[e] = (IF e \in b.batch THEN slips[e] + 1 ELSE slips[e])
                              /\ h[e] >= slips[e]
      <4>1. slips \in [Entry -> Nat]
          BY <1>2
      <4>2. PICK S : S = b.batch
          OBVIOUS
      <4>3. h = Bump(slips, S)
          BY <2>3, <4>2
      <4>4. /\ h \in [Entry -> Nat]
            /\ \A e \in Entry : /\ h[e] = (IF e \in S THEN slips[e] + 1 ELSE slips[e])
                                /\ h[e] >= slips[e]
          BY <4>1, <4>3, BumpFacts
      <4> QED BY <4>2, <4>4
    <3> HIDE DEF b
    <3> QED BY <1>1, <2>1, <3>1
  <2> QED BY <1>5, <2>2, <2>3
<1>9. Local(a, kind)
    BY <1>1, <1>7 DEF Local, OnPath
<1>10. Progress(a, kind, dispatched, h, P, ended, dead, stranded)
  <2>1. \A e \in b.batch, p \in 1..Pages :
            /\ (ended[e] = 0 /\ p < b.page) \/ p < ended[e] => sent[e][p] > 0
            /\ p >= b.page => sent[e][p] <= slips[e]
      BY <1>1 DEF Progress
  <2>2. ASSUME NEW e \in b.batch, NEW p \in 1..Pages, pc = "select"
        PROVE  /\ (ended[e] = 0 /\ p <= b.page) \/ p < ended[e] => P[e][p] > 0
               /\ p > b.page => P[e][p] <= h[e]
    <3>1. e \in Entry /\ h = slips
        BY <1>1, <1>5, <2>2
    <3>2. P[e][p] = (IF p = b.page THEN sent[e][p] + 1 ELSE sent[e][p]) /\ sent[e][p] \in Nat
        BY <1>4, <3>1
    <3>3. /\ (ended[e] = 0 /\ p < b.page) \/ p < ended[e] => sent[e][p] > 0
          /\ p >= b.page => sent[e][p] <= slips[e]
        BY <2>1
    <3> HIDE DEF b
    <3> QED BY <1>1, <3>1, <3>2, <3>3
  <2>3. ASSUME NEW e \in b.batch, NEW p \in 1..Pages, pc = "send"
        PROVE  /\ (ended[e] = 0 /\ p < b.page) \/ p < ended[e] => P[e][p] > 0
               /\ p >= b.page => P[e][p] <= h[e]
    <3>1. e \in Entry /\ h[e] = slips[e] + 1 /\ slips[e] \in Nat
        BY <1>1, <1>8, <2>3
    <3>2. P[e][p] = (IF p = b.page THEN sent[e][p] + 1 ELSE sent[e][p]) /\ sent[e][p] \in Nat
        BY <1>4, <3>1
    <3>3. /\ (ended[e] = 0 /\ p < b.page) \/ p < ended[e] => sent[e][p] > 0
          /\ p >= b.page => sent[e][p] <= slips[e]
        BY <2>1
    <3> HIDE DEF b
    <3> QED BY <1>1, <3>1, <3>2, <3>3
  <2> HIDE DEF b
  <2> QED BY <1>1, <1>7, <2>2, <2>3 DEF Progress
<1>11. ASSUME NEW e \in Entry
       PROVE  /\ Covers(effects[e], slips[e], effects[e], h[e], b, a, e, AfterEmit)
              /\ Covers(dispatched[e], slips[e], dispatched[e], h[e], b, a, e, {"commit"})
              /\ \A p \in 1..Pages : P[e][p] <= h[e] + 1
  <2>1. \A R : ~Standing(b, e, R)
      BY <1>1 DEF Standing
  <2>2. h[e] >= slips[e]
      BY <1>8
  <2>3. /\ Covers(effects[e], slips[e], effects[e], h[e], b, a, e, AfterEmit)
        /\ Covers(dispatched[e], slips[e], dispatched[e], h[e], b, a, e, {"commit"})
      BY <1>2, <1>8, <2>1, <2>2, LeftAlone
  <2>4. ASSUME NEW p \in 1..Pages
        PROVE  P[e][p] <= h[e] + 1
    <3>1. sent[e][p] <= slips[e] + 1
        BY DEF IInv, Counted
    <3>2. e \in b.batch /\ p = b.page => sent[e][p] <= slips[e]
        BY <1>1 DEF Progress
    <3>3. /\ P[e][p] = (IF e \in b.batch /\ p = b.page THEN sent[e][p] + 1 ELSE sent[e][p])
          /\ sent[e][p] \in Nat /\ slips[e] \in Nat /\ h[e] \in Nat
        BY <1>4, <1>8
    <3> QED BY <2>2, <3>1, <3>2, <3>3
  <2> QED BY <2>3, <2>4
<1>12. /\ UNCHANGED <<fixed, database>> /\ effects' = effects /\ dispatched' = dispatched
       /\ dead' = dead /\ stranded' = stranded /\ interrupted' = interrupted
       /\ dead \subseteq Entry /\ stranded \subseteq Entry /\ interrupted \subseteq Entry
       /\ faults' \in 0..MaxFaults
       /\ Queues /\ EndedGrows(w) /\ ended' = ended
    BY <1>1, <1>5, Faults, QueuesKept, EndedKept DEF IInv, TypeOK
<1>13. \A e \in Entry : dispatched[e] >= dispatched[e]
  <2>1. \A e \in Entry : dispatched[e] \in Nat
      BY <1>2
  <2> QED BY <2>1
<1>14. worker' = [worker EXCEPT ![w] = a] /\ Past(a) /\ a.pc # "dedup"
    BY <1>5, <1>6, <1>7 DEF Past
<1>15. /\ slips' \in [Entry -> Nat] /\ sent' \in [Entry -> [1..Pages -> Nat]]
       /\ \A e \in Entry : /\ slips'[e] >= slips[e] /\ dispatched'[e] >= dispatched[e]
                           /\ \A p \in 1..Pages : sent'[e][p] >= sent[e][p]
    BY <1>3, <1>4, <1>8, <1>12, <1>13
<1>16. Progress(a, kind, dispatched', slips', sent', ended', dead', stranded')
    BY <1>3, <1>10, <1>12
<1>17. \A e \in Entry :
          /\ Covers(effects[e], slips[e], effects'[e], slips'[e], b, a, e, AfterEmit)
          /\ Covers(dispatched[e], slips[e], dispatched'[e], slips'[e], b, a, e, {"commit"})
          /\ \A p \in 1..Pages : sent'[e][p] <= slips'[e] + 1
    BY <1>3, <1>11, <1>12
<1>18. \A e \in Entry : e \notin b.batch => dispatched'[e] = dispatched[e] /\ sent'[e] = sent[e]
    BY <1>3, <1>4, <1>12
<1>19. /\ a.held \subseteq b.held
       /\ kind \notin Atomic /\ Past(a) => Past(b) /\ a.batch \subseteq b.batch
       /\ kind \notin Atomic =>
             \A e \in Entry : e \notin b.batch \/ ~Past(b)
                              => dispatched'[e] = dispatched[e] /\ sent'[e] = sent[e]
       /\ kind \notin Atomic /\ b.pc # "dedup" =>
             \A e \in b.batch : \/ a.pc # "dedup" /\ e \in a.batch
                                \/ e \in interrupted' \/ Finished(e)'
       /\ effects' \in [Entry -> Nat] /\ dispatched' \in [Entry -> Nat]
       /\ dead' \subseteq Entry /\ stranded' \subseteq Entry /\ interrupted' \subseteq Entry
       /\ dead \subseteq dead' /\ stranded \subseteq stranded' /\ interrupted \subseteq interrupted'
    BY <1>1, <1>2, <1>7, <1>12, <1>14, <1>18
<1> HIDE DEF b
<1> QED BY <1>7, <1>9, <1>12, <1>14, <1>15, <1>16, <1>17, <1>19, StepIInv, ZenonT(60) DEF b

(***************************************************************************)
(* Steps that write to the database                                        *)
(***************************************************************************)

\* Dedup: the entries that are new are in no other transaction, and not committed.
LEMMA DedupIInv ==
    ASSUME IInv, NEW w \in Worker, Dedup(w)
    PROVE  IInv'
<1> DEFINE b == worker[w]
           F == b.batch \ seen
<1>1. /\ b \in Activity /\ b.pc = "dedup" /\ b.batch \subseteq Entry /\ Local(b, kind)
      /\ b.held = {} /\ b.done = {} /\ b.reported = {} /\ b.page = 0 /\ b.tries < MaxRetries
      /\ UNCHANGED <<fixed, delivery, applied, unrecorded, emission, dead, stranded, interrupted, faults>>
      /\ \A v \in Worker : worker[v].held \cap b.batch = {}
      /\ seen' = IF kind \in Atomic THEN seen ELSE seen \cup F
  <2>1. /\ b \in Activity /\ b.pc = "dedup" /\ b.batch \subseteq Entry /\ Local(b, kind)
      BY Doing DEF Dedup
  <2>2. /\ b.held = {} /\ b.done = {} /\ b.reported = {} /\ b.page = 0 /\ b.tries < MaxRetries
      BY <2>1 DEF Local
  <2>3. /\ UNCHANGED <<fixed, delivery, applied, unrecorded, emission, dead, stranded, interrupted, faults>>
        /\ \A v \in Worker : worker[v].held \cap b.batch = {}
        /\ seen' = IF kind \in Atomic THEN seen ELSE seen \cup F
      BY DEF Dedup, Recorded, Fresh
  <2> QED BY <2>1, <2>2, <2>3
<1>2. CASE F = {}
  <2>1. worker' = [worker EXCEPT ![w] = Rest] /\ seen' = seen
      BY <1>1, <1>2 DEF Dedup, Fresh, End
  <2>2. /\ slips' = slips /\ slips \in [Entry -> Nat] /\ dead' = dead /\ stranded' = stranded
        /\ interrupted' = interrupted /\ dead \subseteq Entry /\ interrupted \subseteq Entry
        /\ faults' \in 0..MaxFaults
      BY <1>1, Faults DEF emission, IInv, TypeOK
  <2>3. \A e \in Entry : slips'[e] >= slips[e]
      BY <2>2
  <2>4. UNCHANGED <<fixed, delivery, database, effects, dispatched, sent, ended>>
      BY <1>1, <2>1 DEF database, emission
  <2> HIDE DEF F, b
  <2> QED BY <1>1, <2>1, <2>2, <2>3, <2>4, RestIInv, ZenonT(60) DEF b
<1>3. CASE F # {}
  <2>1. PICK H, pc : /\ H = (IF kind \in Atomic THEN F ELSE {})
                     /\ pc = CASE kind = "orphan" -> "dispatch" [] kind = "decrement" -> "select"
                               [] OTHER -> "apply"
      OBVIOUS
  <2>2. PICK c, a : /\ c = [e \in Entry |-> IF e \in F THEN b.copies[e] ELSE 0]
                   /\ a = [b EXCEPT !.batch = F, !.copies = c, !.held = H, !.pc = pc]
      OBVIOUS
  <2>3. worker' = [worker EXCEPT ![w] = a]
      BY <1>3, <2>1, <2>2 DEF Dedup, Fresh
  <2>4. kind \in Kind /\ pc \in {"dispatch", "select", "apply"} /\ H \in SUBSET F
      BY <2>1 DEF IInv, TypeOK
  <2>5. /\ a \in Activity /\ a.batch = F /\ a.copies = c /\ a.held = H /\ a.pc = pc /\ a.done = {}
        /\ a.reported = {} /\ a.page = 0 /\ a.tries = b.tries
        /\ \A e \in F : c[e] \in Nat \ {0}
    <3>1. c \in [Entry -> 0..MaxDeliveries]
      <4>1. b.copies \in [Entry -> 0..MaxDeliveries] /\ 0 \in 0..MaxDeliveries
          BY <1>1, BoundsAssumption DEF Activity
      <4> HIDE DEF b, F
      <4> QED BY <2>2, <4>1
    <3>2. \A e \in F : e \in Entry /\ b.copies[e] \in Nat \ {0}
        BY <1>1 DEF Local
    <3>3. \A e \in F : c[e] \in Nat \ {0}
      <4> HIDE DEF b, F
      <4> QED BY <2>2, <3>2
    <3> QED BY <1>1, <2>2, <2>4, <3>1, <3>3 DEF Activity
  <2>6. /\ worker' \in [Worker -> Activity]
        /\ \A v \in Worker : worker'[v] = IF v = w THEN a ELSE worker[v]
      BY <2>3, <2>5, Types
  <2>7. kind \notin Atomic => \A v \in Worker : worker'[v].held = {}
      BY <2>1, <2>5, <2>6, Types DEF Local
  <2>8. UNCHANGED <<kind, bad, deliveries, ready, applied, unrecorded, effects, dispatched,
                    sent, ended, slips, dead, stranded, interrupted, faults>>
      BY <1>1 DEF fixed, delivery, emission
  <2>9. TypeOK'
    <3>1. \A v \in Worker : worker'[v].held \cap seen' = {}
      <4>1. CASE kind \in Atomic
          BY <1>1, <2>4, <2>5, <2>6, <4>1 DEF IInv, TypeOK
      <4>2. CASE kind \notin Atomic
          BY <2>7, <4>2
      <4> QED BY <4>1, <4>2
    <3>2. \A u, v \in Worker : u # v => worker'[u].held \cap worker'[v].held = {}
      <4>1. \A v \in Worker : worker[v].held \cap H = {}
          BY <1>1, <2>4
      <4> QED BY <2>5, <2>6, <4>1 DEF IInv, TypeOK
    <3>3. seen' \subseteq Entry
        BY <1>1 DEF IInv, TypeOK
    <3> QED BY <2>6, <2>8, <3>1, <3>2, <3>3 DEF IInv, TypeOK
  <2>16. Queued'
      BY <2>8 DEF IInv, Queued
  <2>10. ASSUME kind \notin Atomic, NEW e \in F
         PROVE  /\ e \in Entry /\ applied[e] = 0 /\ dispatched[e] = 0 /\ slips[e] \in Nat
                /\ ended[e] = 0
                /\ \A p \in 1..Pages : sent[e][p] = 0
    <3>1. /\ e \in Entry /\ applied[e] \in Nat /\ dispatched[e] \in Nat /\ slips[e] \in Nat
          /\ \A p \in 1..Pages : sent[e][p] \in Nat
      <4>1. /\ applied \in [Entry -> Nat] /\ dispatched \in [Entry -> Nat] /\ slips \in [Entry -> Nat]
            /\ sent \in [Entry -> [1..Pages -> Nat]] /\ e \in Entry
          BY <1>1, Types
      <4> QED BY <4>1
    <3>2. ~(\/ applied[e] > 0 \/ dispatched[e] > 0 \/ ended[e] > 0
            \/ \E p \in 1..Pages : sent[e][p] > 0)
        BY <2>10, <3>1 DEF IInv, Apart
    <3>3. ended[e] \in Nat
        BY <3>1 DEF IInv, TypeOK
    <3> QED BY <3>1, <3>2, <3>3
  <2>11. AllSound'
    <3>1. Local(a, kind)
      <4>1. Pages \in Nat \ {0} /\ b.tries \in Nat
          BY <1>1, BoundsAssumption DEF Activity
      <4>2. OnPath(kind, pc)
          BY <2>1, <2>4 DEF OnPath, Kind, Atomic
      <4>3. 0 <= Pages + b.tries
          BY <4>1
      <4>4. (kind \notin Atomic => H = {}) /\ pc \notin {"idle", "dedup", "bury", "amortize", "send", "commit"}
            /\ (kind \in Atomic \cup {"cascade"} => pc = "apply")
            /\ (H # {} => pc = "apply" /\ H = F) /\ H \subseteq F
          BY <2>1, <2>4 DEF Atomic
      <4> HIDE DEF F
      <4> QED BY <1>1, <2>5, <4>2, <4>3, <4>4 DEF Local
    <3>2. Progress(a, kind, dispatched, slips, sent, ended, dead, stranded)
      <4>1. CASE kind \in Atomic
          BY <2>1, <2>5, <4>1 DEF Progress, Atomic
      <4>2. CASE kind \notin Atomic
        <5>1. \A e \in F : dispatched[e] <= slips[e]
            BY <2>10, <4>2
        <5>2. \A e \in F, p \in 1..Pages : /\ ~(p <= 0) /\ ~(p < ended[e])
                                           /\ p > 0 => sent[e][p] <= slips[e]
            BY <2>10, <4>2
        <5>3. pc \notin {"ack", "send", "commit"}
            BY <2>4
        <5> HIDE DEF F
        <5> QED BY <2>5, <5>1, <5>2, <5>3 DEF Progress
      <4> QED BY <4>1, <4>2
    <3> QED BY <2>6, <2>8, <3>1, <3>2, Types DEF AllSound
  <2>12. Apart'
    <3> SUFFICES ASSUME kind \notin Atomic
                 PROVE  /\ \A v \in Worker : Past(worker'[v]) =>
                              \A e \in worker'[v].batch : e \in seen' /\ applied[e] = 0
                        /\ \A u, v \in Worker : u # v /\ Past(worker'[u]) /\ Past(worker'[v])
                                                => worker'[u].batch \cap worker'[v].batch = {}
                        /\ \A e \in Entry : \/ applied[e] > 0 \/ dispatched[e] > 0 \/ ended[e] > 0
                                            \/ \E p \in 1..Pages : sent[e][p] > 0
                                            => e \in seen'
        BY <2>8 DEF Apart, Past
    <3>1. seen' = seen \cup F
        BY <1>1
    <3>2. \A v \in Worker : Past(worker[v]) => worker[v].batch \cap F = {}
        BY DEF IInv, Apart
    <3>3. \A e \in F : applied[e] = 0
        BY <2>10
    <3> HIDE DEF F
    <3> QED BY <2>5, <2>6, <3>1, <3>2, <3>3 DEF IInv, Apart
  <2>13. AppliedRecorded' /\ AppliedOnce'
      BY <1>1, <2>8 DEF IInv, AppliedRecorded, AppliedOnce
  <2>14. NothingLost'
    <3> SUFFICES ASSUME NEW e \in seen'
                 PROVE  Finished(e)' \/ (kind \notin Atomic /\ (Busy(e)' \/ e \in interrupted))
        BY <2>8 DEF NothingLost
    <3>1. CASE e \in seen
      <4>1. Finished(e) => Finished(e)'
          BY <2>8 DEF Finished
      <4>2. ASSUME NEW v \in Worker, e \in worker[v].batch /\ worker[v].pc # "dedup"
            PROVE  Busy(e)'
        <5>1. v # w
            BY <1>1, <4>2
        <5> QED BY <2>6, <4>2, <5>1 DEF Busy, At
      <4> QED BY <3>1, <4>1, <4>2 DEF IInv, NothingLost, Busy, At
    <3>2. CASE e \notin seen
      <4>1. kind \notin Atomic /\ e \in F
          BY <1>1, <3>2
      <4>2. e \in worker'[w].batch /\ worker'[w].pc # "dedup"
          BY <2>4, <2>5, <2>6, <4>1
      <4> QED BY <4>1, <4>2 DEF Busy, At
    <3> QED BY <3>1, <3>2
  <2>15. Counted'
    <3>1. seen \subseteq seen'
        BY <1>1
    <3>2. ASSUME NEW e \in Entry, NEW R, NEW v \in Worker, Standing(worker[v], e, R)
          PROVE  \E u \in Worker : Standing(worker'[u], e, R)
      <4>1. v # w
          BY <1>1, <3>2 DEF Standing
      <4> QED BY <2>6, <3>2, <4>1
    <3>3. ASSUME NEW e \in Entry, NEW R, NEW x, Emitted(x, slips[e], e, R, worker, seen)
          PROVE  Emitted(x, slips[e], e, R, worker', seen')
        BY <3>1, <3>2, <3>3 DEF Emitted
    <3>4. ASSUME NEW e \in Entry
          PROVE  /\ Emitted(effects[e], slips[e], e, AfterEmit, worker', seen')
                 /\ Emitted(dispatched[e], slips[e], e, {"commit"}, worker', seen')
                 /\ \A p \in 1..Pages : sent[e][p] <= slips[e] + 1
        BY <3>3 DEF IInv, Counted
    <3> QED BY <2>8, <3>4 DEF Counted, AfterEmit, Emitted, Standing
  <2> QED BY <2>9, <2>16, <2>11, <2>12, <2>13, <2>14, <2>15 DEF IInv
<1> QED BY <1>2, <1>3

\* Commit: the record and the work together, or the work of a recorded entry.
LEMMA CommitIInv ==
    ASSUME IInv, NEW w \in Worker, Commit(w)
    PROVE  IInv'
<1> DEFINE b == worker[w]
<1>1. /\ b \in Activity /\ b.pc = "commit" /\ b.batch \subseteq Entry /\ Local(b, kind)
      /\ Progress(b, kind, dispatched, slips, sent, ended, dead, stranded) /\ Past(b)
      /\ b.held \subseteq b.batch /\ b.done \subseteq b.batch /\ (kind \notin Atomic => b.held = {})
      /\ kind \in {"associate", "create", "delete", "cascade"}
      /\ seen' = seen \cup b.held
      /\ applied' = IF kind = "create" THEN BumpBy(applied, b.done, b.copies) ELSE Bump(applied, b.done)
      /\ unrecorded' = IF kind \in Atomic THEN unrecorded \cup (b.done \ b.held) ELSE unrecorded
  <2>1. kind \in Kind
      BY DEF IInv, TypeOK
  <2> QED BY <2>1, Doing DEF Commit, Local, OnPath, Past, Kind
<1>2. UNCHANGED <<kind, bad, deliveries, ready, effects, dispatched, sent, ended, slips, dead, stranded,
                  interrupted, faults>>
    BY DEF Commit, fixed, delivery, emission
<1>3. /\ worker' \in [Worker -> Activity]
      /\ \A v \in Worker : worker'[v] = IF v = w THEN Rest ELSE worker[v]
  <2>1. worker' = [worker EXCEPT ![w] = Rest] /\ Rest \in Activity
      BY RestFacts DEF Commit, End
  <2> QED BY <2>1, Types
<1>4. /\ Rest.pc = "idle" /\ Rest.held = {} /\ ~Past(Rest) /\ Local(Rest, kind)
      /\ Progress(Rest, kind, dispatched, slips, sent, ended, dead, stranded)
    BY RestFacts DEF Past
<1>5. /\ applied' \in [Entry -> Nat]
      /\ \A e \in Entry : /\ applied'[e] = (IF e \in b.done THEN applied[e] + 1 ELSE applied[e])
                          /\ applied[e] \in Nat /\ applied'[e] \in Nat /\ applied'[e] >= applied[e]
  <2>1. CASE kind # "create"
      BY <1>1, <2>1, Types, BumpFacts
  <2>2. CASE kind = "create"
    <3>1. \A e \in b.batch : b.copies[e] = 1
        BY <1>1, <2>2 DEF Local
    <3>2. PICK S, c : S = b.done /\ c = b.copies /\ \A e \in Entry \cap S : c[e] = 1
        BY <1>1, <3>1
    <3>3. applied' = BumpBy(applied, S, c) /\ applied \in [Entry -> Nat]
        BY <1>1, <2>2, <3>2, Types
    <3>4. /\ applied' \in [Entry -> Nat]
          /\ \A e \in Entry : /\ applied'[e] = (IF e \in S THEN applied[e] + 1 ELSE applied[e])
                              /\ applied[e] \in Nat /\ applied'[e] \in Nat /\ applied'[e] >= applied[e]
        BY <3>2, <3>3, BumpByFacts
    <3> HIDE DEF b
    <3> QED BY <3>2, <3>4
  <2> QED BY <2>1, <2>2
<1>6. kind \notin Atomic =>
          /\ \A e \in b.batch : e \in seen /\ applied[e] = 0
          /\ \A v \in Worker : v # w /\ Past(worker[v]) => worker[v].batch \cap b.batch = {}
    BY <1>1 DEF IInv, Apart
<1>7. TypeOK'
  <2>1. \A v \in Worker : worker'[v].held \cap seen' = {}
      BY <1>1, <1>3, <1>4 DEF IInv, TypeOK
  <2>2. \A u, v \in Worker : u # v => worker'[u].held \cap worker'[v].held = {}
      BY <1>3, <1>4 DEF IInv, TypeOK
  <2>3. seen' \subseteq Entry /\ unrecorded' \subseteq Entry
      BY <1>1 DEF IInv, TypeOK
  <2> QED BY <1>2, <1>3, <1>5, <2>1, <2>2, <2>3 DEF IInv, TypeOK
<1>8. AllSound'
    BY <1>2, <1>3, <1>4, Types DEF AllSound
<1>9. Apart'
  <2> SUFFICES ASSUME kind \notin Atomic
               PROVE  /\ \A v \in Worker : Past(worker'[v]) =>
                            \A e \in worker'[v].batch : e \in seen' /\ applied'[e] = 0
                      /\ \A u, v \in Worker : u # v /\ Past(worker'[u]) /\ Past(worker'[v])
                                              => worker'[u].batch \cap worker'[v].batch = {}
                      /\ \A e \in Entry : \/ applied'[e] > 0 \/ dispatched[e] > 0 \/ ended[e] > 0
                                          \/ \E p \in 1..Pages : sent[e][p] > 0
                                          => e \in seen'
      BY <1>2 DEF Apart, Past
  <2>1. ASSUME NEW v \in Worker, Past(worker'[v]), NEW e \in worker'[v].batch
        PROVE  e \in seen' /\ applied'[e] = 0
    <3>1. v # w /\ worker'[v] = worker[v]
        BY <1>3, <1>4, <2>1
    <3>2. e \in Entry /\ e \in seen /\ applied[e] = 0
        BY <2>1, <3>1, Types DEF IInv, Apart
    <3>3. e \notin b.done
        BY <1>1, <1>6, <2>1, <3>1
    <3> QED BY <1>1, <1>5, <3>2, <3>3
  <2>2. \A u, v \in Worker : u # v /\ Past(worker'[u]) /\ Past(worker'[v])
                             => worker'[u].batch \cap worker'[v].batch = {}
      BY <1>3, <1>4 DEF IInv, Apart
  <2>3. ASSUME NEW e \in Entry, \/ applied'[e] > 0 \/ dispatched[e] > 0 \/ ended[e] > 0
                                \/ \E p \in 1..Pages : sent[e][p] > 0
        PROVE  e \in seen'
    <3>1. CASE e \in b.done
        BY <1>1, <1>6, <3>1
    <3>2. CASE e \notin b.done
      <4>1. applied'[e] = applied[e]
          BY <1>5, <3>2
      <4> QED BY <1>1, <2>3, <4>1 DEF IInv, Apart
    <3> QED BY <3>1, <3>2
  <2> QED BY <2>1, <2>2, <2>3
<1>10. AppliedRecorded'
  <2> SUFFICES ASSUME kind \in Atomic, NEW e \in Entry, applied'[e] > 0
               PROVE  e \in seen' \cup unrecorded'
      BY <1>2 DEF AppliedRecorded
  <2>1. CASE e \in b.done
      BY <1>1, <2>1
  <2>2. CASE e \notin b.done
    <3>1. applied[e] > 0
        BY <1>5, <2>2
    <3> QED BY <1>1, <3>1 DEF IInv, AppliedRecorded
  <2> QED BY <2>1, <2>2
<1>11. AppliedOnce'
  <2> SUFFICES ASSUME NEW e \in Entry, applied'[e] > 1
               PROVE  e \in unrecorded'
      BY DEF AppliedOnce
  <2>1. CASE e \in b.done
    <3>1. applied[e] > 0
        BY <1>5, <2>1
    <3>2. kind \in Atomic
        BY <1>1, <1>5, <1>6, <2>1, <3>1
    <3>3. e \in seen \cup unrecorded
        BY <3>1, <3>2 DEF IInv, AppliedRecorded
    <3>4. e \in b.held => e \notin seen
        BY DEF IInv, TypeOK
    <3> QED BY <1>1, <2>1, <3>2, <3>3, <3>4
  <2>2. CASE e \notin b.done
    <3>1. applied[e] > 1
        BY <1>5, <2>2
    <3> QED BY <1>1, <3>1 DEF IInv, AppliedOnce
  <2> QED BY <2>1, <2>2
<1>12. NothingLost'
  <2> SUFFICES ASSUME NEW e \in seen'
               PROVE  Finished(e)' \/ (kind \notin Atomic /\ (Busy(e)' \/ e \in interrupted))
      BY <1>2 DEF NothingLost
  <2>1. e \in Entry
      BY <1>7 DEF TypeOK
  <2>2. e \in b.done => Finished(e)'
    <3>1. e \in b.done => applied'[e] > 0
        BY <1>5, <2>1
    <3> QED BY <1>1, <1>2, <3>1 DEF Finished
  <2>3. CASE e \in seen
    <3>1. Finished(e) => Finished(e)'
      <4>1. applied[e] > 0 => applied'[e] > 0
          BY <1>5, <2>1
      <4> QED BY <1>2, <4>1 DEF Finished
    <3>2. ASSUME kind \notin Atomic, NEW v \in Worker, e \in worker[v].batch /\ worker[v].pc # "dedup"
          PROVE  Finished(e)' \/ Busy(e)'
      <4>1. CASE v = w
        <5>1. b.done = b.batch
            BY <1>1, <3>2 DEF Local, Atomic
        <5> QED BY <2>2, <3>2, <4>1, <5>1
      <4>2. CASE v # w
          BY <1>3, <3>2, <4>2 DEF Busy, At
      <4> QED BY <4>1, <4>2
    <3> QED BY <2>3, <3>1, <3>2 DEF IInv, NothingLost, Busy, At
  <2>4. CASE e \in b.held
    <3>1. CASE kind = "delete"
        BY <1>1, <2>2, <2>4, <3>1 DEF Local
    <3>2. CASE kind \in {"associate", "create"}
      <4>1. b.reported \subseteq b.done /\ b.batch \ b.reported \subseteq dead
          BY <1>1, <2>4, <3>2 DEF Local, Progress
      <4>2. e \in dead => Finished(e)'
          BY <1>2 DEF Finished
      <4> QED BY <1>1, <2>2, <2>4, <4>1, <4>2
    <3> QED BY <1>1, <2>4, <3>1, <3>2 DEF Atomic
  <2> QED BY <1>1, <2>3, <2>4
<1>13. Counted'
  <2>1. ASSUME NEW e \in Entry, NEW R, NEW v \in Worker, Standing(worker[v], e, R)
        PROVE  e \in seen' \/ \E u \in Worker : Standing(worker'[u], e, R)
    <3>1. CASE v = w
        BY <1>1, <2>1, <3>1 DEF Standing
    <3>2. CASE v # w
        BY <1>3, <2>1, <3>2
    <3> QED BY <3>1, <3>2
  <2>2. ASSUME NEW e \in Entry, NEW R, NEW x, Emitted(x, slips[e], e, R, worker, seen)
        PROVE  Emitted(x, slips[e], e, R, worker', seen')
      BY <1>1, <2>1, <2>2 DEF Emitted
  <2>3. ASSUME NEW e \in Entry
        PROVE  /\ Emitted(effects[e], slips[e], e, AfterEmit, worker', seen')
               /\ Emitted(dispatched[e], slips[e], e, {"commit"}, worker', seen')
               /\ \A p \in 1..Pages : sent[e][p] <= slips[e] + 1
      BY <2>2 DEF IInv, Counted
  <2> QED BY <1>2, <2>3 DEF Counted, AfterEmit, Emitted, Standing
<1>14. Queued'
    BY <1>2 DEF IInv, Queued
<1> QED BY <1>14, <1>7, <1>8, <1>9, <1>10, <1>11, <1>12, <1>13 DEF IInv

(***************************************************************************)
(* Theorems                                                                *)
(***************************************************************************)

LEMMA InitIInv == Init => IInv
<1> SUFFICES ASSUME Init PROVE IInv
    OBVIOUS
<1>1. /\ kind \in Kind /\ bad \subseteq Entry /\ deliveries = [e \in Entry |-> 0]
      /\ ready = [e \in Entry |-> 0] /\ ended = [e \in Entry |-> 0]
      /\ seen = {} /\ applied = [e \in Entry |-> 0] /\ effects = [e \in Entry |-> 0]
      /\ dispatched = [e \in Entry |-> 0] /\ sent = [e \in Entry |-> [p \in 1..Pages |-> 0]]
      /\ dead = {} /\ stranded = {} /\ slips = [e \in Entry |-> 0] /\ unrecorded = {}
      /\ interrupted = {} /\ faults = 0 /\ worker = [w \in Worker |-> Rest]
    BY DEF Init, None
<1>2. 0 \in 0..MaxDeliveries /\ 0 \in 0..MaxFaults /\ 0 \in 0..(Pages + MaxRetries)
    BY BoundsAssumption
<1>3. /\ Rest \in Activity /\ Rest.held = {} /\ ~Past(Rest) /\ Local(Rest, kind)
      /\ Progress(Rest, kind, dispatched, slips, sent, ended, dead, stranded)
    BY RestFacts DEF Past
<1>4. \A w \in Worker : worker[w] = Rest
    BY <1>1
<1>5. TypeOK /\ Queued
    BY <1>1, <1>2, <1>3 DEF TypeOK, Queued
<1>6. \A e \in Entry : /\ applied[e] = 0 /\ effects[e] = 0 /\ dispatched[e] = 0 /\ slips[e] = 0
                       /\ ended[e] = 0 /\ \A p \in 1..Pages : sent[e][p] = 0
    BY <1>1
<1>7. AllSound /\ Apart /\ AppliedRecorded
    BY <1>3, <1>4, <1>6 DEF AllSound, Apart, AppliedRecorded
<1>8. AppliedOnce /\ NothingLost
    BY <1>1, <1>6 DEF AppliedOnce, NothingLost
<1>9. Counted
  <2> SUFFICES ASSUME NEW e \in Entry
               PROVE  /\ Emitted(effects[e], slips[e], e, AfterEmit, worker, seen)
                      /\ Emitted(dispatched[e], slips[e], e, {"commit"}, worker, seen)
                      /\ \A p \in 1..Pages : sent[e][p] <= slips[e] + 1
      BY DEF Counted
  <2>1. effects[e] = 0 /\ dispatched[e] = 0 /\ slips[e] = 0 /\ \A p \in 1..Pages : sent[e][p] = 0
      BY <1>6
  <2>2. \A p \in 1..Pages : sent[e][p] <= slips[e] + 1
      BY <2>1
  <2> QED BY <2>1, <2>2 DEF Emitted
<1> QED BY <1>5, <1>7, <1>8, <1>9 DEF IInv

LEMMA NextIInv == IInv /\ [Next]_vars => IInv'
<1> SUFFICES ASSUME IInv, [Next]_vars PROVE IInv'
    OBVIOUS
<1>1. CASE UNCHANGED vars
  <2>1. UNCHANGED <<kind, bad, deliveries, ready, seen, applied, effects, dispatched, sent, ended, dead,
                    stranded, slips, unrecorded, interrupted, faults, worker>>
      BY <1>1 DEF vars
  <2>2. TypeOK' /\ Queued'
      BY <2>1 DEF IInv, TypeOK, Queued
  <2>3. AllSound' /\ Apart'
      BY <2>1 DEF IInv, AllSound, Local, OnPath, Progress, Apart, Past
  <2>4. AppliedRecorded' /\ AppliedOnce' /\ NothingLost'
      BY <2>1 DEF IInv, AppliedRecorded, AppliedOnce, NothingLost, Finished, Busy, At
  <2>5. Counted'
      BY <2>1 DEF IInv, Counted, Emitted, Standing, AfterEmit
  <2> QED BY <2>2, <2>3, <2>4, <2>5 DEF IInv
<1>2. CASE Next
    BY <1>2, DeliveryIInv, TakeIInv, DedupIInv, ApplyIInv, ApplyFailIInv, EmitIInv, FailIInv,
       AckIInv, BuryIInv, DispatchIInv, SelectIInv, SelectFailIInv, SendIInv, CommitIInv,
       CrashIInv DEF Next
<1> QED BY <1>1, <1>2

THEOREM Invariant == Spec => []IInv
<1> QED BY InitIInv, NextIInv, PTL DEF Spec

\* Transactions of PostgreSQL never hold the same dedup record twice, attempts and offsets
\* stay in their ranges: what queue_*_consumer and db_execute_with_retries rest on.
THEOREM PipelineTypes == Spec => []TypeOK
<1> QED BY Invariant, PTL DEF IInv

\* The work of an entry is committed once by the consumers' transactions, however often it
\* is in a batch, unless db_execute_with_retries has rolled its dedup record back.
THEOREM AlwaysAppliedOnce == Spec => []AppliedOnce
<1> QED BY Invariant, PTL DEF IInv

\* What dedup_insert_event and batch_dedup_insert_events have recorded is worked on, or in
\* the dead letter queue, or its consumer died in between.
THEOREM NothingEverLost == Spec => []NothingLost
<1> QED BY Invariant, PTL DEF IInv

\* commit_processed_events, dispatch_downstream_events and the decrement of counters emit
\* once for an entry, but for lost replies, dead consumers, lost dedup records and the copies
\* of an entry that trim_duplicate_events leaves in a batch.
THEOREM AlwaysEmittedOnce == Spec => []EmittedOnce
<1>1. IInv => EmittedOnce
  <2> SUFFICES ASSUME IInv, NEW e \in Entry
               PROVE  /\ effects[e] <= 1 + slips[e]
                      /\ dispatched[e] <= 1 + slips[e]
                      /\ \A p \in 1..Pages : sent[e][p] <= 1 + slips[e]
      BY DEF EmittedOnce
  <2>1. /\ effects[e] \in Nat /\ dispatched[e] \in Nat /\ slips[e] \in Nat
        /\ \A p \in 1..Pages : sent[e][p] \in Nat
    <3>1. TypeOK
        BY DEF IInv
    <3>2. /\ effects \in [Entry -> Nat] /\ dispatched \in [Entry -> Nat] /\ slips \in [Entry -> Nat]
          /\ sent \in [Entry -> [1..Pages -> Nat]]
        BY <3>1 DEF TypeOK
    <3> QED BY <3>2
  <2>2. /\ effects[e] <= slips[e] + 1 /\ dispatched[e] <= slips[e] + 1
        /\ \A p \in 1..Pages : sent[e][p] <= slips[e] + 1
      BY DEF IInv, Counted, Emitted
  <2> QED BY <2>1, <2>2
<1> QED BY <1>1, Invariant, PTL

(***************************************************************************)
(* The life of an entry                                                    *)
(***************************************************************************)

\* What finishes e is as it was.
Same(e) == /\ e \in dead' <=> e \in dead
           /\ e \in stranded' <=> e \in stranded
           /\ dispatched'[e] = dispatched[e] /\ sent'[e] = sent[e] /\ ended'[e] = ended[e]

\* What finishes e is not taken back.
Grown(e) == /\ e \in dead => e \in dead'
            /\ e \in stranded => e \in stranded'
            /\ dispatched'[e] >= dispatched[e]
            /\ ended[e] > 0 => ended'[e] = ended[e]
            /\ \A p \in 1..Pages : sent'[e][p] >= sent[e][p]

\* The consumer w, behind the dedup step, keeps its batch or lets go of it, and touches
\* no other entry.
Works(w) ==
    /\ \A v \in Worker : v # w => worker'[v] = worker[v]
    /\ \/ worker'[w].batch = {}
       \/ /\ worker'[w].batch = worker[w].batch
          /\ worker[w].pc \notin {"idle", "dedup"} /\ worker'[w].pc \notin {"idle", "dedup"}
    /\ \A e \in Entry : /\ e \notin worker[w].batch \/ worker[w].pc = "dedup" => Same(e)
                        /\ Same(e) \/ Grown(e)
    /\ UNCHANGED <<kind, bad>>

\* A consumer that ends or goes on.
LEMMA Moves ==
    ASSUME IInv, NEW w \in Worker, worker[w].pc \notin {"idle", "dedup"}
    PROVE  /\ End(w) => /\ \A v \in Worker : v # w => worker'[v] = worker[v]
                        /\ worker'[w].batch = {}
           /\ \A pc \in Pcs : Goto(w, pc) =>
                        /\ \A v \in Worker : v # w => worker'[v] = worker[v]
                        /\ worker'[w].batch = worker[w].batch /\ worker'[w].pc = pc
<1>1. worker \in [Worker -> Activity] /\ worker[w] \in Activity
    BY Types
<1>2. Rest.batch = {}
    BY DEF Rest
<1>3. ASSUME End(w)
      PROVE  /\ \A v \in Worker : v # w => worker'[v] = worker[v]
             /\ worker'[w].batch = {}
    BY <1>1, <1>2, <1>3 DEF End
<1>4. ASSUME NEW pc \in Pcs, Goto(w, pc)
      PROVE  /\ \A v \in Worker : v # w => worker'[v] = worker[v]
             /\ worker'[w].batch = worker[w].batch /\ worker'[w].pc = pc
  <2>1. PICK a : a = [worker[w] EXCEPT !.pc = pc, !.tries = 0]
      OBVIOUS
  <2>2. worker' = [worker EXCEPT ![w] = a]
      BY <1>4, <2>1 DEF Goto
  <2>3. a.batch = worker[w].batch /\ a.pc = pc
      BY <1>1, <2>1, GotoFacts
  <2> QED BY <1>1, <2>2, <2>3
<1> QED BY <1>3, <1>4

\* Steps that leave emissions and dead letters alone.
LEMMA WorksQuietly ==
    ASSUME IInv, NEW w \in Worker,
           \/ Apply(w) \/ ApplyFail(w) \/ Emit(w) \/ EmitLost(w) \/ EmitFail(w) \/ Ack(w)
           \/ SelectFail(w) \/ SendFail(w) \/ Commit(w) \/ Crash(w)
    PROVE  Works(w)
<1>1. worker \in [Worker -> Activity] /\ worker[w] \in Activity
    BY Types
<1>2. UNCHANGED <<kind, bad, dead, stranded, dispatched, sent, ended>>
    BY DEF Apply, ApplyFail, Emit, EmitLost, EmitFail, Ack, SelectFail, SendFail, Commit,
       Crash, fixed, emission
<1>3. \A e \in Entry : Same(e)
    BY <1>2 DEF Same
<1>4. /\ \A v \in Worker : v # w => worker'[v] = worker[v]
      /\ \/ worker'[w].batch = {}
         \/ /\ worker'[w].batch = worker[w].batch
            /\ worker[w].pc \notin {"idle", "dedup"} /\ worker'[w].pc \notin {"idle", "dedup"}
  <2>1. CASE Apply(w)
    <3>1. PICK done, pc :
             /\ worker' = [worker EXCEPT
                   ![w].done = done, ![w].reported = @ \cup Reported(done), ![w].tries = 0,
                   ![w].pc = pc]
             /\ pc \in {"ack", "emit"}
        BY <2>1 DEF Apply
    <3>2. worker[w].pc = "apply"
        BY <2>1 DEF Apply, At
    <3> QED BY <1>1, <3>1, <3>2 DEF Activity
  <2>2. CASE ApplyFail(w)
    <3>1. PICK ids, again :
             /\ worker' = [worker EXCEPT
                   ![w].held = {}, ![w].done = {}, ![w].reported = @ \cup ids,
                   ![w].tries = IF again THEN @ + 1 ELSE 0,
                   ![w].pc = IF again THEN "apply" ELSE "bury"]
        BY <2>2 DEF ApplyFail
    <3>2. worker[w].pc = "apply"
        BY <2>2 DEF ApplyFail, At
    <3> QED BY <1>1, <3>1, <3>2 DEF Activity
  <2>3. CASE Emit(w)
      BY <1>1, <2>3 DEF Emit, At, Activity
  <2>4. CASE EmitLost(w)
      BY <1>1, <2>4 DEF EmitLost, At, Activity
  <2>5. CASE EmitFail(w) \/ SendFail(w)
      BY <2>5, Moves DEF EmitFail, SendFail, At, Pcs
  <2>6. CASE Ack(w)
      BY <2>6, Moves DEF Ack, Proceed, At, Pcs
  <2>8. CASE SelectFail(w)
    <3>1. PICK again : worker' = [worker EXCEPT ![w].failed = TRUE,
                                      ![w].tries = IF again THEN @ + 1 ELSE 0,
                                      ![w].pc = IF again THEN "select" ELSE "bury"]
        BY <2>8 DEF SelectFail
    <3>2. worker[w].pc = "select"
        BY <2>8 DEF SelectFail, At
    <3> QED BY <1>1, <3>1, <3>2 DEF Activity
  <2>9. CASE Commit(w)
      BY <2>9, Moves DEF Commit, At
  <2>10. CASE Crash(w)
    <3>1. worker' = [worker EXCEPT ![w] = Rest] /\ Rest.batch = {}
        BY <2>10 DEF Crash, Perish, End, Rest
    <3> QED BY <1>1, <3>1
  <2> QED BY <2>1, <2>2, <2>3, <2>4, <2>5, <2>6, <2>8, <2>9, <2>10
<1> QED BY <1>2, <1>3, <1>4 DEF Works

\* An empty page ends the pages of the batch, unless an earlier one has.
LEMMA WorksSelecting ==
    ASSUME IInv, NEW w \in Worker, Select(w)
    PROVE  Works(w)
<1> DEFINE b == worker[w]
           last == b.tries + 1 = MaxRetries
<1>1. /\ worker \in [Worker -> Activity] /\ b \in Activity /\ b.pc = "select"
      /\ UNCHANGED <<kind, bad, dead, stranded, dispatched, sent>>
    BY Types DEF Select, At, fixed
<1>2. PICK a : /\ worker' = [worker EXCEPT ![w] = a]
               /\ \/ a = [b EXCEPT !.page = @ + 1, !.pc = "send"]
                  \/ a = [b EXCEPT !.tries = IF last THEN 0 ELSE @ + 1, !.page = Offset(w),
                             !.pc = IF ~last THEN "select" ELSE IF b.failed THEN "bury" ELSE "ack"]
    BY DEF Select
<1>3. a.batch = b.batch /\ a.pc \in {"send", "select", "bury", "ack"}
    BY <1>1, <1>2 DEF Activity
<1>4. ASSUME NEW e \in Entry
      PROVE  /\ e \notin b.batch => ended'[e] = ended[e]
             /\ ended[e] > 0 => ended'[e] = ended[e]
  <2>1. ended \in [Entry -> 0..(Pages + MaxRetries)] /\ ~(0 > 0)
      BY DEF IInv, TypeOK
  <2>2. \/ ended' = ended
        \/ ended' = [x \in Entry |-> IF x \in b.batch /\ ended[x] = 0 THEN b.page + 1 ELSE ended[x]]
      BY DEF Select
  <2> HIDE DEF b
  <2> QED BY <2>1, <2>2
<1>5. ASSUME NEW e \in Entry
      PROVE  /\ e \notin b.batch \/ b.pc = "dedup" => Same(e)
             /\ Same(e) \/ Grown(e)
  <2>1. /\ dispatched[e] \in Nat /\ \A p \in 1..Pages : sent[e][p] \in Nat
      BY Types
  <2>2. Grown(e)
      BY <1>1, <1>4, <2>1 DEF Grown
  <2> QED BY <1>1, <1>4, <2>2 DEF Same
<1> QED BY <1>1, <1>2, <1>3, <1>5 DEF Works

\* Dead letters: all, or what was added before a failure.
LEMMA WorksBurying ==
    ASSUME IInv, NEW w \in Worker, Amortize(w) \/ DeclareDead(w) \/ DeclareRestDead(w)
    PROVE  Works(w)
<1> DEFINE b == worker[w]
<1>1. b.pc \in {"amortize", "bury", "rest"} /\ UNCHANGED BuryUnchanged
    BY DEF Amortize, DeclareDead, DeclareRestDead, At
<1>2. UNCHANGED <<kind, bad, stranded, dispatched, sent, ended>>
    BY <1>1 DEF BuryUnchanged, fixed
<1>3. PICK S \in SUBSET b.batch :
          \/ Bury(w, S, Proceed(w))
          \/ Bury(w, S, End(w))
          \/ Bury(w, S, Goto(w, "commit"))
    BY DEF Amortize, DeclareDead, DeclareRestDead, Failed
<1>4. PICK T \in SUBSET S : dead' = dead \cup T
    BY <1>3 DEF Bury
<1>5. End(w) \/ Proceed(w) \/ Goto(w, "commit")
    BY <1>3 DEF Bury, Perish
<1>6. End(w) \/ \E pc \in {"commit", "rest", "dispatch"} : Goto(w, pc)
    BY <1>5 DEF Proceed
<1>7. /\ \A v \in Worker : v # w => worker'[v] = worker[v]
      /\ \/ worker'[w].batch = {}
         \/ worker'[w].batch = b.batch /\ worker'[w].pc \in {"commit", "rest", "dispatch"}
    BY <1>1, <1>6, Moves DEF Pcs
<1>8. ASSUME NEW e \in Entry
      PROVE  /\ e \notin b.batch \/ b.pc = "dedup" => Same(e)
             /\ Same(e) \/ Grown(e)
  <2>1. e \notin b.batch => Same(e)
      BY <1>2, <1>4 DEF Same
  <2>2. /\ dispatched[e] \in Nat /\ \A p \in 1..Pages : sent[e][p] \in Nat
      BY Types
  <2>3. Grown(e)
      BY <1>2, <1>4, <2>2 DEF Grown
  <2> QED BY <1>1, <2>1, <2>3
<1> QED BY <1>1, <1>2, <1>7, <1>8 DEF Works

\* Downstream events and pages of counters.
LEMMA WorksEmitting ==
    ASSUME IInv, NEW w \in Worker,
           \/ Dispatch(w) \/ DispatchLost(w) \/ DispatchFail(w) \/ Send(w) \/ SendLost(w)
    PROVE  Works(w)
<1> DEFINE b == worker[w]
<1>1. /\ worker \in [Worker -> Activity] /\ b \in Activity /\ b.batch \subseteq Entry
      /\ dispatched \in [Entry -> Nat] /\ sent \in [Entry -> [1..Pages -> Nat]]
    BY Types
<1>2. b.pc \in {"dispatch", "send"} /\ (Send(w) \/ SendLost(w) => b.pc = "send")
    BY DEF Dispatch, DispatchLost, DispatchFail, Send, SendLost, At
<1>3. UNCHANGED <<kind, bad, dead>>
    BY DEF Dispatch, DispatchLost, DispatchFail, Send, SendLost, fixed
<1>4. AfterDispatch \in {"ack", "commit"}
    BY DEF AfterDispatch
<1>5. /\ \A v \in Worker : v # w => worker'[v] = worker[v]
      /\ worker'[w].batch = b.batch /\ worker'[w].pc \notin {"idle", "dedup"}
  <2>1. CASE Dispatch(w)
    <3>1. PICK pc \in {"ack", "commit"} :
             worker' = [worker EXCEPT ![w].sown = TRUE, ![w].tries = 0, ![w].pc = pc]
        BY <1>4, <2>1 DEF Dispatch
    <3> QED BY <1>1, <3>1 DEF Activity
  <2>2. ASSUME NEW x \in BOOLEAN, At(w, "dispatch"), Undelivered(w, x)
        PROVE  /\ \A v \in Worker : v # w => worker'[v] = worker[v]
               /\ worker'[w].batch = b.batch /\ worker'[w].pc \notin {"idle", "dedup"}
    <3>1. PICK a \in Activity, pc \in {"dispatch", "ack", "commit", "bury"} :
              worker' = [worker EXCEPT ![w] = a] /\ Follows(a, b, pc, 0, x)
        BY <2>2, UndeliveredShape
    <3> QED BY <1>1, <3>1 DEF Follows
  <2>3. CASE DispatchFail(w)
    <3>1. b.sown \in BOOLEAN
        BY <1>1 DEF Activity
    <3> QED BY <2>2, <2>3, <3>1 DEF DispatchFail
  <2>6. CASE DispatchLost(w)
    <3>1. CASE b.tries + 1 = MaxRetries
        BY <2>2, <2>6, <3>1 DEF DispatchLost
    <3>2. CASE b.tries + 1 # MaxRetries
      <4>1. worker' = [worker EXCEPT ![w].sown = TRUE, ![w].tries = @ + 1] /\ b.pc = "dispatch"
          BY <2>6, <3>2 DEF DispatchLost, At
      <4> QED BY <1>1, <4>1 DEF Activity
    <3> QED BY <3>1, <3>2
  <2>4. CASE Send(w)
      BY <1>1, <2>4 DEF Send, Activity
  <2>5. CASE SendLost(w)
      BY <1>2, <2>5 DEF SendLost
  <2> QED BY <2>1, <2>3, <2>4, <2>5, <2>6
<1>6. ASSUME NEW e \in Entry
      PROVE  /\ e \notin b.batch => Same(e)
             /\ Grown(e)
  <2>1. /\ dispatched[e] \in Nat /\ sent[e] \in [1..Pages -> Nat]
        /\ \A p \in 1..Pages : sent[e][p] \in Nat
      BY <1>1
  <2>2. CASE Dispatch(w) \/ DispatchLost(w) \/ DispatchFail(w)
    <3>1. /\ sent' = sent /\ ended' = ended
          /\ dispatched' = dispatched \/ dispatched' = BumpBy(dispatched, b.batch, b.copies)
          /\ stranded' = stranded \/ stranded' = stranded \cup b.batch
      <4>1. CASE Dispatch(w)
          BY <4>1 DEF Dispatch
      <4>2. CASE DispatchLost(w)
          BY <4>2 DEF DispatchLost, Undelivered
      <4>3. CASE DispatchFail(w)
          BY <4>3 DEF DispatchFail, Undelivered, emission
      <4> QED BY <2>2, <4>1, <4>2, <4>3
    <3>2. /\ e \notin b.batch => dispatched'[e] = dispatched[e]
          /\ dispatched'[e] >= dispatched[e]
      <4>1. PICK S, c : S = b.batch /\ c = b.copies /\ \A x \in Entry \cap S : c[x] \in Nat
          BY <1>1, Types DEF Local
      <4> HIDE DEF b
      <4> QED BY <1>1, <2>1, <3>1, <4>1, BumpByFacts
    <3> QED BY <1>3, <2>1, <3>1, <3>2 DEF Same, Grown
  <2>3. CASE Send(w) \/ SendLost(w)
    <3>1. sent' = SentPage(w) /\ UNCHANGED <<dispatched, stranded, ended>>
        BY <2>3 DEF Send, SendLost
    <3>2. PICK q : q = b.page
        OBVIOUS
    <3>3. sent'[e] = IF e \in b.batch THEN [sent[e] EXCEPT ![q] = @ + 1] ELSE sent[e]
        BY <3>1, <3>2 DEF SentPage
    <3>4. \A p \in 1..Pages : sent'[e][p] >= sent[e][p]
        BY <2>1, <3>3
    <3> QED BY <1>3, <2>1, <3>1, <3>3, <3>4 DEF Same, Grown
  <2> QED BY <2>2, <2>3
<1> QED BY <1>2, <1>3, <1>5, <1>6 DEF Works

\* The dedup step: new entries stay in the hands of the consumer.
LEMMA DedupShape ==
    ASSUME IInv, NEW w \in Worker, Dedup(w)
    PROVE  /\ worker[w].pc = "dedup"
           /\ \A v \in Worker : v # w => worker'[v] = worker[v]
           /\ worker'[w].batch = worker[w].batch \ seen
           /\ worker'[w].pc # "dedup"
           /\ seen' = IF kind \in Atomic THEN seen ELSE seen \cup (worker[w].batch \ seen)
           /\ UNCHANGED <<kind, bad, applied, unrecorded, dead, stranded, dispatched, sent, ended>>
<1> DEFINE b == worker[w]
           F == b.batch \ seen
<1>1. worker \in [Worker -> Activity] /\ b \in Activity
    BY Types
<1>2. /\ b.pc = "dedup" /\ seen' = IF kind \in Atomic THEN seen ELSE seen \cup F
      /\ UNCHANGED <<kind, bad, applied, unrecorded, dead, stranded, dispatched, sent, ended>>
    BY DEF Dedup, Fresh, At, fixed, emission
<1>3. CASE F = {}
  <2>1. worker' = [worker EXCEPT ![w] = Rest] /\ Rest.batch = {} /\ Rest.pc = "idle"
      BY <1>3 DEF Dedup, Fresh, End, Rest
  <2> QED BY <1>1, <1>2, <1>3, <2>1
<1>4. CASE F # {}
  <2>1. PICK H, pc : /\ H = (IF kind \in Atomic THEN F ELSE {})
                     /\ pc = CASE kind = "orphan" -> "dispatch" [] kind = "decrement" -> "select"
                               [] OTHER -> "apply"
      OBVIOUS
  <2>2. worker' = [worker EXCEPT ![w].batch = F,
                                 ![w].copies = [e \in Entry |-> IF e \in F THEN @[e] ELSE 0],
                                 ![w].held = H, ![w].pc = pc]
      BY <1>4, <2>1 DEF Dedup, Fresh
  <2>3. pc # "dedup"
      BY <2>1
  <2> HIDE DEF F
  <2>4. /\ \A v \in Worker : v # w => worker'[v] = worker[v]
        /\ worker'[w].batch = F /\ worker'[w].pc # "dedup"
      BY <1>1, <2>2, <2>3 DEF Activity
  <2> QED BY <1>2, <2>4 DEF F
<1> QED BY <1>3, <1>4

\* A consumer takes a batch; what it buries unseen is malformed.
LEMMA TakeShape ==
    ASSUME IInv, NEW w \in Worker, Take(w)
    PROVE  /\ \A v \in Worker : v # w => worker'[v] = worker[v]
           /\ kind \in {"cascade", "decrement"} =>
                 \/ worker'[w].pc = "dedup" /\ worker'[w].batch \cap bad = {}
                 \/ worker'[w].pc = "bury" /\ worker'[w].batch \subseteq bad
           /\ kind \notin {"cascade", "decrement"} => worker'[w].pc = "dedup"
           /\ UNCHANGED <<kind, bad, seen, applied, unrecorded, dead, stranded, dispatched, sent, ended>>
<1>1. worker \in [Worker -> Activity]
    BY Types
<1>2. UNCHANGED <<kind, bad, seen, applied, unrecorded, dead, stranded, dispatched, sent, ended>>
    BY DEF Take, fixed, database, emission
<1>3. PICK c \in [Entry -> 0..MaxDeliveries], B \in SUBSET Entry :
          /\ kind \in Downstream => Cardinality(B) = 1
          /\ worker' = [worker EXCEPT ![w] = [Rest EXCEPT !.batch = B, !.copies = c,
                !.pc = IF kind \in Downstream /\ B \subseteq bad THEN "bury" ELSE "dedup"]]
    BY DEF Take
<1>4. PICK pc : pc = IF kind \in Downstream /\ B \subseteq bad THEN "bury" ELSE "dedup"
    OBVIOUS
<1>5. PICK a : a = [Rest EXCEPT !.batch = B, !.copies = c, !.pc = pc]
    OBVIOUS
<1>6. a.batch = B /\ a.pc = pc
    BY <1>5 DEF Rest
<1>7. worker' = [worker EXCEPT ![w] = a]
    BY <1>3, <1>4, <1>5
<1>8. ASSUME kind \in Downstream, ~(B \subseteq bad)
      PROVE  B \cap bad = {}
  <2>1. IsFiniteSet(B)
      BY EntryAssumption, FS_Subset
  <2>2. \E x : B = {x}
      BY <1>3, <1>8, <2>1, FS_Singleton
  <2> QED BY <1>8, <2>2
<1>9. worker'[w] = a /\ \A v \in Worker : v # w => worker'[v] = worker[v]
    BY <1>1, <1>7
<1> QED BY <1>2, <1>4, <1>6, <1>8, <1>9 DEF Downstream

\* A malformed downstream event goes to the dead letters before the dedup step, so it is
\* never recorded: no consumer has a recorded entry in its hands without being its claimer.
Checked ==
    kind \in {"cascade", "decrement"} =>
        /\ seen \cap bad = {}
        /\ \A w \in Worker : At(w, "dedup") => worker[w].batch \cap bad = {}

\* The steps of a consumer, but for those that take and record entries.
Working(w) ==
    \/ Apply(w) \/ ApplyFail(w) \/ Emit(w) \/ EmitLost(w) \/ EmitFail(w) \/ Ack(w)
    \/ Amortize(w) \/ DeclareDead(w) \/ DeclareRestDead(w)
    \/ Dispatch(w) \/ DispatchLost(w) \/ DispatchFail(w)
    \/ Select(w) \/ SelectFail(w) \/ Send(w) \/ SendLost(w) \/ SendFail(w)
    \/ Crash(w)

LEMMA WorkingShape ==
    ASSUME IInv, NEW w \in Worker, Working(w)
    PROVE  Works(w) /\ UNCHANGED <<seen, applied, unrecorded>>
<1>1. Works(w)
    BY WorksQuietly, WorksSelecting, WorksBurying, WorksEmitting DEF Working
<1>2. UNCHANGED <<seen, applied, unrecorded>>
    BY DEF Working, Apply, ApplyFail, Emit, EmitLost, EmitFail, Ack, Amortize, DeclareDead,
       DeclareRestDead, BuryUnchanged, Dispatch, DispatchLost, DispatchFail, Select, SelectFail,
       Send, SendLost, SendFail, Crash, database
<1> QED BY <1>1, <1>2

LEMMA CommitShape ==
    ASSUME IInv, NEW w \in Worker, Commit(w)
    PROVE  /\ Works(w) /\ worker[w].pc = "commit"
           /\ kind \in Atomic \cup {"cascade"}
           /\ worker[w].held \cap seen = {} /\ worker[w].done \subseteq worker[w].batch
           /\ kind \notin Atomic => worker[w].held = {}
           /\ seen' = seen \cup worker[w].held
           /\ \A e \in Entry : applied'[e] = IF e \in worker[w].done THEN applied[e] + 1
                                             ELSE applied[e]
           /\ unrecorded' = IF kind \in Atomic THEN unrecorded \cup (worker[w].done \ worker[w].held)
                            ELSE unrecorded
<1>1. /\ worker[w].pc = "commit" /\ seen' = seen \cup worker[w].held
      /\ applied' = IF kind = "create" THEN BumpBy(applied, worker[w].done, worker[w].copies)
                    ELSE Bump(applied, worker[w].done)
      /\ unrecorded' = IF kind \in Atomic THEN unrecorded \cup (worker[w].done \ worker[w].held)
                       ELSE unrecorded
    BY DEF Commit, At
<1>2. Works(w)
    BY WorksQuietly
<1>3. /\ kind \in Atomic \cup {"cascade"}
      /\ worker[w].done \subseteq worker[w].batch /\ (kind \notin Atomic => worker[w].held = {})
    BY <1>1, Types DEF Local, OnPath, IInv, TypeOK, Kind, Atomic
<1>4. worker[w].held \cap seen = {}
    BY DEF IInv, TypeOK
<1>5. \A e \in Entry : applied'[e] = IF e \in worker[w].done THEN applied[e] + 1 ELSE applied[e]
  <2>1. kind = "create" => \A e \in worker[w].done : worker[w].copies[e] = 1
      BY <1>1, <1>3, Types DEF Local
  <2> QED BY <1>1, <2>1 DEF Bump, BumpBy
<1> QED BY <1>1, <1>2, <1>3, <1>4, <1>5

LEMMA CheckedStep == IInv /\ Checked /\ [Next]_vars => Checked'
<1> SUFFICES ASSUME IInv, Checked, [Next]_vars PROVE Checked'
    OBVIOUS
<1>1. ASSUME NEW w \in Worker, Take(w) PROVE Checked'
    BY <1>1, TakeShape DEF Checked, At
<1>2. ASSUME NEW w \in Worker, Dedup(w) PROVE Checked'
  <2>1. kind \in {"cascade", "decrement"} => worker[w].batch \cap bad = {}
      BY <1>2, DedupShape DEF Checked, At
  <2> QED BY <1>2, <2>1, DedupShape DEF Checked, At
<1>3. ASSUME NEW w \in Worker, Works(w), seen' = seen PROVE Checked'
    BY <1>3 DEF Checked, At, Works
<1>4. ASSUME NEW w \in Worker, Working(w) PROVE Checked'
    BY <1>3, <1>4, WorkingShape
<1>5. ASSUME NEW w \in Worker, Commit(w) PROVE Checked'
  <2>1. CASE kind \in Atomic
      BY <1>5, <2>1, CommitShape DEF Checked, Atomic, Works
  <2>2. CASE kind \notin Atomic
      BY <1>3, <1>5, <2>2, CommitShape
  <2> QED BY <2>1, <2>2
<1>6. ASSUME UNCHANGED <<kind, bad, seen, worker>> PROVE Checked'
    BY <1>6 DEF Checked, At
<1>7. ASSUME NEW e \in Entry, Deliver(e) \/ Redeliver(e) PROVE Checked'
    BY <1>6, <1>7 DEF Deliver, Redeliver, fixed, database
<1>8. CASE UNCHANGED vars
    BY <1>6, <1>8 DEF vars
<1> QED BY <1>1, <1>2, <1>4, <1>5, <1>7, <1>8 DEF Next, Working

THEOREM AlwaysChecked == Spec => []Checked
<1>1. Init => Checked
    BY DEF Init, Checked, At, Rest
<1> QED BY <1>1, CheckedStep, Invariant, PTL DEF Spec

\* An entry takes a step of its life, or stays where it is.
LEMMA LifeMoves ==
    ASSUME IInv, IInv', NEW e \in Entry, kind' = kind,
           e \in seen => e \in seen',
           e \in seen /\ Finished(e) => Finished(e)',
           e \in seen /\ ~Finished(e) /\ Finished(e)' => Busy(e),
           kind \notin Atomic /\ e \in seen /\ Busy(e)' => Busy(e) \/ Finished(e),
           kind \notin Atomic /\ e \notin seen /\ e \in seen' => Busy(e)'
    PROVE  EL!Moved(e)
<1>1. e \in seen => Finished(e) \/ kind \notin Atomic
    BY DEF IInv, NothingLost
<1>2. e \in seen' => Finished(e)' \/ kind \notin Atomic
    BY DEF IInv, NothingLost
<1>3. \/ Life(e)' = Life(e)
      \/ <<Life(e), Life(e)'>> = <<"open", "finished">>
      \/ kind \notin Atomic /\ <<Life(e), Life(e)'>> \in {<<"open", "claimed">>,
                                   <<"claimed", "finished">>, <<"claimed", "lost">>}
    BY <1>1, <1>2 DEF Life
<1>4. /\ [x \in Entry |-> Life(x)][e] = Life(e)
      /\ [x \in Entry |-> Life(x)]'[e] = Life(e)'
    OBVIOUS
<1> QED BY <1>3, <1>4 DEF EL!Moved, EL!Moves

\* What a step of a working consumer means for an entry's life.
LEMMA WorksMoves ==
    ASSUME IInv, IInv', NEW w \in Worker, Works(w), NEW e \in Entry,
           e \in seen => e \in seen',
           applied'[e] >= applied[e],
           applied'[e] # applied[e] => e \in worker[w].batch /\ worker[w].pc # "dedup",
           kind \notin Atomic => seen' = seen
    PROVE  EL!Moved(e)
<1>1. /\ kind' = kind
      /\ e \notin worker[w].batch \/ worker[w].pc = "dedup" => Same(e)
      /\ Same(e) \/ Grown(e)
    BY DEF Works
<1>2. /\ applied[e] \in Nat /\ applied'[e] \in Nat /\ dispatched[e] \in Nat /\ dispatched'[e] \in Nat
      /\ sent[e] \in [1..Pages -> Nat] /\ sent'[e] \in [1..Pages -> Nat]
    BY DEF IInv, TypeOK
<1>3. ASSUME Finished(e) PROVE Finished(e)'
  <2>1. applied[e] > 0 => applied'[e] > 0
      BY <1>2
  <2>2. dispatched[e] > 0 => dispatched'[e] > 0
      BY <1>1, <1>2 DEF Same, Grown
  <2>3. ASSUME NEW p \in 1..Pages, sent[e][p] > 0 PROVE sent'[e][p] > 0
    <3>1. sent[e][p] \in Nat /\ sent'[e][p] \in Nat
        BY <1>2
    <3>2. sent'[e][p] = sent[e][p] \/ sent'[e][p] >= sent[e][p]
        BY <1>1 DEF Same, Grown
    <3> QED BY <2>3, <3>1, <3>2
  <2>4. /\ e \in dead => e \in dead'
        /\ e \in stranded => e \in stranded'
      BY <1>1 DEF Same, Grown
  <2>5. ended[e] > 0 => ended'[e] = ended[e]
      BY <1>1 DEF Same, Grown
  <2> QED BY <1>1, <1>3, <2>1, <2>2, <2>3, <2>4, <2>5 DEF Finished
<1>4. ASSUME ~Finished(e), Finished(e)' PROVE Busy(e)
  <2>1. ~(Same(e) /\ applied'[e] = applied[e])
      BY <1>1, <1>4 DEF Same, Finished
  <2>2. e \in worker[w].batch /\ worker[w].pc # "dedup"
      BY <1>1, <2>1
  <2> QED BY <2>2 DEF Busy, At
<1>5. ASSUME Busy(e)' PROVE Busy(e)
  <2>1. PICK v \in Worker : e \in worker'[v].batch /\ worker'[v].pc # "dedup"
      BY <1>5 DEF Busy, At
  <2>2. CASE v = w
      BY <2>1, <2>2 DEF Busy, At, Works
  <2>3. CASE v # w
      BY <2>1, <2>3 DEF Busy, At, Works
  <2> QED BY <2>2, <2>3
<1> QED BY <1>1, <1>3, <1>4, <1>5, LifeMoves

\* Nothing is committed by a step.
LEMMA Unworked ==
    ASSUME NEW e \in Entry, UNCHANGED <<applied, unrecorded>>
    PROVE  EL!Unworked(e)
    BY DEF EL!Unworked

LEMMA LifeStep ==
    ASSUME IInv, IInv', Checked, [Next]_vars, NEW e \in Entry
    PROVE  /\ kind' = kind
           /\ EL!Moved(e)
           /\ EL!Unworked(e) \/ EL!WorkedOnce(e) \/ EL!WorkedLoose(e)
<1>0. applied[e] \in Nat /\ applied'[e] \in Nat
    BY DEF IInv, TypeOK
<1>1. ASSUME NEW w \in Worker, Working(w)
      PROVE  kind' = kind /\ EL!Moved(e) /\ EL!Unworked(e)
  <2>1. Works(w) /\ UNCHANGED <<seen, applied, unrecorded>>
      BY <1>1, WorkingShape
  <2>2. applied'[e] >= applied[e]
      BY <1>0, <2>1
  <2> QED BY <2>1, <2>2, WorksMoves, Unworked DEF Works
<1>2. ASSUME NEW w \in Worker, Commit(w)
      PROVE  /\ kind' = kind
             /\ EL!Moved(e)
             /\ EL!Unworked(e) \/ EL!WorkedOnce(e) \/ EL!WorkedLoose(e)
  <2> DEFINE b == worker[w]
  <2>1. /\ Works(w) /\ b.pc = "commit" /\ kind \in Atomic \cup {"cascade"}
        /\ b.held \cap seen = {} /\ b.done \subseteq b.batch
        /\ kind \notin Atomic => b.held = {}
        /\ seen' = seen \cup b.held
        /\ applied'[e] = IF e \in b.done THEN applied[e] + 1 ELSE applied[e]
        /\ unrecorded' = IF kind \in Atomic THEN unrecorded \cup (b.done \ b.held) ELSE unrecorded
      BY <1>2, CommitShape
  <2>2. EL!Moved(e)
    <3>1. applied'[e] >= applied[e]
        BY <1>0, <2>1
    <3>2. applied'[e] # applied[e] => e \in b.batch /\ b.pc # "dedup"
        BY <2>1
    <3> QED BY <2>1, <3>1, <3>2, WorksMoves
  <2>3. CASE e \notin b.done
    <3>1. e \in unrecorded' <=> e \in unrecorded
        BY <2>1, <2>3
    <3>2. applied'[e] = applied[e]
        BY <2>1, <2>3
    <3> QED BY <2>1, <2>2, <3>1, <3>2 DEF EL!Unworked, Works
  <2>4. CASE e \in b.done /\ e \in unrecorded'
    <3>1. applied'[e] = applied[e] + 1
        BY <2>1, <2>4
    <3> QED BY <2>1, <2>2, <2>4, <3>1 DEF EL!WorkedLoose, Works
  <2>5. CASE e \in b.done /\ e \notin unrecorded'
    <3>1. /\ e \notin unrecorded /\ e \in seen' /\ applied[e] = 0
      <4>1. CASE kind \in Atomic
        <5>1. e \in b.held /\ e \notin seen /\ e \notin unrecorded /\ e \in seen'
            BY <2>1, <2>5, <4>1
        <5>2. ~(applied[e] > 0)
            BY <4>1, <5>1 DEF IInv, AppliedRecorded
        <5> QED BY <1>0, <5>1, <5>2
      <4>2. CASE kind \notin Atomic
          BY <2>1, <2>5, <4>2 DEF IInv, Apart, Past
      <4> QED BY <4>1, <4>2
    <3>2. applied'[e] = 1 /\ applied'[e] > 0
        BY <2>1, <2>5, <3>1
    <3>3. Finished(e)'
        BY <2>1, <3>2 DEF Finished, Works, Atomic
    <3>4. Life(e)' = "finished"
        BY <3>1, <3>3 DEF Life
    <3>5. [x \in Entry |-> Life(x)]'[e] = "finished"
        BY <3>4
    <3> QED BY <2>1, <2>2, <2>5, <3>1, <3>2, <3>5 DEF EL!WorkedOnce, Works
  <2> QED BY <2>1, <2>2, <2>3, <2>4, <2>5 DEF Works
<1>3. ASSUME NEW w \in Worker, Dedup(w)
      PROVE  kind' = kind /\ EL!Moved(e) /\ EL!Unworked(e)
  <2>1. /\ worker[w].pc = "dedup"
        /\ \A v \in Worker : v # w => worker'[v] = worker[v]
        /\ worker'[w].batch = worker[w].batch \ seen
        /\ worker'[w].pc # "dedup"
        /\ seen' = IF kind \in Atomic THEN seen ELSE seen \cup (worker[w].batch \ seen)
        /\ UNCHANGED <<kind, bad, applied, unrecorded, dead, stranded, dispatched, sent, ended>>
      BY <1>3, DedupShape
  <2>2. Finished(e)' <=> Finished(e)
      BY <2>1 DEF Finished
  <2>3. ASSUME e \in seen, Busy(e)' PROVE Busy(e)
    <3>1. PICK v \in Worker : e \in worker'[v].batch /\ worker'[v].pc # "dedup"
        BY <2>3 DEF Busy, At
    <3>2. v # w
        BY <2>1, <2>3, <3>1
    <3> QED BY <2>1, <3>1, <3>2 DEF Busy, At
  <2>4. kind \notin Atomic /\ e \notin seen /\ e \in seen' => Busy(e)'
      BY <2>1 DEF Busy, At
  <2>5. EL!Moved(e)
      BY <2>1, <2>2, <2>3, <2>4, LifeMoves
  <2> QED BY <2>1, <2>5, Unworked
<1>4. ASSUME UNCHANGED <<kind, seen, applied, unrecorded, dead, stranded, dispatched, sent, ended>>,
             e \in seen /\ Busy(e)' => Busy(e) \/ kind \in Atomic
      PROVE  kind' = kind /\ EL!Moved(e) /\ EL!Unworked(e)
  <2>1. Finished(e)' <=> Finished(e)
      BY <1>4 DEF Finished
  <2>2. EL!Moved(e)
      BY <1>4, <2>1, LifeMoves
  <2> QED BY <1>4, <2>2, Unworked
<1>5. ASSUME NEW w \in Worker, Take(w)
      PROVE  kind' = kind /\ EL!Moved(e) /\ EL!Unworked(e)
  <2>1. UNCHANGED <<kind, bad, seen, applied, unrecorded, dead, stranded, dispatched, sent, ended>>
      BY <1>5, TakeShape
  <2>2. ASSUME e \in seen, Busy(e)' PROVE Busy(e)
    <3>1. PICK v \in Worker : e \in worker'[v].batch /\ worker'[v].pc # "dedup"
        BY <2>2 DEF Busy, At
    <3>2. CASE v = w
        BY <1>5, <2>2, <3>1, <3>2, TakeShape DEF Checked
    <3>3. CASE v # w
        BY <1>5, <3>1, <3>3, TakeShape DEF Busy, At
    <3> QED BY <3>2, <3>3
  <2> QED BY <1>4, <2>1, <2>2
<1>6. ASSUME UNCHANGED <<kind, seen, applied, unrecorded, dead, stranded, dispatched, sent, ended, worker>>
      PROVE  kind' = kind /\ EL!Moved(e) /\ EL!Unworked(e)
    BY <1>4, <1>6 DEF Busy, At
<1>7. ASSUME NEW f \in Entry, Deliver(f) \/ Redeliver(f)
      PROVE  kind' = kind /\ EL!Moved(e) /\ EL!Unworked(e)
    BY <1>6, <1>7 DEF Deliver, Redeliver, fixed, database, emission
<1>8. CASE UNCHANGED vars
    BY <1>6, <1>8 DEF vars
<1> QED BY <1>1, <1>2, <1>3, <1>5, <1>7, <1>8 DEF Next, Working

\* Whatever is delivered again, copied within a batch, fails or dies, every step of the
\* consumers moves each entry along the life EntryLife allows, and commits its work once
\* unless the work had lost its dedup record.
THEOREM PipelineImplementsEntryLife == Spec => ImplementsEntryLife
<1>1. Init => EL!LifeInit
  <2> SUFFICES ASSUME Init PROVE EL!LifeInit
      OBVIOUS
  <2>1. seen = {} /\ applied = None /\ unrecorded = {}
      BY DEF Init
  <2>2. [e \in Entry |-> Life(e)] = [e \in Entry |-> "open"]
      BY <2>1 DEF Life
  <2>3. (kind \notin Atomic) \in BOOLEAN
      OBVIOUS
  <2> QED BY <2>1, <2>2, <2>3 DEF EL!LifeInit, None
<1>2. IInv /\ IInv' /\ Checked /\ [Next]_vars => EL!LifeNext
  <2> SUFFICES ASSUME IInv, IInv', Checked, [Next]_vars PROVE EL!LifeNext
      OBVIOUS
  <2>1. kind' = kind
    <3>1. ASSUME NEW w \in Worker, Working(w) \/ Commit(w) PROVE kind' = kind
        BY <3>1, WorkingShape, CommitShape DEF Works
    <3>2. ASSUME NEW w \in Worker, Take(w) \/ Dedup(w) PROVE kind' = kind
        BY <3>2, TakeShape, DedupShape
    <3>3. ASSUME NEW f \in Entry, Deliver(f) \/ Redeliver(f) PROVE kind' = kind
        BY <3>3 DEF Deliver, Redeliver, fixed
    <3> QED BY <3>1, <3>2, <3>3 DEF Next, Working, vars
  <2> QED BY <2>1, LifeStep DEF EL!LifeNext
<1> QED BY <1>1, <1>2, Invariant, AlwaysChecked, PTL DEF Spec, ImplementsEntryLife, EL!LifeSpec
=============================================================================
