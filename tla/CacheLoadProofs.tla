--------------------------- MODULE CacheLoadProofs ---------------------------
(***************************************************************************)
(* Proofs about CacheLoad, for any finite set of requests, any set of row  *)
(* contents and any retry limits: safety, the refinement of Lookup, and    *)
(* the bound on the steps of a call.                                       *)
(***************************************************************************)
EXTENDS CacheLoad, FiniteSetTheorems, TLAPS

\* What SingleFlight needs to be inductive: a leader that is not covered by the
\* lock is paid for by a lapse.
Flight == /\ lock \in Leaders => Cardinality(Leaders) <= lapses + 1
          /\ lock \notin Leaders => Cardinality(Leaders) <= lapses

\* What AnswerWasTrue needs: the history holds the present row and what was read.
Honest == \A r \in Request :
    /\ pc[r] # "idle" => row \in truth[r]
    /\ pc[r] = "store" => loaded[r] \in truth[r]
    /\ pc[r] \in {"unlock", "done"} /\ answer[r] \in Row => answer[r] \in truth[r]

\* What TypeOK needs: a request that waits has an attempt in hand.
Trying == \A r \in Request : pc[r] \in {"wait", "follow"} => attempt[r] < FETCH_MAX_RETRIES

LoadInv == TypeOK /\ Trying /\ Flight /\ Honest

-----------------------------------------------------------------------------

\* Every step of the model keeps its variables within their types (TypeOK).
LEMMA TypeStep == ASSUME TypeOK, Trying, [Next]_vars PROVE TypeOK'
<1> USE DEF TypeOK
<1>a. NoEntry \in Entry /\ Rebuilt \in Outcome /\ "incoherent" \in Outcome /\ "error" \in Outcome
      /\ "none" \in Outcome /\ NoRow \in Row
  BY DEF NoEntry, Entry, Row, Outcome, Rebuilt
<1>b. ASSUME NEW r \in Request PROVE Merged(loaded[r]) \in Entry
  BY DEF Merged, Entry, Row
<1>c. ASSUME NEW r \in Request, Hit(r), truth' \in [Request -> SUBSET Row] PROVE TypeOK'
  BY <1>a, <1>c DEF Hit
<1>d. ASSUME NEW r \in Request, attempt[r] < FETCH_MAX_RETRIES, NextAttempt(r)
      PROVE pc' \in [Request -> {"idle", "elect", "wait", "follow", "load", "store", "unlock", "done"}]
            /\ attempt' \in [Request -> 0..FETCH_MAX_RETRIES]
  BY <1>d, LimitAssumption DEF NextAttempt
<1>1. ASSUME NEW r \in Request, Get(r) PROVE TypeOK'
  <2>1. truth' \in [Request -> SUBSET Row] BY <1>1 DEF Get
  <2>2. CASE Hit(r) BY <2>1, <2>2, <1>c
  <2>3. CASE ~Hit(r) BY <1>1, <2>1, <2>3 DEF Get
  <2> QED BY <2>2, <2>3
<1>2. ASSUME NEW r \in Request, Elect(r) PROVE TypeOK'
  <2>1. 1 \in 0..FETCH_WAITING_MAX_INTERVALS BY LimitAssumption
  <2>2. CASE lock = NoRequest BY <1>2, <2>2 DEF Elect
  <2>3. CASE lock # NoRequest BY <1>2, <2>1, <2>3 DEF Elect
  <2> QED BY <2>2, <2>3
<1>3. ASSUME NEW r \in Request, GiveUp(r) PROVE TypeOK'
  BY <1>3, <1>a DEF GiveUp
<1>4. ASSUME NEW r \in Request, Wait(r) PROVE TypeOK'
  <2>1. CASE NextAttempt(r) /\ UNCHANGED interval
    BY <1>4, <2>1, <1>d DEF Wait, Trying
  <2>2. CASE interval[r] < FETCH_WAITING_MAX_INTERVALS /\ UNCHANGED <<pc, attempt>>
             /\ interval' = [interval EXCEPT ![r] = @ + 1]
    <3>1. interval[r] + 1 \in 0..FETCH_WAITING_MAX_INTERVALS BY <2>2, LimitAssumption
    <3> QED BY <1>4, <2>2, <3>1 DEF Wait
  <2>3. CASE pc' = [pc EXCEPT ![r] = "follow"] /\ UNCHANGED <<attempt, interval>>
    BY <1>4, <2>3 DEF Wait
  <2> QED BY <1>4, <2>1, <2>2, <2>3 DEF Wait
<1>5. ASSUME NEW r \in Request, Follow(r) PROVE TypeOK'
  BY <1>5, <1>c, <1>d DEF Follow, Trying
<1>6. ASSUME NEW r \in Request, Load(r) PROVE TypeOK'
  BY <1>6, <1>a DEF Load
<1>7. ASSUME NEW r \in Request, Store(r) PROVE TypeOK'
  BY <1>7, <1>b DEF Store
<1>8. ASSUME NEW r \in Request, LoadFail(r) PROVE TypeOK'
  BY <1>8, <1>a, <1>b DEF LoadFail
<1>9. ASSUME NEW r \in Request, Unlock(r) PROVE TypeOK'
  BY <1>9 DEF Unlock
<1>10. ASSUME NEW r \in Request, Forget(r) PROVE TypeOK'
  BY <1>10, <1>a, LimitAssumption DEF Forget
<1>11. CASE LockExpire
  BY <1>11 DEF LockExpire, local
<1>12. CASE CacheExpire
  BY <1>12, <1>a DEF CacheExpire, local
<1>13. CASE RowChange
  BY <1>13 DEF RowChange
<1>14. CASE UNCHANGED vars
  BY <1>14 DEF vars
<1> QED BY <1>1, <1>2, <1>3, <1>4, <1>5, <1>6, <1>7, <1>8, <1>9, <1>10, <1>11, <1>12, <1>13, <1>14
        DEF Next, Step, Return, Die

\* A request that waits for a leader has an attempt in hand (Trying), whatever the step.
LEMMA TryingStep == ASSUME TypeOK, Trying, [Next]_vars PROVE Trying'
<1> USE DEF TypeOK, Trying
<1>1. ASSUME NEW r \in Request, Get(r) PROVE Trying'
  BY <1>1 DEF Get, Hit
<1>2. ASSUME NEW r \in Request, Step(r) PROVE Trying'
  BY <1>2 DEF Step, Elect, GiveUp, Wait, Follow, Hit, NextAttempt, Load, Store, LoadFail, Unlock
<1>3. ASSUME NEW r \in Request, Forget(r) PROVE Trying'
  BY <1>3 DEF Forget
<1>4. CASE LockExpire \/ CacheExpire \/ RowChange \/ UNCHANGED vars
  BY <1>4 DEF LockExpire, CacheExpire, RowChange, local, vars
<1> QED BY <1>1, <1>2, <1>3, <1>4 DEF Next, Return, Die

-----------------------------------------------------------------------------

\* Leaders is finite, so that adding or removing one changes its size by one.
LEMMA LeadersFinite ==
    ASSUME TypeOK
    PROVE  /\ IsFiniteSet(Leaders) /\ Cardinality(Leaders) \in Nat
           /\ \A r \in Leaders : Cardinality(Leaders \ {r}) = Cardinality(Leaders) - 1
           /\ \A r \in Request \ Leaders : Cardinality(Leaders \cup {r}) = Cardinality(Leaders) + 1
<1>1. IsFiniteSet(Leaders)
  BY RequestAssumption, FS_Subset DEF Leaders
<1> QED BY <1>1, FS_CardinalityType, FS_AddElement, FS_RemoveElement

\* Only Elect adds a leader, only Unlock and Die remove one, and each changes the
\* lock so that Flight is kept (the argument of SingleFlight).
LEMMA FlightStep == ASSUME TypeOK, Flight, [Next]_vars PROVE Flight'
<1> USE DEF TypeOK, Flight
<1>0. /\ Cardinality(Leaders) \in Nat /\ lapses \in Nat
      /\ NoRequest \notin Leaders /\ NoRequest \notin Leaders'
  BY LeadersFinite, RequestAssumption DEF Leaders
<1>a. ASSUME Leaders' = Leaders, lock' = lock, lapses' = lapses PROVE Flight'
  BY <1>a
<1>b. ASSUME NEW r \in Leaders, Leaders' = Leaders \ {r}, lapses' = lapses,
             lock' = NoRequest \/ lock' = lock
      PROVE Flight'
  <2>1. Cardinality(Leaders') = Cardinality(Leaders) - 1
    BY <1>b, LeadersFinite
  <2>2. lock' \in Leaders' => lock \in Leaders
    BY <1>0, <1>b
  <2> QED BY <1>0, <1>b, <2>1, <2>2
<1>1. ASSUME NEW r \in Request, Get(r) \/ GiveUp(r) \/ Wait(r) \/ Follow(r) PROVE Flight'
  <2>1. Leaders' = Leaders
    BY <1>1 DEF Get, Hit, GiveUp, Wait, Follow, NextAttempt, Leaders
  <2> QED BY <1>1, <2>1, <1>a DEF Get, Hit, GiveUp, Wait, Follow
<1>2. ASSUME NEW r \in Request, Elect(r) PROVE Flight'
  <2>1. CASE lock = NoRequest
    <3>1. r \in Request \ Leaders /\ Leaders' = Leaders \cup {r}
      BY <1>2, <2>1 DEF Elect, Leaders
    <3>2. Cardinality(Leaders') = Cardinality(Leaders) + 1
      BY <3>1, LeadersFinite
    <3>3. lock' = r /\ lapses' = lapses
      BY <1>2, <2>1 DEF Elect
    <3> QED BY <1>0, <2>1, <3>1, <3>2, <3>3
  <2>2. CASE lock # NoRequest
    <3>1. Leaders' = Leaders
      BY <1>2, <2>2 DEF Elect, Leaders
    <3> QED BY <1>2, <2>2, <3>1, <1>a DEF Elect
  <2> QED BY <2>1, <2>2
<1>3. ASSUME NEW r \in Request, Load(r) \/ Store(r) \/ LoadFail(r) PROVE Flight'
  <2>1. Leaders' = Leaders
    BY <1>3 DEF Load, Store, LoadFail, Leaders
  <2> QED BY <1>3, <2>1, <1>a DEF Load, Store, LoadFail
<1>4. ASSUME NEW r \in Request, Unlock(r) PROVE Flight'
  <2>1. r \in Leaders /\ Leaders' = Leaders \ {r}
    BY <1>4 DEF Unlock, Leaders
  <2> QED BY <1>4, <2>1, <1>b DEF Unlock
<1>5. ASSUME NEW r \in Request, Forget(r) PROVE Flight'
  <2>1. Leaders' = Leaders \ {r}
    BY <1>5 DEF Forget, Leaders
  <2>2. CASE r \in Leaders
    BY <1>5, <2>1, <2>2, <1>b DEF Forget
  <2>3. CASE r \notin Leaders
    <3>1. Leaders' = Leaders BY <2>1, <2>3
    <3> QED BY <1>5, <3>1, <1>a DEF Forget
  <2> QED BY <2>2, <2>3
<1>6. CASE LockExpire
  <2>1. Leaders' = Leaders
    BY <1>6 DEF LockExpire, local, Leaders
  <2> QED BY <1>0, <1>6, <2>1 DEF LockExpire
<1>7. CASE CacheExpire \/ RowChange \/ UNCHANGED vars
  <2>1. Leaders' = Leaders
    BY <1>7 DEF CacheExpire, RowChange, local, vars, Leaders
  <2> QED BY <1>7, <2>1, <1>a DEF CacheExpire, RowChange, vars
<1> QED BY <1>1, <1>2, <1>3, <1>4, <1>5, <1>6, <1>7 DEF Next, Step, Return, Die

-----------------------------------------------------------------------------

\* What a leader reads is the row there is, and histories only grow while a
\* request runs, so Honest is kept (the argument of AnswerWasTrue).
LEMMA HonestStep == ASSUME TypeOK, Honest, [Next]_vars PROVE Honest'
<1> USE DEF TypeOK, Honest
<1>a. \A o \in Outcome : o \notin Row
  BY ValueAssumption DEF Row
<1>b. Rebuilt \in Outcome /\ "incoherent" \in Outcome /\ "error" \in Outcome
  BY DEF Rebuilt, Outcome
<1>1. ASSUME NEW r \in Request, Get(r) PROVE Honest'
  BY <1>1, <1>a, <1>b DEF Get, Hit
<1>2. ASSUME NEW r \in Request, Elect(r) \/ GiveUp(r) \/ Wait(r) PROVE Honest'
  BY <1>2, <1>a, <1>b DEF Elect, GiveUp, Wait, NextAttempt
<1>3. ASSUME NEW r \in Request, Follow(r) PROVE Honest'
  BY <1>3, <1>a, <1>b DEF Follow, Hit, NextAttempt
<1>4. ASSUME NEW r \in Request, Load(r) PROVE Honest'
  BY <1>4, <1>a, <1>b DEF Load
<1>5. ASSUME NEW r \in Request, Store(r) PROVE Honest'
  BY <1>5 DEF Store
<1>6. ASSUME NEW r \in Request, LoadFail(r) PROVE Honest'
  BY <1>6, <1>a, <1>b DEF LoadFail
<1>7. ASSUME NEW r \in Request, Unlock(r) PROVE Honest'
  BY <1>7 DEF Unlock
<1>8. ASSUME NEW r \in Request, Forget(r) PROVE Honest'
  BY <1>8 DEF Forget
<1>9. CASE RowChange
  BY <1>9 DEF RowChange
<1>10. CASE LockExpire \/ CacheExpire \/ UNCHANGED vars
  BY <1>10 DEF LockExpire, CacheExpire, local, vars
<1> QED BY <1>1, <1>2, <1>3, <1>4, <1>5, <1>6, <1>7, <1>8, <1>9, <1>10
        DEF Next, Step, Return, Die

-----------------------------------------------------------------------------

\* LoadInv holds in every reachable state of distributed_get_or_load.
THEOREM LoadInvariant == Spec => []LoadInv
<1>1. Init => LoadInv
  <2> SUFFICES ASSUME Init PROVE LoadInv
    OBVIOUS
  <2>1. TypeOK
    BY LimitAssumption DEF Init, TypeOK, NoEntry, Entry, Row, Outcome
  <2>2. Trying /\ Honest
    BY DEF Init, Trying, Honest
  <2>3. Flight
    <3>1. Leaders = {} BY DEF Init, Leaders
    <3> QED BY <3>1, FS_EmptySet DEF Init, Flight
  <2> QED BY <2>1, <2>2, <2>3 DEF LoadInv
<1>2. LoadInv /\ [Next]_vars => LoadInv'
  BY TypeStep, TryingStep, FlightStep, HonestStep DEF LoadInv
<1> QED BY <1>1, <1>2, PTL DEF Spec

\* Every variable keeps its type, for any number of requests and any limits.
THEOREM LoadTypeCorrect == Spec => []TypeOK
<1>1. LoadInv => TypeOK BY DEF LoadInv
<1> QED BY <1>1, LoadInvariant, PTL

\* Single flight: leaders at work are at most one more than the locks of working
\* leaders that have expired, in spite of the unconditional DELETE of the lock.
THEOREM AlwaysSingleFlight == Spec => []SingleFlight
<1>1. LoadInv => SingleFlight
  BY LeadersFinite DEF LoadInv, Flight, SingleFlight, TypeOK
<1> QED BY <1>1, LoadInvariant, PTL

\* None and the rows that distributed_get_or_load returns were true during the call.
THEOREM AnswersAreTrue == Spec => []AnswerWasTrue
<1>1. LoadInv => AnswerWasTrue
  BY DEF LoadInv, Honest, AnswerWasTrue
<1> QED BY <1>1, LoadInvariant, PTL

(***************************************************************************)
(* distributed_get_or_load implements Lookup                               *)
(***************************************************************************)

\* The stage of r is read off its place in the code.
LEMMA Stages ==
    ASSUME NEW r \in Request, TypeOK
    PROVE  /\ pc[r] = "idle" => CallOf(r) = <<"idle">>
           /\ pc[r] \in {"elect", "wait", "follow", "load"} => CallOf(r) = <<"open">>
           /\ pc[r] = "store" => CallOf(r) = <<"saw", loaded[r]>>
           /\ pc[r] \in {"unlock", "done"} => CallOf(r) = <<"done", answer[r]>>
    BY DEF CallOf, TypeOK

\* A step of the request r leaves the calls of the others as they are.
LEMMA OneCall ==
    ASSUME NEW r \in Request, NEW c, CallOf(r)' = c, UNCHANGED row,
           \A s \in Request \ {r} : /\ pc'[s] = pc[s] /\ loaded'[s] = loaded[s]
                                    /\ answer'[s] = answer[s]
    PROVE  LU!Turn(r, c)
<1>1. \A s \in Request \ {r} : CallOf(s)' = CallOf(s)
    BY DEF CallOf
<1> QED BY <1>1 DEF LU!Turn

\* Within a stage, an abstract call does not move.
LEMMA NoCall ==
    ASSUME NEW r \in Request, CallOf(r)' = CallOf(r), UNCHANGED row,
           \A s \in Request \ {r} : /\ pc'[s] = pc[s] /\ loaded'[s] = loaded[s]
                                    /\ answer'[s] = answer[s]
    PROVE  UNCHANGED <<row, [s \in Request |-> CallOf(s)]>>
<1>1. \A s \in Request \ {r} : CallOf(s)' = CallOf(s)
    BY DEF CallOf
<1> QED BY <1>1

\* The hit of an entry: the call fails, because no entry can be read back.
LEMMA HitFails ==
    ASSUME NEW r \in Request, TypeOK, TypeOK', Hit(r), pc[r] \in {"idle", "follow"}
    PROVE  LU!Fail(r)
<1>1. answer'[r] \in Outcome \ {"none"} /\ pc'[r] = "done"
    BY DEF Hit, Rebuilt, Outcome, TypeOK
<1>2. LU!Turn(r, <<"done", answer'[r]>>)
  <2>1. CallOf(r)' = <<"done", answer'[r]>>
      BY <1>1 DEF CallOf
  <2> QED BY <2>1, OneCall DEF Hit, TypeOK
<1>3. \A a : CallOf(r) # <<"done", a>>
    BY Stages
<1> QED BY <1>1, <1>2, <1>3 DEF LU!Fail

\* Every step of a request and of its surroundings is a step of Lookup, or none.
LEMMA LookupStep ==
    ASSUME LoadInv, LoadInv', [Next]_vars
    PROVE  LU!LookupNext \/ UNCHANGED <<row, [r \in Request |-> CallOf(r)]>>
<1> USE DEF LoadInv, TypeOK
<1>1. ASSUME NEW r \in Request, Get(r)
      PROVE  LU!Begin(r) \/ LU!Fail(r)
  <2>1. CASE Hit(r)
      BY <1>1, <2>1, HitFails DEF Get
  <2>2. CASE ~Hit(r)
    <3>1. pc[r] = "idle" /\ pc'[r] = "elect"
        BY <1>1, <2>2 DEF Get
    <3>2. CallOf(r) = <<"idle">> /\ CallOf(r)' = <<"open">>
        BY <3>1 DEF CallOf
    <3> QED BY <1>1, <2>2, <3>2, OneCall DEF Get, LU!Begin
  <2> QED BY <2>1, <2>2
<1>2. ASSUME NEW r \in Request, Elect(r) \/ Wait(r) \/ Unlock(r)
      PROVE  UNCHANGED <<row, [s \in Request |-> CallOf(s)]>>
  <2>1. CallOf(r)' = CallOf(r)
      BY <1>2 DEF Elect, Wait, NextAttempt, Unlock, CallOf
  <2> QED BY <1>2, <2>1, NoCall DEF Elect, Wait, NextAttempt, Unlock
<1>3. ASSUME NEW r \in Request, GiveUp(r)
      PROVE  LU!Fail(r)
  <2>1. CallOf(r) = <<"open">> /\ CallOf(r)' = <<"done", "incoherent">>
      BY <1>3 DEF GiveUp, CallOf
  <2>2. LU!Turn(r, <<"done", "incoherent">>)
      BY <1>3, <2>1, OneCall DEF GiveUp
  <2> QED BY <2>1, <2>2 DEF LU!Fail, Outcome
<1>4. ASSUME NEW r \in Request, Follow(r)
      PROVE  LU!Fail(r) \/ UNCHANGED <<row, [s \in Request |-> CallOf(s)]>>
  <2>1. CASE Hit(r)
      BY <1>4, <2>1, HitFails DEF Follow
  <2>2. CASE ~Hit(r)
    <3>1. CallOf(r)' = CallOf(r)
        BY <1>4, <2>2 DEF Follow, NextAttempt, CallOf
    <3> QED BY <1>4, <2>2, <3>1, NoCall DEF Follow, NextAttempt
  <2> QED BY <2>1, <2>2
<1>5. ASSUME NEW r \in Request, Load(r)
      PROVE  LU!See(r) \/ LU!Fail(r)
  <2>0. CallOf(r) = <<"open">>
      BY <1>5 DEF Load, CallOf
  <2>1. CASE pc'[r] = "store"
    <3>1. CallOf(r)' = <<"saw", row>>
        BY <1>5, <2>1 DEF Load, CallOf
    <3> QED BY <1>5, <2>0, <3>1, OneCall DEF Load, LU!See
  <2>2. CASE pc'[r] # "store"
    <3>1. CallOf(r)' = <<"done", "error">>
        BY <1>5, <2>2 DEF Load, CallOf
    <3>2. LU!Turn(r, <<"done", "error">>)
        BY <1>5, <3>1, OneCall DEF Load
    <3> QED BY <2>0, <3>2 DEF LU!Fail, Outcome
  <2> QED BY <2>1, <2>2
<1>6. ASSUME NEW r \in Request, Store(r)
      PROVE  LU!Tell(r)
  <2>1. CallOf(r) = <<"saw", loaded[r]>> /\ CallOf(r)' = <<"done", loaded[r]>>
      BY <1>6 DEF Store, CallOf
  <2>2. LU!Turn(r, <<"done", loaded[r]>>)
      BY <1>6, <2>1, OneCall DEF Store
  <2> QED BY <2>1, <2>2 DEF LU!Tell
<1>7. ASSUME NEW r \in Request, LoadFail(r)
      PROVE  LU!Fail(r)
  <2>1. CallOf(r)' = <<"done", "error">>
      BY <1>7 DEF LoadFail, CallOf
  <2>2. LU!Turn(r, <<"done", "error">>)
      BY <1>7, <2>1, OneCall DEF LoadFail
  <2>3. \A a : CallOf(r) # <<"done", a>>
      BY <1>7, Stages DEF LoadFail
  <2> QED BY <2>2, <2>3 DEF LU!Fail, Outcome
<1>8. ASSUME NEW r \in Request, Forget(r)
      PROVE  LU!End(r)
  <2>1. CallOf(r)' = <<"idle">>
      BY <1>8 DEF Forget, CallOf
  <2> QED BY <1>8, <2>1, OneCall DEF Forget, LU!End
<1>9. CASE RowChange
  <2>1. row' \in Row /\ UNCHANGED [r \in Request |-> CallOf(r)]
      BY <1>9 DEF RowChange, CallOf
  <2> QED BY <2>1 DEF LU!Write, LU!LookupNext
<1>10. CASE LockExpire \/ CacheExpire \/ UNCHANGED vars
    BY <1>10 DEF LockExpire, CacheExpire, local, vars, CallOf
<1> QED BY <1>1, <1>2, <1>3, <1>4, <1>5, <1>6, <1>7, <1>8, <1>9, <1>10
        DEF Next, Step, Return, Die, LU!LookupNext

\* Callers of distributed_get_or_load get the row of one instant of their call or no
\* row, for any number of requests, lapses and retries (ImplementsLookup).
THEOREM CacheLoadImplementsLookup == Spec => ImplementsLookup
<1>1. Init => LU!LookupInit
    BY DEF Init, CallOf, LU!LookupInit
<1>2. LoadInv /\ LoadInv' /\ [Next]_vars
      => [LU!LookupNext]_<<row, [r \in Request |-> CallOf(r)]>>
    BY LookupStep
<1> QED BY <1>1, <1>2, LoadInvariant, PTL DEF Spec, ImplementsLookup, LU!LookupSpec

(***************************************************************************)
(* A call uses itself up                                                   *)
(***************************************************************************)

\* The attempts left weigh more than the steps of one attempt.
LEMMA Attempts ==
    ASSUME TypeOK, TypeOK', NEW r \in Request
    PROVE  /\ AttemptLength \in Nat \ {0}
           /\ (FETCH_MAX_RETRIES - attempt[r]) * AttemptLength \in Nat
           /\ (FETCH_MAX_RETRIES - attempt'[r]) * AttemptLength \in Nat
           /\ (FETCH_MAX_RETRIES - (attempt[r] + 1)) * AttemptLength
                = (FETCH_MAX_RETRIES - attempt[r]) * AttemptLength - AttemptLength
<1>1. AttemptLength \in Nat \ {0}
    BY LimitAssumption DEF AttemptLength
<1>2. \A m, k \in Nat : m * k \in Nat /\ (m - 1) * k = m * k - k
    OBVIOUS
<1>3. FETCH_MAX_RETRIES - attempt[r] \in Nat /\ FETCH_MAX_RETRIES - attempt'[r] \in Nat
      /\ FETCH_MAX_RETRIES - (attempt[r] + 1) = (FETCH_MAX_RETRIES - attempt[r]) - 1
    BY LimitAssumption DEF TypeOK
<1> QED BY <1>1, <1>2, <1>3

\* A step within an attempt.
LEMMA SameAttempt ==
    ASSUME TypeOK, TypeOK', NEW r \in Request, attempt'[r] = attempt[r],
           Ahead(r) \in Nat, Ahead(r)' \in Nat
    PROVE  Remaining(r)' - Remaining(r) = Ahead(r)' - Ahead(r)
           /\ Remaining(r) \in Nat /\ Remaining(r)' \in Nat
<1> DEFINE left == (FETCH_MAX_RETRIES - attempt[r]) * AttemptLength
<1>1. left \in Nat
    BY Attempts
<1>2. Remaining(r) = left + Ahead(r) /\ Remaining(r)' = left + Ahead(r)'
    BY DEF Remaining, AttemptLength
<1> HIDE DEF left
<1> QED BY <1>1, <1>2

\* The polls and awaits ahead are a number.
LEMMA AheadType ==
    ASSUME TypeOK, TypeOK', NEW r \in Request
    PROVE  Ahead(r) \in Nat /\ Ahead(r)' \in Nat
<1>1. Ahead(r) \in Nat
    BY LimitAssumption DEF TypeOK, Ahead, AttemptLength
<1>2. Ahead(r)' \in Nat
    BY LimitAssumption DEF TypeOK, Ahead, AttemptLength
<1> QED BY <1>1, <1>2

\* A step of the call uses it up.
LEMMA OwnStep ==
    ASSUME TypeOK, TypeOK', NEW r \in Request, Step(r)
    PROVE  Remaining(r)' < Remaining(r)
<1> USE DEF TypeOK
<1>0. /\ FETCH_WAITING_MAX_INTERVALS \in Nat /\ interval[r] \in Nat
      /\ Ahead(r) \in Nat /\ Ahead(r)' \in Nat
    BY AheadType, LimitAssumption
<1>1. ASSUME attempt'[r] = attempt[r], Ahead(r)' < Ahead(r) PROVE Remaining(r)' < Remaining(r)
    BY <1>0, <1>1, SameAttempt
<1>2. ASSUME NextAttempt(r), pc[r] \in {"wait", "follow"}, Ahead(r) > 0
      PROVE  Remaining(r)' < Remaining(r)
  <2> DEFINE left == (FETCH_MAX_RETRIES - attempt[r]) * AttemptLength
  <2>1. attempt'[r] = attempt[r] + 1 /\ Ahead(r)' = AttemptLength
      BY <1>2 DEF NextAttempt, Ahead, AttemptLength
  <2>2. Remaining(r)' = left - AttemptLength + Ahead(r)' /\ left \in Nat /\ AttemptLength \in Nat
      BY <2>1, Attempts DEF Remaining, AttemptLength
  <2>3. Remaining(r) = left + Ahead(r)
      BY DEF Remaining
  <2> HIDE DEF left
  <2> QED BY <1>0, <1>2, <2>1, <2>2, <2>3
<1>3. CASE Elect(r) \/ GiveUp(r)
  <2>1. attempt'[r] = attempt[r]
      BY <1>3 DEF Elect, GiveUp
  <2>2. Ahead(r)' < Ahead(r)
      BY <1>3, <1>0, LimitAssumption DEF Elect, GiveUp, Ahead, AttemptLength
  <2> QED BY <1>1, <2>1, <2>2
<1>4. CASE Wait(r)
  <2>1. interval[r] <= FETCH_WAITING_MAX_INTERVALS /\ pc[r] = "wait"
      BY <1>4, LimitAssumption DEF Wait
  <2>2. Ahead(r) = FETCH_WAITING_MAX_INTERVALS - interval[r] + 2
      BY <2>1 DEF Ahead
  <2>3. Ahead(r) >= 2
      BY <1>0, <2>1, <2>2
  <2>4. CASE pc' = [pc EXCEPT ![r] = "follow"] /\ UNCHANGED attempt
    <3>1. Ahead(r)' = 1
        BY <2>4 DEF Ahead
    <3> QED BY <1>0, <1>1, <2>3, <2>4, <3>1
  <2>5. CASE interval' = [interval EXCEPT ![r] = @ + 1] /\ UNCHANGED <<pc, attempt>>
    <3>1. Ahead(r)' = FETCH_WAITING_MAX_INTERVALS - (interval[r] + 1) + 2
        BY <2>1, <2>5 DEF Ahead
    <3>2. Ahead(r)' < Ahead(r)
        BY <1>0, <2>2, <3>1
    <3> QED BY <1>1, <2>5, <3>2
  <2>6. CASE NextAttempt(r)
      BY <1>0, <1>2, <2>1, <2>3, <2>6
  <2> QED BY <1>4, <2>4, <2>5, <2>6 DEF Wait
<1>5. CASE Follow(r)
  <2>1. Ahead(r) = 1 /\ pc[r] = "follow"
      BY <1>5 DEF Follow, Ahead
  <2>2. CASE Hit(r)
    <3>1. Ahead(r)' = 0 /\ attempt'[r] = attempt[r]
        BY <2>2 DEF Hit, Ahead
    <3> QED BY <1>1, <2>1, <3>1
  <2>3. CASE ~Hit(r)
      BY <1>2, <1>5, <2>1, <2>3 DEF Follow
  <2> QED BY <2>2, <2>3
<1>6. CASE Load(r) \/ Store(r) \/ LoadFail(r) \/ Unlock(r)
  <2>1. attempt'[r] = attempt[r]
      BY <1>6 DEF Load, Store, LoadFail, Unlock
  <2>2. Ahead(r)' < Ahead(r)
      BY <1>6 DEF Load, Store, LoadFail, Unlock, Ahead
  <2> QED BY <1>1, <2>1, <2>2
<1> QED BY <1>3, <1>4, <1>5, <1>6 DEF Step

\* A call that did not move has as much left as before.
LEMMA Standing ==
    ASSUME NEW r \in Request, TypeOK, TypeOK', pc'[r] = pc[r], attempt'[r] = attempt[r],
           interval'[r] = interval[r]
    PROVE  Remaining(r)' <= Remaining(r)
<1>1. Ahead(r)' = Ahead(r)
    BY DEF Ahead, AttemptLength
<1>2. Ahead(r) \in Nat /\ Ahead(r)' \in Nat
    BY AheadType
<1> QED BY <1>1, <1>2, SameAttempt

\* Attempts, polls and loads of a call are bounded, whatever the other calls and the
\* expiries of lock and cache do (CallsWindDown): the part of Answered that is safety.
THEOREM CallsAlwaysWindDown == Spec => CallsWindDown
<1>1. ASSUME LoadInv, LoadInv', [Next]_vars, NEW r \in Request
      PROVE  /\ Step(r) => Remaining(r)' < Remaining(r)
             /\ "idle" \notin {pc[r], pc'[r]} => Remaining(r)' <= Remaining(r)
  <2> USE DEF LoadInv
  <2>1. Step(r) => Remaining(r)' < Remaining(r)
      BY <1>1, OwnStep
  <2>2. Remaining(r) \in Nat /\ Remaining(r)' \in Nat
    <3>1. Ahead(r) \in Nat /\ Ahead(r)' \in Nat
        BY <1>1, AheadType
    <3>2. /\ (FETCH_MAX_RETRIES - attempt[r]) * AttemptLength \in Nat
          /\ (FETCH_MAX_RETRIES - attempt'[r]) * AttemptLength \in Nat
        BY <1>1, Attempts
    <3> QED BY <3>1, <3>2 DEF Remaining, AttemptLength
  <2>3. ASSUME "idle" \notin {pc[r], pc'[r]}, ~Step(r)
        PROVE  UNCHANGED <<pc[r], attempt[r], interval[r]>>
    <3>1. CASE LockExpire \/ CacheExpire \/ RowChange \/ UNCHANGED vars
        BY <3>1 DEF LockExpire, CacheExpire, RowChange, local, vars
    <3>2. ASSUME NEW s \in Request, Get(s) \/ Step(s) \/ Forget(s)
          PROVE  UNCHANGED <<pc[r], attempt[r], interval[r]>>
      <4>1. s # r
          BY <1>1, <2>3, <3>2 DEF Get, Forget, TypeOK
      <4>2. CASE Get(s)
          BY <1>1, <4>1, <4>2 DEF Get, Hit, TypeOK
      <4>3. CASE Forget(s)
          BY <1>1, <4>1, <4>3 DEF Forget, TypeOK
      <4>4. CASE Elect(s) \/ GiveUp(s) \/ Wait(s)
          BY <1>1, <4>1, <4>4 DEF Elect, GiveUp, Wait, NextAttempt, TypeOK
      <4>5. CASE Follow(s)
          BY <1>1, <4>1, <4>5 DEF Follow, Hit, NextAttempt, TypeOK
      <4>6. CASE Load(s) \/ Store(s) \/ LoadFail(s) \/ Unlock(s)
          BY <1>1, <4>1, <4>6 DEF Load, Store, LoadFail, Unlock, TypeOK
      <4> QED BY <3>2, <4>2, <4>3, <4>4, <4>5, <4>6 DEF Step
    <3> QED BY <1>1, <3>1, <3>2 DEF Next, Return, Die
  <2> QED BY <1>1, <2>1, <2>2, <2>3, Standing
<1>2. LoadInv /\ LoadInv' /\ [Next]_vars
      => [\A r \in Request : /\ Step(r) => Remaining(r)' < Remaining(r)
                             /\ "idle" \notin {pc[r], pc'[r]} => Remaining(r)' <= Remaining(r)]_vars
    BY <1>1
<1> QED BY <1>2, LoadInvariant, PTL DEF Spec, CallsWindDown

=============================================================================
