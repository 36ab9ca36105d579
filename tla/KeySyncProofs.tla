--------------------------- MODULE KeySyncProofs ---------------------------
(***************************************************************************)
(* OneVersion and the types of KeySync, for any sets of keys and workers.  *)
(*                                                                         *)
(* OneVersion is not inductive: what a worker writes to the shared mapping *)
(* must be one version already before it is written, which is so because   *)
(* the response it got is one and, by the time it publishes, its mapping   *)
(* is that response.                                                       *)
(***************************************************************************)
EXTENDS KeySync, TLAPS

Served ==
    /\ {} \in versions
    /\ jwks \in versions
    /\ \A w \in Worker : got[w] \in versions
    /\ \A w \in Worker : at[w] = "publish" => local[w] = got[w]

IInv == TypeOK /\ Served /\ OneVersion

\* The ring keeps its type, whatever happens to the keys.
LEMMA RingStep ==
    ASSUME ring \in [Kid -> RingStatus], RingNext
    PROVE  ring' \in [Kid -> RingStatus]
<1>1. CASE \E k \in Kid : Create(k)
    BY <1>1 DEF Create, RingStatus
<1>2. CASE \E p, k \in Kid, V \in SUBSET Kid : TakeOver(p, k, V)
    BY <1>2 DEF TakeOver, RingStatus
<1>3. CASE \E V \in SUBSET Kid : Retire(V)
    BY <1>3 DEF Retire, RingStatus
<1> QED BY <1>1, <1>2, <1>3 DEF RingNext

\* The initial state.
LEMMA InitIInv == Init => IInv
<1> SUFFICES ASSUME Init PROVE IInv
    OBVIOUS
<1>1. TypeOK
    BY DEF Init, TypeOK, RingInit, RingStatus, Mapping, Steps
<1>2. Served /\ OneVersion
    BY DEF Init, Served, OneVersion
<1> QED BY <1>1, <1>2 DEF IInv

\* The types: only the ring needs more than the assignments of the step.
LEMMA NextTypeOK == TypeOK /\ [Next]_vars => TypeOK'
<1> SUFFICES ASSUME TypeOK, [Next]_vars PROVE TypeOK'
    OBVIOUS
<1> USE OutcomeAssumption DEF TypeOK, Mapping, Steps, auth
<1>1. CASE rotate
    BY <1>1, RingStep DEF rotate
<1>2. CASE publish_jwks
    BY <1>2 DEF publish_jwks, Verifying
<1>3. CASE lock_expires \/ redis_lost
    BY <1>3 DEF lock_expires, redis_lost
<1>4. ASSUME NEW w \in Worker, boot(w) \/ take_poll_lock(w) \/ wait_for_mapping(w) \/ give_up(w)
      PROVE  TypeOK'
  <2>1. CASE boot(w)
    <3>1. PICK m \in {global, Raised} :
             IF m = Raised THEN UNCHANGED <<local, at, monitoring>>
             ELSE /\ local' = [local EXCEPT ![w] = m]
                  /\ at' = [at EXCEPT ![w] = IF m = {} THEN "lock" ELSE "up"]
                  /\ monitoring' = [monitoring EXCEPT ![w] = m # {}]
        BY <2>1 DEF boot, get_global_key_mapping
    <3>2. CASE m = Raised
        BY <2>1, <3>1, <3>2 DEF boot
    <3>3. CASE m # Raised
      <4>1. PICK b \in BOOLEAN : b = (m # {})
          OBVIOUS
      <4>2. m \in SUBSET Kid /\ (IF m = {} THEN "lock" ELSE "up") \in Steps
          BY <3>3
      <4>3. /\ local' \in [Worker -> Mapping] /\ at' \in [Worker -> Steps]
            /\ monitoring' \in [Worker -> BOOLEAN]
        <5>1. local' = [local EXCEPT ![w] = m]
            BY <3>1, <3>3
        <5>2. at' = [at EXCEPT ![w] = IF m = {} THEN "lock" ELSE "up"]
            BY <3>1, <3>3
        <5>3. monitoring' = [monitoring EXCEPT ![w] = b]
            BY <3>1, <3>3, <4>1
        <5> QED BY <4>2, <5>1, <5>2, <5>3
      <4> QED BY <2>1, <4>3 DEF boot
    <3> QED BY <3>2, <3>3
  <2>2. CASE take_poll_lock(w) \/ give_up(w)
      BY <2>2 DEF take_poll_lock, give_up
  <2>3. CASE wait_for_mapping(w)
      BY <2>3 DEF wait_for_mapping, get_global_key_mapping
  <2> QED BY <1>4, <2>1, <2>2, <2>3
<1>5. ASSUME NEW w \in Worker, get_jwks(w)
      PROVE  TypeOK'
    BY <1>5 DEF get_jwks
<1>6. ASSUME NEW w \in Worker, load_keys(w)
      PROVE  TypeOK'
    BY <1>6 DEF load_keys
<1>7. ASSUME NEW w \in Worker, publish_mapping(w) \/ release_poll_lock(w)
      PROVE  TypeOK'
    BY <1>7 DEF publish_mapping, release_poll_lock, Overwrite
<1>8. ASSUME NEW w \in Worker, read_global(w) \/ adopt_global(w)
      PROVE  TypeOK'
    BY <1>8 DEF read_global, adopt_global, get_global_key_mapping
<1>9. ASSUME NEW w \in Worker, sync_jwks(w) \/ stop(w)
      PROVE  TypeOK'
    BY <1>9 DEF sync_jwks, stop
<1>10. CASE UNCHANGED vars
    BY <1>10 DEF vars
<1> QED BY <1>1, <1>2, <1>3, <1>4, <1>5, <1>6, <1>7, <1>8, <1>9, <1>10 DEF Next

\* A step that neither fetches nor loads leaves responses, mappings and versions related
\* as they were; the two that do are where the invariant is earned.
LEMMA NextVersions == IInv /\ [Next]_vars => (Served /\ OneVersion)'
<1> SUFFICES ASSUME IInv, [Next]_vars PROVE (Served /\ OneVersion)'
    OBVIOUS
<1> USE DEF IInv, Served, OneVersion, TypeOK, auth
<1>1. CASE rotate \/ lock_expires \/ redis_lost
    BY <1>1 DEF rotate, lock_expires, redis_lost
<1>2. CASE publish_jwks
    BY <1>2 DEF publish_jwks
<1>3. ASSUME NEW w \in Worker, boot(w)
      PROVE  (Served /\ OneVersion)'
    BY <1>3 DEF boot, get_global_key_mapping
<1>4. ASSUME NEW w \in Worker, take_poll_lock(w) \/ give_up(w)
      PROVE  (Served /\ OneVersion)'
    BY <1>4 DEF take_poll_lock, give_up
<1>5. ASSUME NEW w \in Worker, wait_for_mapping(w)
      PROVE  (Served /\ OneVersion)'
    BY <1>5 DEF wait_for_mapping, get_global_key_mapping
<1>6. ASSUME NEW w \in Worker, get_jwks(w)
      PROVE  (Served /\ OneVersion)'
    BY <1>6 DEF get_jwks
<1>7. ASSUME NEW w \in Worker, load_keys(w)
      PROVE  (Served /\ OneVersion)'
  <2>1. local'[w] \subseteq got[w]
    BY <1>7 DEF load_keys
  <2>2. got' = got /\ versions' = versions /\ jwks' = jwks /\ global' = global /\ reading' = reading
    BY <1>7 DEF load_keys
  <2>3. \A x \in Worker : x # w => local'[x] = local[x] /\ at'[x] = at[x]
    BY <1>7 DEF load_keys
  <2>4. at'[w] = "publish" => local'[w] = got[w]
    BY <1>7 DEF load_keys
  <2>5. \A x \in Worker : \E v \in versions : local'[x] \subseteq v
    BY <2>1, <2>3
  <2>6. \A x \in Worker : at'[x] = "publish" => local'[x] = got[x]
    BY <2>3, <2>4
  <2> QED BY <2>2, <2>5, <2>6
<1>8. ASSUME NEW w \in Worker, publish_mapping(w)
      PROVE  (Served /\ OneVersion)'
    BY <1>8 DEF publish_mapping, Overwrite
<1>9. ASSUME NEW w \in Worker, release_poll_lock(w)
      PROVE  (Served /\ OneVersion)'
    BY <1>9 DEF release_poll_lock
<1>10. ASSUME NEW w \in Worker, read_global(w)
       PROVE  (Served /\ OneVersion)'
    BY <1>10 DEF read_global, get_global_key_mapping
<1>11. ASSUME NEW w \in Worker, adopt_global(w)
       PROVE  (Served /\ OneVersion)'
  <2>1. reading[w] \in versions /\ local'[w] = reading[w] /\ at'[w] # "publish"
    BY <1>11 DEF adopt_global
  <2> QED BY <1>11, <2>1 DEF adopt_global
<1>12. ASSUME NEW w \in Worker, sync_jwks(w)
       PROVE  (Served /\ OneVersion)'
    BY <1>12 DEF sync_jwks
<1>13. ASSUME NEW w \in Worker, stop(w)
       PROVE  (Served /\ OneVersion)'
    BY <1>13 DEF stop
<1>14. CASE UNCHANGED vars
    BY <1>14 DEF vars
<1> QED BY <1>1, <1>2, <1>3, <1>4, <1>5, <1>6, <1>7, <1>8, <1>9, <1>10, <1>11, <1>12, <1>13, <1>14 DEF Next

\* The invariant of KeySync, for every set of keys, bound and set of workers.
LEMMA Invariant == Spec => []IInv
<1>1. IInv /\ [Next]_vars => IInv'
    BY NextTypeOK, NextVersions DEF IInv
<1> QED BY InitIInv, <1>1, PTL DEF Spec

\* The ring, the published keys and the state of every worker keep their types through
\* every step of update_jwks, validate_access_token and the auth server.
THEOREM KeySyncTypes == Spec => []TypeOK
<1>1. IInv => TypeOK
    BY DEF IInv
<1> QED BY Invariant, <1>1, PTL

\* However many workers fetch at once, whenever the poll lock expires and whatever the JWKS
\* file then holds of the keys, the shared mapping is one JWKS the auth server has served,
\* and no worker trusts two keys that were not served together.
THEOREM MappingsAreVersions == Spec => []OneVersion
<1>1. IInv => OneVersion
    BY DEF IInv
<1> QED BY Invariant, <1>1, PTL
=============================================================================
