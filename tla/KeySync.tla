------------------------------ MODULE KeySync ------------------------------
(***************************************************************************)
(* How the workers of the resource server come by the public keys they     *)
(* verify access tokens with: KeyManager, the lifespan of a worker and     *)
(* validate_access_token, composed with what the key store of the auth     *)
(* server promises (KeyRing, which KeyStore implements).                   *)
(*                                                                         *)
(* The auth server serves its JWKS file.  A worker keeps a mapping of its  *)
(* own; all workers share one in Redis, which the first to boot fills from *)
(* the JWKS under a lock that expires.  Nobody fetches the JWKS again      *)
(* while the shared mapping is there.                                      *)
(***************************************************************************)
EXTENDS KeyRing

CONSTANTS
    Worker,       \* worker processes of the resource server
    Free,         \* the poll lock is not taken
    None,         \* no read of the shared mapping under way
    Raised,       \* the outcome of a read of the shared mapping that raised
    MaxVersions   \* bound: different JWKS contents in a behaviour

ASSUME WorkerAssumption == Free \notin Worker
ASSUME OutcomeAssumption == \A m \in SUBSET Kid : m # Raised
ASSUME VersionsAssumption == MaxVersions \in Nat

VARIABLES
    jwks,         \* the JWKS the auth server serves
    versions,     \* history: every JWKS it has served
    global,       \* JWKS_MAPPING, the mapping the workers share in Redis
    lock,         \* JWKS_POLL_LOCK: who took it; nobody compares that
    at,           \* what each worker is doing
    local,        \* current_mapping of each worker
    got,          \* the response to its request for the JWKS
    reading,      \* what a request under way has read of the shared mapping, or None
    monitoring    \* whether the worker's sync_jwks task runs

vars == <<ring, jwks, versions, global, lock, at, local, got, reading, monitoring>>

auth == <<ring, jwks, versions>>

Mapping == SUBSET Kid       \* key ids; a mapping gives each its public key

Steps == {"down", "lock", "wait", "fetch", "load", "publish", "release", "up"}

(***************************************************************************)
(* The auth server                                                         *)
(***************************************************************************)

rotate ==
    /\ RingNext
    /\ UNCHANGED <<jwks, versions, global, lock, at, local, got, reading, monitoring>>

\* The file is rewritten by update_jwks and the other handlers, of which KeyStore models
\* each: it may lag behind the keys, lack one that still verifies or list one that has
\* expired, so any keys that were created may be in it.
publish_jwks ==
    /\ jwks' \in SUBSET {k \in Kid : ring[k] # "absent"}
    /\ versions' = versions \cup {jwks'} /\ Cardinality(versions') <= MaxVersions
    /\ UNCHANGED <<ring, global, lock, at, local, got, reading, monitoring>>

(***************************************************************************)
(* Start of a worker: lifespan and update_jwks                             *)
(***************************************************************************)

\* The outcomes of hgetall and of .encode() on each value.  The client is made without
\* decode_responses, so the values are bytes, which have no encode: as the code stands
\* every read of a mapping that is not empty raises.  With the values decoded, and for
\* the empty mapping, it is the shared mapping, unless Redis fails.
get_global_key_mapping == {global, Raised}

\* The shared mapping will do, if there is one.  A read that raises leaves the worker down.
boot(w) ==
    /\ at[w] = "down"
    /\ \E m \in get_global_key_mapping :
          IF m = Raised THEN UNCHANGED <<local, at, monitoring>>
          ELSE /\ local' = [local EXCEPT ![w] = m]
               /\ at' = [at EXCEPT ![w] = IF m = {} THEN "lock" ELSE "up"]
               /\ monitoring' = [monitoring EXCEPT ![w] = m # {}]
    /\ UNCHANGED <<auth, global, lock, got, reading>>

\* SET NX EX
take_poll_lock(w) ==
    /\ at[w] = "lock"
    /\ IF lock = Free THEN lock' = w /\ at' = [at EXCEPT ![w] = "fetch"]
                      ELSE lock' = lock /\ at' = [at EXCEPT ![w] = "wait"]
    /\ UNCHANGED <<auth, global, local, got, reading, monitoring>>

\* The other worker is given some polls to fill the shared mapping ...
wait_for_mapping(w) ==
    /\ at[w] = "wait"
    /\ \E m \in get_global_key_mapping \ {{}, Raised} : local' = [local EXCEPT ![w] = m]
    /\ at' = [at EXCEPT ![w] = "up"]
    /\ monitoring' = [monitoring EXCEPT ![w] = TRUE]
    /\ UNCHANGED <<auth, global, lock, got, reading>>

\* ... after which, or when a read raises, it does not start: "Failed to concile JWKS".
give_up(w) ==
    /\ at[w] = "wait"
    /\ get_global_key_mapping \cap {{}, Raised} # {}
    /\ at' = [at EXCEPT ![w] = "down"]
    /\ UNCHANGED <<auth, global, lock, local, got, reading, monitoring>>

\* get_jwks: the keys, or nothing (not a 200, a timeout, an empty list)
get_jwks(w) ==
    /\ at[w] = "fetch"
    /\ \/ /\ jwks # {}
          /\ got' = [got EXCEPT ![w] = jwks]
          /\ at' = [at EXCEPT ![w] = "load"]
       \/ /\ at' = [at EXCEPT ![w] = "release"]
          /\ UNCHANGED got
    /\ UNCHANGED <<auth, global, lock, local, reading, monitoring>>

\* Mutant of load_keys: the mapping is set to the parsed list.
load_list(w) ==
    /\ at[w] = "load"
    /\ local' = [local EXCEPT ![w] = {got[w]}]
    /\ at' = [at EXCEPT ![w] = "publish"]
    /\ UNCHANGED <<auth, global, lock, got, reading, monitoring>>

\* Keys that are gone are dropped and new ones parsed; one that cannot be parsed raises,
\* and the ones before it stay.
load_keys(w) ==
    /\ at[w] = "load"
    /\ \E parsed \in SUBSET got[w] :
          /\ local' = [local EXCEPT ![w] = (@ \cap got[w]) \cup parsed]
          /\ at' = [at EXCEPT ![w] = IF local'[w] = got[w] THEN "publish" ELSE "release"]
    /\ UNCHANGED <<auth, global, lock, got, reading, monitoring>>

\* Mutant of Overwrite: HSET without the DELETE before it.
Merge(keys) == global' = global \cup keys

\* DELETE and HSET in one MULTI
Overwrite(keys) == global' = keys

publish_mapping(w) ==
    /\ at[w] = "publish"
    /\ \/ Overwrite(local[w])
       \/ UNCHANGED global                             \* raised, and was printed
    /\ at' = [at EXCEPT ![w] = "release"]
    /\ UNCHANGED <<auth, lock, local, got, reading, monitoring>>

\* finally: the lock goes, whosever it is by now.  The worker starts, with no keys at all
\* if it was given none.
release_poll_lock(w) ==
    /\ at[w] = "release"
    /\ lock' = Free
    /\ got' = [got EXCEPT ![w] = {}]
    /\ at' = [at EXCEPT ![w] = "up"]
    /\ monitoring' = [monitoring EXCEPT ![w] = TRUE]
    /\ UNCHANGED <<auth, global, local, reading>>

lock_expires ==
    /\ lock # Free
    /\ lock' = Free
    /\ UNCHANGED <<auth, global, at, local, got, reading, monitoring>>

(***************************************************************************)
(* A worker that is up                                                     *)
(***************************************************************************)

\* validate_access_token with a key id the worker does not know reads the shared mapping,
\* and only after the reply assigns it.  A key it knows changes nothing, nor does a read
\* that raises: the request fails.
read_global(w) ==
    /\ at[w] = "up"
    /\ \E k \in Kid : k \notin local[w]
    /\ reading[w] = None
    /\ \E m \in get_global_key_mapping \ {Raised} : reading' = [reading EXCEPT ![w] = m]
    /\ UNCHANGED <<auth, global, lock, at, local, got, monitoring>>

adopt_global(w) ==
    /\ at[w] = "up"
    /\ reading[w] # None
    /\ local' = [local EXCEPT ![w] = reading[w]]
    /\ reading' = [reading EXCEPT ![w] = None]
    /\ UNCHANGED <<auth, global, lock, at, got, monitoring>>

\* sync_jwks: an announcement of keys the worker knows changes nothing; any other pops a
\* key that is not there, and the exception ends the task.
sync_jwks(w) ==
    /\ monitoring[w]
    /\ \E announced \in SUBSET Kid :
          monitoring' = [monitoring EXCEPT ![w] = announced \subseteq local[w]]
    /\ UNCHANGED <<auth, global, lock, at, local, got, reading>>

\* A worker stops, or dies at any point of its start or of a request.
stop(w) ==
    /\ at[w] # "down"
    /\ at' = [at EXCEPT ![w] = "down"]
    /\ local' = [local EXCEPT ![w] = {}]
    /\ got' = [got EXCEPT ![w] = {}]
    /\ reading' = [reading EXCEPT ![w] = None]
    /\ monitoring' = [monitoring EXCEPT ![w] = FALSE]
    /\ UNCHANGED <<auth, global, lock>>

\* The application's Redis is restarted empty.
redis_lost ==
    /\ global' = {}
    /\ lock' = Free
    /\ UNCHANGED <<auth, at, local, got, reading, monitoring>>

(***************************************************************************)
(* Specification                                                           *)
(***************************************************************************)

Init ==
    /\ RingInit
    /\ jwks = {}
    /\ versions = {{}}
    /\ global = {}
    /\ lock = Free
    /\ at = [w \in Worker |-> "down"]
    /\ local = [w \in Worker |-> {}]
    /\ got = [w \in Worker |-> {}]
    /\ reading = [w \in Worker |-> None]
    /\ monitoring = [w \in Worker |-> FALSE]

Next ==
    \/ rotate \/ publish_jwks \/ lock_expires \/ redis_lost
    \/ \E w \in Worker :
          \/ boot(w) \/ take_poll_lock(w) \/ wait_for_mapping(w) \/ give_up(w)
          \/ get_jwks(w) \/ load_keys(w) \/ publish_mapping(w) \/ release_poll_lock(w)
          \/ read_global(w) \/ adopt_global(w) \/ sync_jwks(w) \/ stop(w)

Spec == Init /\ [][Next]_vars

(***************************************************************************)
(* Properties                                                              *)
(***************************************************************************)

\* Types of the ring, the published keys, the shared mapping and the workers.
TypeOK ==
    /\ ring \in [Kid -> RingStatus]
    /\ jwks \subseteq Kid /\ versions \subseteq SUBSET Kid /\ global \subseteq Kid
    /\ lock \in Worker \cup {Free}
    /\ at \in [Worker -> Steps]
    /\ local \in [Worker -> Mapping]
    /\ got \in [Worker -> Mapping]
    /\ reading \in [Worker -> {None} \cup Mapping]
    /\ monitoring \in [Worker -> BOOLEAN]

\* Two workers fetch at once when the lock expires or is deleted by the other's finally
\* clause, and the JWKS changes between their fetches.  Still the shared mapping is one
\* JWKS the auth server has served, whole, and no worker trusts at once two keys that
\* were not served together: update_jwks overwrites the mapping, and a read of it that is
\* adopted late is still a read of one version.  Which version, nothing bounds: the JWKS
\* may itself be late, and what a worker has adopted stays.
OneVersion ==
    /\ global \in versions
    /\ \A w \in Worker : \E v \in versions : local[w] \subseteq v
    /\ \A w \in Worker : reading[w] # None => reading[w] \in versions
=============================================================================
