------------------------------ MODULE KeyStore ------------------------------
(***************************************************************************)
(* The signing-key store of the auth server: the keydata table, the JWKS   *)
(* file and the PEM directories, the Redis list VALID_KEYS, and the        *)
(* TokenManager of every worker process.  Three admin handlers change it   *)
(* (rotate_keys, invalidate_key, clean_keystore), a background poller      *)
(* copies VALID_KEYS into each TokenManager, and a worker that boots       *)
(* rewrites the files (master) or only loads the table (slave).            *)
(*                                                                         *)
(* Grain: one action per stretch of code between two awaits.  A handler    *)
(* runs in a worker; its SQL statements see committed rows and its own     *)
(* writes (READ COMMITTED), its writes become visible at commit, and the   *)
(* row locks of SELECT ... FOR UPDATE are held until commit or rollback.   *)
(*                                                                         *)
(* The Redis calls the handlers make without await never reach Redis: the  *)
(* coroutine they return is truthy and is dropped.  So the three Redis     *)
(* locks are never taken, and both the read of VALID_KEYS in rotate_keys   *)
(* and the one in invalidate_key end the handler with a TypeError.         *)
(***************************************************************************)
EXTENDS Naturals, Sequences, FiniteSets

CONSTANTS Kid,            \* key ids that generate_ecdsa_pair can draw
          NoKid,          \* no key id
          Worker,         \* worker processes of the auth server
          NoWorker,       \* no worker
          Polling,        \* the workers whose poller gets to run (every 30 s)
          Req,            \* slots for concurrent admin requests
          MaxValidKeys,   \* config.KEYS.MAX_VALID_KEYS
          JwksCap,        \* config.JWKS.JWKS_CAP
          MaxNow          \* bound on the timestamps handed out

ASSUME KidAssumption == IsFiniteSet(Kid) /\ NoKid \notin Kid
ASSUME WorkerAssumption == NoWorker \notin Worker /\ Polling \subseteq Worker
ASSUME CapAssumption == /\ MaxValidKeys \in Nat \ {0}
                        /\ JwksCap \in Nat \ {0}
                        /\ MaxNow \in Nat

VARIABLES status,          \* keydata rows as committed: rotated_out_at, expired_at
          epoch,           \* keydata.epoch, as a logical time
          rotated_out_at,  \* keydata.rotated_out_at, as an order
          now,             \* logical clock of epochs
          jwks,            \* kids in the JWKS file, in file order
          public_pem,      \* kids with a public PEM file (no code reads the private ones)
          valid_keys,      \* Redis list VALID_KEYS, read only as a set
          boot_master,     \* Redis AUTH_BOOTUP_MASTER: its holder
          abort,           \* Redis ABORT
          mode,            \* where a worker is in its lifespan
          keydata,         \* rows a booting master has read
          active_key,      \* TokenManager.active_key per worker
          key_mapping,     \* TokenManager.key_mapping per worker (its kids)
          poll,            \* a poll_store round in progress per worker
          req,             \* handler state per request slot
          saved            \* JWKS content a handler read at its start

dbVars == <<status, epoch, rotated_out_at, now>>
fileVars == <<jwks, public_pem>>
bootVars == <<boot_master, abort, mode, keydata>>
managerVars == <<active_key, key_mapping, poll>>
reqVars == <<req, saved>>
vars == <<dbVars, fileVars, valid_keys, bootVars, managerVars, reqVars>>

-----------------------------------------------------------------------------
(* States and their types *)

RowStatus == {"absent", "active", "rotated", "expired"}
MasterModes == {"read", "insert", "commit", "sync", "purge", "publish", "finish"}
Modes == MasterModes \cup {"down", "wait", "up"}
RotateTxn == {"rot_lock", "rot_write", "rot_overflow", "rot_commit"}
InvalidateTxn == {"inv_lock", "inv_files", "inv_commit"}
CleanTxn == {"clean_select", "clean_lock", "clean_files", "clean_commit"}
Steps == RotateTxn \cup InvalidateTxn \cup CleanTxn
           \cup {"idle", "rot_files", "inv_local", "clean_publish"}

\* kid: the key created or invalidated; prev: the active key read by the
\* handler; victims: rows its transaction expires; locks: row locks it holds;
\* stamp: when its transaction began, which is the CURRENT_TIMESTAMP it inserts;
\* pems: the PEM files clean_keystore has read for its rollback.
Handler == [step : Steps, at : Worker \cup {NoWorker}, kid : Kid \cup {NoKid},
            prev : Kid \cup {NoKid}, victims : SUBSET Kid, locks : SUBSET Kid,
            stamp : Nat, pems : SUBSET Kid]
Fresh(step, w, k, t, P) == [step |-> step, at |-> w, kid |-> k, prev |-> NoKid,
                            victims |-> {}, locks |-> {}, stamp |-> t, pems |-> P]
Idle == Fresh("idle", NoWorker, NoKid, 0, {})

Round == [on : BOOLEAN, fetch : SUBSET Kid, evict : SUBSET Kid]
NoRound == [on |-> FALSE, fetch |-> {}, evict |-> {}]

CoreTypeOK ==
    /\ status \in [Kid -> RowStatus]
    /\ epoch \in [Kid -> Nat]
    /\ rotated_out_at \in [Kid -> Nat]
    /\ now \in Nat
    /\ public_pem \subseteq Kid
    /\ valid_keys \subseteq Kid
    /\ boot_master \in Worker \cup {NoWorker}
    /\ abort \in BOOLEAN
    /\ mode \in [Worker -> Modes]
    /\ keydata \in [Worker -> Seq(Kid)]
    /\ active_key \in [Worker -> Kid \cup {NoKid}]
    /\ key_mapping \in [Worker -> SUBSET Kid]
    /\ poll \in [Worker -> Round]
    /\ req \in [Req -> Handler]

\* Every variable holds a value of its type.
TypeOK ==
    /\ CoreTypeOK
    /\ jwks \in Seq(Kid)
    /\ saved \in [Req -> Seq(Kid)]

-----------------------------------------------------------------------------
(* Reading the keydata table *)

Active == {k \in Kid : status[k] = "active"}
Rotated == {k \in Kid : status[k] = "rotated"}
Expired == {k \in Kid : status[k] = "expired"}

\* Rows of get_relevant_keydata: expired_at is null.
Valid == Active \cup Rotated

\* s lists the rows S as "order by epoch desc" does.
NewestFirst(s, S) ==
    /\ S = {s[i] : i \in DOMAIN s}
    /\ \A i, j \in DOMAIN s : i < j => epoch[s[i]] > epoch[s[j]]

\* "order by rotated_out_at asc limit 1" among the rows S.
OldestRotated(S) == {k \in S : \A j \in S : rotated_out_at[k] <= rotated_out_at[j]}

\* Some other open transaction holds the row lock of k.
LockedByOther(r, k) == \E s \in Req \ {r} : k \in req[s].locks

Kids(s) == {s[i] : i \in DOMAIN s}

\* How many members of S are not after i.
Rank(S, i) == Cardinality({h \in S : h <= i})

\* The entries of s other than k, in their order.
Without(s, k) ==
    LET kept == {i \in DOMAIN s : s[i] # k}
    IN [j \in 1 .. Cardinality(kept) |-> s[CHOOSE i \in kept : Rank(kept, i) = j]]

FirstN(s, n) == IF Len(s) > n THEN SubSeq(s, 1, n) ELSE s
\* Mutant of LastN: keeps one entry too many.
LastNPlusOne(s, n) == IF Len(s) > n + 1 THEN SubSeq(s, Len(s) - n, Len(s)) ELSE s
LastN(s, n) == IF Len(s) > n THEN SubSeq(s, Len(s) - n + 1, Len(s)) ELSE s

-----------------------------------------------------------------------------
Init ==
    /\ status = [k \in Kid |-> "absent"]
    /\ epoch = [k \in Kid |-> 0]
    /\ rotated_out_at = [k \in Kid |-> 0]
    /\ now = 0
    /\ jwks = <<>>
    /\ public_pem = {}
    /\ valid_keys = {}
    /\ boot_master = NoWorker
    /\ abort = FALSE
    /\ mode = [w \in Worker |-> "down"]
    /\ keydata = [w \in Worker |-> <<>>]
    /\ active_key = [w \in Worker |-> NoKid]
    /\ key_mapping = [w \in Worker |-> {}]
    /\ poll = [w \in Worker |-> NoRound]
    /\ req = [r \in Req |-> Idle]
    /\ saved = [r \in Req |-> <<>>]

\* The handler of slot r returns or raises; its session is closed.
End(r) == /\ req' = [req EXCEPT ![r] = Idle]
          /\ saved' = [saved EXCEPT ![r] = <<>>]

-----------------------------------------------------------------------------
(* rotate_keys.  A staff admin never gets past the cooldown test, whose    *)
(* flag is a coroutine and so always truthy: only other roles begin here.  *)

\* Admission: the session's first statement (get_verification_key) begins the
\* transaction, so the epoch of the row it will insert is fixed now.
RotateBegin(r, w) ==
    /\ req[r].step = "idle" /\ mode[w] = "up" /\ now < MaxNow
    /\ now' = now + 1
    /\ req' = [req EXCEPT ![r] = Fresh("rot_lock", w, NoKid, now + 1, {})]
    /\ UNCHANGED <<status, epoch, rotated_out_at, fileVars, valid_keys, bootVars,
                   managerVars, saved>>

\* Mutant of RotateLock: the SELECT without FOR UPDATE.
RotateLockUnlocked(r) ==
    /\ req[r].step = "rot_lock"
    /\ \E p \in Active :
          /\ Active = {p}
          /\ req' = [req EXCEPT ![r].step = "rot_write", ![r].prev = p]
    /\ UNCHANGED <<dbVars, fileVars, valid_keys, bootVars, managerVars, saved>>

\* SELECT kid WHERE rotated_out_at IS NULL FOR NO KEY UPDATE NOWAIT, scalar_one.
RotateLock(r) ==
    /\ req[r].step = "rot_lock"
    /\ \E p \in Active :
          /\ Active = {p}
          /\ ~LockedByOther(r, p)
          /\ req' = [req EXCEPT ![r].step = "rot_write", ![r].prev = p,
                                ![r].locks = {p}]
    /\ UNCHANGED <<dbVars, fileVars, valid_keys, bootVars, managerVars, saved>>

\* Mutant of RotateWrite: the valid rows are counted before the insert.
RotateWriteCountsOld(r) ==
    /\ req[r].step = "rot_write"
    /\ \E k \in Kid :
          /\ status[k] = "absent"
          /\ req' = [req EXCEPT ![r].kid = k,
                                ![r].step = IF Cardinality(Valid) > MaxValidKeys
                                            THEN "rot_overflow" ELSE "rot_commit"]
    /\ UNCHANGED <<dbVars, fileVars, valid_keys, bootVars, managerVars, saved>>

\* UPDATE the previous key, INSERT the new one (a kid already in the table
\* violates the primary key: RotateAbort), then count the valid rows.
RotateWrite(r) ==
    /\ req[r].step = "rot_write"
    /\ \E k \in Kid :
          /\ status[k] = "absent"
          /\ req' = [req EXCEPT ![r].kid = k,
                                ![r].step = IF Cardinality(Valid) + 1 > MaxValidKeys
                                            THEN "rot_overflow" ELSE "rot_commit"]
    /\ UNCHANGED <<dbVars, fileVars, valid_keys, bootVars, managerVars, saved>>

\* Lock and expire the oldest rotated key; the previous key, rotated by this
\* transaction a moment ago, is the oldest only when there is no other.
RotateOverflow(r) ==
    /\ req[r].step = "rot_overflow"
    /\ \E v \in IF Rotated = {} THEN {req[r].prev} ELSE OldestRotated(Rotated) :
          /\ ~LockedByOther(r, v)
          /\ req' = [req EXCEPT ![r].victims = {v}, ![r].locks = @ \cup {v},
                                ![r].step = "rot_commit"]
    /\ UNCHANGED <<dbVars, fileVars, valid_keys, bootVars, managerVars, saved>>

\* The table after rotation h commits.
RotatedTable(h) ==
    [k \in Kid |-> IF k \in h.victims THEN "expired"
                   ELSE IF k = h.kid THEN "active"
                   ELSE IF k = h.prev THEN "rotated" ELSE status[k]]

RotateCommit(r) ==
    /\ req[r].step = "rot_commit"
    /\ status' = RotatedTable(req[r])
    /\ epoch' = [epoch EXCEPT ![req[r].kid] = req[r].stamp]
    /\ rotated_out_at' = [rotated_out_at EXCEPT ![req[r].prev] =
                            Cardinality(Rotated \cup Expired) + 1]
    /\ req' = [req EXCEPT ![r].step = "rot_files", ![r].locks = {}]
    /\ UNCHANGED <<now, fileVars, valid_keys, bootVars, managerVars, saved>>

\* SQLAlchemyError (NOWAIT conflict, no or several active rows, duplicate kid,
\* lost connection): rollback, 500.
RotateAbort(r) ==
    /\ req[r].step \in RotateTxn
    /\ End(r)
    /\ UNCHANGED <<dbVars, fileVars, valid_keys, bootVars, managerVars>>

\* update_jwks and write_ecdsa_pair.  The unlink that follows builds its path
\* under the JWKS file, raises NotADirectoryError and ends the handler before
\* the TokenManager, VALID_KEYS and the cooldown are updated.
RotateFiles(r) ==
    /\ req[r].step = "rot_files"
    /\ jwks' = LastN(Append(jwks, req[r].kid), MaxValidKeys)
    /\ public_pem' = public_pem \cup {req[r].kid}
    /\ End(r)
    /\ UNCHANGED <<dbVars, valid_keys, bootVars, managerVars>>

-----------------------------------------------------------------------------
(* invalidate_key *)

\* The JWKS file is read before the first await.
InvalidateBegin(r, w, k) ==
    /\ req[r].step = "idle" /\ mode[w] = "up"
    /\ req' = [req EXCEPT ![r] = Fresh("inv_lock", w, k, 0, {})]
    /\ saved' = [saved EXCEPT ![r] = jwks]
    /\ UNCHANGED <<dbVars, fileVars, valid_keys, bootVars, managerVars>>

\* 404 and both 409 answers: HTTPException is not caught, nothing was written.
InvalidateReject(r) ==
    /\ req[r].step = "inv_lock"
    /\ status[req[r].kid] # "rotated"
    /\ ~LockedByOther(r, req[r].kid)
    /\ End(r)
    /\ UNCHANGED <<dbVars, fileVars, valid_keys, bootVars, managerVars>>

\* Mutant of InvalidateLock: the test of rotated_out_at is dropped.
InvalidateLockAny(r) ==
    /\ req[r].step = "inv_lock"
    /\ status[req[r].kid] \in {"active", "rotated"}
    /\ ~LockedByOther(r, req[r].kid)
    /\ req' = [req EXCEPT ![r].step = "inv_files", ![r].victims = {req[r].kid},
                          ![r].locks = {req[r].kid}]
    /\ UNCHANGED <<dbVars, fileVars, valid_keys, bootVars, managerVars, saved>>

\* SELECT ... FOR UPDATE NOWAIT finds a rotated, unexpired row; UPDATE follows.
InvalidateLock(r) ==
    /\ req[r].step = "inv_lock"
    /\ status[req[r].kid] = "rotated"
    /\ ~LockedByOther(r, req[r].kid)
    /\ req' = [req EXCEPT ![r].step = "inv_files", ![r].victims = {req[r].kid},
                          ![r].locks = {req[r].kid}]
    /\ UNCHANGED <<dbVars, fileVars, valid_keys, bootVars, managerVars, saved>>

\* The file gets the content read at the start minus the key, not the content
\* it has now minus the key.
InvalidateFiles(r) ==
    /\ req[r].step = "inv_files"
    /\ jwks' = Without(saved[r], req[r].kid)
    /\ public_pem' = public_pem \ {req[r].kid}
    /\ req' = [req EXCEPT ![r].step = "inv_commit"]
    /\ UNCHANGED <<dbVars, valid_keys, bootVars, managerVars, saved>>

ExpiredTable(h) == [k \in Kid |-> IF k \in h.victims THEN "expired" ELSE status[k]]

InvalidateCommit(r) ==
    /\ req[r].step = "inv_commit"
    /\ status' = ExpiredTable(req[r])
    /\ req' = [req EXCEPT ![r].step = "inv_local", ![r].locks = {}]
    /\ UNCHANGED <<epoch, rotated_out_at, now, fileVars, valid_keys, bootVars,
                   managerVars, saved>>

\* Mutant of Invalidated: the active key is popped like any other.
InvalidatedAny(w, S) == key_mapping[w] \ S

\* TokenManager.invalidate_key: pops the key, or raises for the active one.
Invalidated(w, S) == key_mapping[w] \ (S \ {active_key[w]})

\* Either way the handler ends here: by that RuntimeError, or by the TypeError
\* of the membership test on the coroutine, so VALID_KEYS keeps the key.
InvalidateLocal(r) ==
    /\ req[r].step = "inv_local"
    /\ key_mapping' = [key_mapping EXCEPT ![req[r].at] =
                         Invalidated(req[r].at, {req[r].kid})]
    /\ End(r)
    /\ UNCHANGED <<dbVars, fileVars, valid_keys, bootVars, active_key, poll>>

\* SQLAlchemyError or OSError: rollback, and the content read at the start goes
\* back to the file.  The public PEM is regenerated from the row if that was read;
\* the rollback has expired the row object, so reading it may raise instead.
InvalidateFail(r) ==
    /\ req[r].step \in InvalidateTxn
    /\ jwks' = saved[r]
    /\ public_pem' \in {public_pem, public_pem \cup {req[r].kid}}
    /\ status[req[r].kid] = "absent" => public_pem' = public_pem
    /\ End(r)
    /\ UNCHANGED <<dbVars, valid_keys, bootVars, managerVars>>

-----------------------------------------------------------------------------
(* clean_keystore *)

\* A one-key JWKS answers 409 and a missing PEM file raises, both before
\* anything is written.
CleanBegin(r, w) ==
    /\ req[r].step = "idle" /\ mode[w] = "up"
    /\ Len(jwks) # 1 /\ Kids(jwks) \subseteq public_pem
    /\ req' = [req EXCEPT ![r] = Fresh("clean_select", w, NoKid, 0, Kids(jwks))]
    /\ saved' = [saved EXCEPT ![r] = jwks]
    /\ UNCHANGED <<dbVars, fileVars, valid_keys, bootVars, managerVars>>

\* SELECT ... FOR NO KEY UPDATE takes its snapshot, then waits for the locks.
CleanSelect(r) ==
    /\ req[r].step = "clean_select"
    /\ req' = [req EXCEPT ![r].step = "clean_lock", ![r].victims = Rotated]
    /\ UNCHANGED <<dbVars, fileVars, valid_keys, bootVars, managerVars, saved>>

\* Mutant of CleanLock: the rows of the snapshot are taken without locking them.
CleanLockUnlocked(r) ==
    /\ req[r].step = "clean_lock"
    /\ req' = [req EXCEPT ![r].step = "clean_files"]
    /\ UNCHANGED <<dbVars, fileVars, valid_keys, bootVars, managerVars, saved>>

\* A row that changed while it was waited for is tested again.
CleanLock(r) ==
    /\ req[r].step = "clean_lock"
    /\ \A k \in req[r].victims : ~LockedByOther(r, k)
    /\ req' = [req EXCEPT ![r].step = "clean_files",
                          ![r].victims = @ \cap Rotated,
                          ![r].locks = req[r].victims \cap Rotated]
    /\ UNCHANGED <<dbVars, fileVars, valid_keys, bootVars, managerVars, saved>>

\* Mutant of CleanFiles: the active key is not kept for the publication.
CleanFilesForgets(r) ==
    /\ req[r].step = "clean_files"
    /\ \E a \in Active :
          /\ Active = {a}
          /\ jwks' = <<a>>
          /\ req' = [req EXCEPT ![r].step = "clean_commit"]
    /\ public_pem' = public_pem \ req[r].victims
    /\ UNCHANGED <<dbVars, valid_keys, bootVars, managerVars, saved>>

\* scalar_one on the active rows, then the files.
CleanFiles(r) ==
    /\ req[r].step = "clean_files"
    /\ \E a \in Active :
          /\ Active = {a}
          /\ jwks' = <<a>>
          /\ req' = [req EXCEPT ![r].step = "clean_commit", ![r].prev = a]
    /\ public_pem' = public_pem \ req[r].victims
    /\ UNCHANGED <<dbVars, valid_keys, bootVars, managerVars, saved>>

CleanCommit(r) ==
    /\ req[r].step = "clean_commit"
    /\ status' = ExpiredTable(req[r])
    /\ req' = [req EXCEPT ![r].step = "clean_publish", ![r].locks = {}]
    /\ UNCHANGED <<epoch, rotated_out_at, now, fileVars, valid_keys, bootVars,
                   managerVars, saved>>

\* The pipeline, which is awaited: VALID_KEYS becomes the active key read
\* earlier.  It may fail after the commit.
CleanPublish(r) ==
    /\ req[r].step = "clean_publish"
    /\ valid_keys' \in {{req[r].prev}, valid_keys}
    /\ End(r)
    /\ UNCHANGED <<dbVars, fileVars, bootVars, managerVars>>

\* Any exception in the try block: rollback, old JWKS content, PEM files back.
CleanFail(r) ==
    /\ req[r].step \in CleanTxn
    /\ jwks' = saved[r]
    /\ public_pem' = public_pem \cup req[r].pems
    /\ End(r)
    /\ UNCHANGED <<dbVars, valid_keys, bootVars, managerVars>>

-----------------------------------------------------------------------------
(* TokenManager.poll_store *)

\* A round over equal key sets changes nothing and is left out, as is one whose read of
\* VALID_KEYS fails or finds it empty: that raises, and the next round starts afresh.
PollRead(w) ==
    /\ w \in Polling /\ mode[w] = "up" /\ ~poll[w].on
    /\ valid_keys \notin {{}, key_mapping[w]}
    /\ poll' = [poll EXCEPT ![w] = [on |-> TRUE,
                                    fetch |-> valid_keys \ key_mapping[w],
                                    evict |-> key_mapping[w] \ valid_keys]]
    /\ UNCHANGED <<dbVars, fileVars, valid_keys, bootVars, active_key, key_mapping,
                   reqVars>>

\* fetch_unexpired_key and update_keydata for one new key.  The query does not
\* test expired_at; an active row has no rotated_out_at, whose timestamp() then
\* raises and ends the round.
PollFetch(w, k) ==
    /\ k \in poll[w].fetch
    /\ poll' = [poll EXCEPT ![w] = IF status[k] = "active" THEN NoRound
                                   ELSE [poll[w] EXCEPT !.fetch = poll[w].fetch \ {k}]]
    /\ key_mapping' = [key_mapping EXCEPT ![w] =
                         @ \cup (IF k \in Rotated \cup Expired THEN {k} ELSE {})]
    /\ UNCHANGED <<dbVars, fileVars, valid_keys, bootVars, active_key, reqVars>>

\* The query fails: the keys taken before stay, nothing is evicted, the round is over.
PollFail(w) ==
    /\ poll[w].on /\ poll[w].fetch # {}
    /\ poll' = [poll EXCEPT ![w] = NoRound]
    /\ UNCHANGED <<dbVars, fileVars, valid_keys, bootVars, active_key, key_mapping,
                   reqVars>>

\* Evict what VALID_KEYS no longer lists.  invalidate_key raises on the active
\* key, and the keys that set order puts after it survive the round.
PollEvict(w) ==
    /\ poll[w].on /\ poll[w].fetch = {}
    /\ \E S \in SUBSET poll[w].evict :
          /\ active_key[w] \notin poll[w].evict => S = poll[w].evict
          /\ key_mapping' = [key_mapping EXCEPT ![w] = Invalidated(w, S)]
    /\ poll' = [poll EXCEPT ![w] = NoRound]
    /\ UNCHANGED <<dbVars, fileVars, valid_keys, bootVars, active_key, reqVars>>

-----------------------------------------------------------------------------
(* Booting a worker: lifespan, master_bootup, slave_bootup *)

\* Mutant of BootElect: SET without NX makes every worker the master.
BootElectAll(w) ==
    /\ mode[w] = "down"
    /\ boot_master' = w /\ mode' = [mode EXCEPT ![w] = "read"]
    /\ UNCHANGED <<dbVars, fileVars, valid_keys, abort, keydata, managerVars, reqVars>>

\* SET AUTH_BOOTUP_MASTER NX.
BootElect(w) ==
    /\ mode[w] = "down"
    /\ IF boot_master = NoWorker
       THEN boot_master' = w /\ mode' = [mode EXCEPT ![w] = "read"]
       ELSE boot_master' = boot_master /\ mode' = [mode EXCEPT ![w] = "wait"]
    /\ UNCHANGED <<dbVars, fileVars, valid_keys, abort, keydata, managerVars, reqVars>>

\* get_relevant_keydata(limit=None), cut to the newest JWKS_CAP rows; the call
\* that would expire the rest is not awaited.
BootRead(w) ==
    /\ mode[w] = "read"
    /\ \E s \in [1 .. Cardinality(Valid) -> Valid] :
          /\ NewestFirst(s, Valid)
          /\ keydata' = [keydata EXCEPT ![w] = FirstN(s, JwksCap)]
    /\ mode' = [mode EXCEPT ![w] = IF Active = {} THEN "insert" ELSE "sync"]
    /\ UNCHANGED <<dbVars, fileVars, valid_keys, boot_master, abort, managerVars,
                   reqVars>>

\* initialize_active_key, when no row read was active: the PEM files of a new key
\* are written first, and stay if the insert never happens.
BootPair(w) ==
    /\ mode[w] = "insert"
    /\ \E k \in Kid :
          /\ public_pem' = public_pem \cup {k}
          /\ keydata' = [keydata EXCEPT ![w] = <<k>> \o @]
    /\ mode' = [mode EXCEPT ![w] = "commit"]
    /\ UNCHANGED <<dbVars, jwks, valid_keys, boot_master, abort, managerVars, reqVars>>

\* insert_keydata; a kid already in the table violates the primary key: BootFail.
BootInsert(w) ==
    /\ mode[w] = "commit" /\ now < MaxNow
    /\ status[Head(keydata[w])] = "absent"
    /\ status' = [status EXCEPT ![Head(keydata[w])] = "active"]
    /\ epoch' = [epoch EXCEPT ![Head(keydata[w])] = now + 1]
    /\ now' = now + 1
    /\ mode' = [mode EXCEPT ![w] = "sync"]
    /\ UNCHANGED <<rotated_out_at, fileVars, valid_keys, boot_master, abort, keydata,
                   managerVars, reqVars>>

\* _sync_file_system_key_state: the first row read is taken for the active one.
BootSync(w) ==
    /\ mode[w] = "sync"
    /\ public_pem' = public_pem \cup Kids(keydata[w])
    /\ mode' = [mode EXCEPT ![w] = "purge"]
    /\ UNCHANGED <<dbVars, jwks, valid_keys, boot_master, abort, keydata,
                   managerVars, reqVars>>

\* _purge_expired_keys, then initialize_jwks writes the rows newest first.
BootPurge(w) ==
    /\ mode[w] = "purge"
    /\ public_pem' = public_pem \ Expired
    /\ jwks' = keydata[w]
    /\ mode' = [mode EXCEPT ![w] = "publish"]
    /\ UNCHANGED <<dbVars, valid_keys, boot_master, abort, keydata, managerVars,
                   reqVars>>

BootPublish(w) ==
    /\ mode[w] = "publish"
    /\ valid_keys' = Kids(keydata[w])
    /\ mode' = [mode EXCEPT ![w] = "finish"]
    /\ UNCHANGED <<dbVars, fileVars, boot_master, abort, keydata, managerVars, reqVars>>

\* set_key_state; the finally clause deletes AUTH_BOOTUP_MASTER whoever holds it.
BootFinish(w) ==
    /\ mode[w] = "finish"
    /\ active_key' = [active_key EXCEPT ![w] = Head(keydata[w])]
    /\ key_mapping' = [key_mapping EXCEPT ![w] = Kids(keydata[w])]
    /\ keydata' = [keydata EXCEPT ![w] = <<>>]
    /\ mode' = [mode EXCEPT ![w] = "up"]
    /\ boot_master' = NoWorker
    /\ UNCHANGED <<dbVars, fileVars, valid_keys, abort, poll, reqVars>>

\* Any exception of the master: ABORT is raised, the lock deleted.
BootFail(w) ==
    /\ mode[w] \in MasterModes
    /\ abort' = TRUE
    /\ boot_master' = NoWorker
    /\ mode' = [mode EXCEPT ![w] = "down"]
    /\ keydata' = [keydata EXCEPT ![w] = <<>>]
    /\ UNCHANGED <<dbVars, fileVars, valid_keys, managerVars, reqVars>>

\* A slave that sees the lock gone loads the newest JWKS_CAP rows.
SlaveLoad(w) ==
    /\ mode[w] = "wait" /\ boot_master = NoWorker /\ ~abort
    /\ \E s \in [1 .. Cardinality(Valid) -> Valid] :
          /\ NewestFirst(s, Valid)
          /\ \E a \in Active :
                /\ a \in Kids(FirstN(s, JwksCap))
                /\ active_key' = [active_key EXCEPT ![w] = a]
          /\ key_mapping' = [key_mapping EXCEPT ![w] = Kids(FirstN(s, JwksCap))]
    /\ mode' = [mode EXCEPT ![w] = "up"]
    /\ UNCHANGED <<dbVars, fileVars, valid_keys, boot_master, abort, keydata, poll,
                   reqVars>>

\* ABORT, an empty table or no active row among those loaded: the slave exits.
SlaveAbort(w) ==
    /\ mode[w] = "wait" /\ boot_master = NoWorker
    /\ \/ abort
       \/ \E s \in [1 .. Cardinality(Valid) -> Valid] :
             NewestFirst(s, Valid) /\ Kids(FirstN(s, JwksCap)) \cap Active = {}
    /\ mode' = [mode EXCEPT ![w] = "down"]
    /\ UNCHANGED <<dbVars, fileVars, valid_keys, boot_master, abort, keydata,
                   managerVars, reqVars>>

AbortExpire ==
    /\ abort
    /\ abort' = FALSE
    /\ UNCHANGED <<dbVars, fileVars, valid_keys, boot_master, mode, keydata,
                   managerVars, reqVars>>

\* Mutant of BootLockExpire: the lock is set without ex=300.
BootLockNeverExpires == FALSE /\ UNCHANGED vars

\* ex=300 frees the lock of a dead master.  A live master is assumed to finish
\* in less time than that.
BootLockExpire ==
    /\ boot_master # NoWorker
    /\ mode[boot_master] \notin MasterModes
    /\ boot_master' = NoWorker
    /\ UNCHANGED <<dbVars, fileVars, valid_keys, abort, mode, keydata, managerVars,
                   reqVars>>

\* The process dies: its requests vanish, their transactions roll back, the
\* files stay as they are.
Crash(w) ==
    /\ mode[w] # "down"
    /\ mode' = [mode EXCEPT ![w] = "down"]
    /\ keydata' = [keydata EXCEPT ![w] = <<>>]
    /\ active_key' = [active_key EXCEPT ![w] = NoKid]
    /\ key_mapping' = [key_mapping EXCEPT ![w] = {}]
    /\ poll' = [poll EXCEPT ![w] = NoRound]
    /\ req' = [r \in Req |-> IF req[r].at = w THEN Idle ELSE req[r]]
    /\ saved' = [r \in Req |-> IF req[r].at = w THEN <<>> ELSE saved[r]]
    /\ UNCHANGED <<dbVars, fileVars, valid_keys, boot_master, abort>>

-----------------------------------------------------------------------------
Rotate(r) ==
    \/ \E w \in Worker : RotateBegin(r, w)
    \/ RotateLock(r) \/ RotateWrite(r) \/ RotateOverflow(r) \/ RotateCommit(r)
    \/ RotateAbort(r) \/ RotateFiles(r)

Invalidate(r) ==
    \/ \E w \in Worker, k \in Kid : InvalidateBegin(r, w, k)
    \/ InvalidateReject(r) \/ InvalidateLock(r) \/ InvalidateFiles(r)
    \/ InvalidateCommit(r) \/ InvalidateLocal(r) \/ InvalidateFail(r)

Clean(r) ==
    \/ \E w \in Worker : CleanBegin(r, w)
    \/ CleanSelect(r) \/ CleanLock(r) \/ CleanFiles(r) \/ CleanCommit(r)
    \/ CleanPublish(r) \/ CleanFail(r)

Poll(w) == PollRead(w) \/ PollFail(w) \/ PollEvict(w) \/ \E k \in Kid : PollFetch(w, k)

Boot(w) ==
    \/ BootElect(w) \/ BootRead(w) \/ BootPair(w) \/ BootInsert(w) \/ BootSync(w)
    \/ BootPurge(w) \/ BootPublish(w) \/ BootFinish(w) \/ BootFail(w) \/ SlaveLoad(w) \/ SlaveAbort(w)

Next ==
    \/ \E r \in Req : Rotate(r) \/ Invalidate(r) \/ Clean(r)
    \/ \E w \in Worker : Poll(w) \/ Boot(w) \/ Crash(w)
    \/ AbortExpire \/ BootLockExpire

Spec == Init /\ [][Next]_vars

\* A booting master keeps running until it dies, and Redis expires the keys
\* that have an expiry.  Nothing else is promised: admins need not call, and
\* a process that dies need not be restarted.
MasterStep(w) == BootRead(w) \/ BootPair(w) \/ BootInsert(w) \/ BootSync(w)
                   \/ BootPurge(w) \/ BootPublish(w) \/ BootFinish(w)
FairSpec == /\ Spec
            /\ WF_vars(BootLockExpire)
            /\ \A w \in Worker : WF_vars(MasterStep(w))
-----------------------------------------------------------------------------
(* Properties *)

\* There is never more than one signing key in the table, and once a first key
\* was created there always is one: the swap in rotate_keys and the bootstrap in
\* master_bootup neither lose the active row nor create a second.
OneActiveKey ==
    /\ \A j, k \in Active : j = k
    /\ (\E k \in Kid : status[k] # "absent") => Active # {}

\* The table never holds more than MAX_VALID_KEYS unexpired keys, although
\* rotate_keys counts them in one statement, expires in another, and others
\* commit between the two.
ValidKeysBounded == Cardinality(Valid) <= MaxValidKeys

\* At most one rotation is between its lock and its commit: FOR UPDATE NOWAIT
\* on the active row does what the Redis lock that is never taken should do.
RotationExclusive ==
    \A r, s \in Req :
        /\ req[r].step \in RotateTxn \ {"rot_lock"}
        /\ req[s].step \in RotateTxn \ {"rot_lock"}
        => r = s

\* A transaction expires and rotates only rows it holds the lock of, and those
\* rows are still what it read: no decision is taken on a stale row.
WritesAreLocked ==
    \A r \in Req :
        /\ req[r].step \in {"rot_commit", "inv_commit", "clean_commit"} =>
              \A v \in req[r].victims : v \in req[r].locks /\ v \in Valid
        /\ req[r].step \in {"rot_write", "rot_overflow", "rot_commit"} =>
              req[r].prev \in req[r].locks /\ Active = {req[r].prev}

\* A serving worker can always verify what it signs: neither the poller nor
\* invalidate_key drops the key TokenManager.active_key names.
SignerCanVerify == \A w \in Worker : mode[w] = "up" => active_key[w] \in key_mapping[w]

\* The JWKS file never outgrows its capacity, whichever stale content a failing
\* handler writes back and whatever rotate_keys appends to it.
JwksBounded == Len(jwks) <= IF MaxValidKeys > JwksCap THEN MaxValidKeys ELSE JwksCap

\* The boot lock is never held for good: the master finishes, fails, or dies and
\* leaves it to the expiry, so slaves waiting in slave_bootup are let go.
BootLockFreed == (boot_master # NoWorker) ~> (boot_master = NoWorker)

\* What the README says of TokenManager: "the active key used for signing is
\* never invalidated during runtime".  The code refutes it: rotate_keys does not
\* reach the TokenManagers, so the key it rotated out goes on signing while
\* invalidate_key, clean_keystore or the next rotation expires it.
SignerNotExpired == \A w \in Worker : mode[w] = "up" => active_key[w] \notin Expired

\* What the README says of a rotation: the oldest key is expired, and the JWKS is
\* updated with the new key and trimmed to capacity, that is, the entry trimmed is
\* the expired one.  The code refutes it: initialize_jwks lists keys newest first
\* and update_jwks drops from the front.
RotationKeepsValidKeys ==
    [][\A r \in Req : req[r].step = "rot_files" /\ req'[r].step = "idle" /\ jwks' # jwks
          => (Kids(jwks) \ Kids(jwks')) \cap Valid = {}]_vars

KR == INSTANCE KeyRing WITH ring <- status

\* The table implements the abstract key ring, through every interleaving of
\* handlers, boots and crashes.
ImplementsKeyRing == KR!RingSpec

=============================================================================
