--------------------------- MODULE KeyStoreProofs ---------------------------
(***************************************************************************)
(* Proofs about KeyStore, for every finite set of key ids, any number of   *)
(* workers and of concurrent requests, and all positive capacities.        *)
(***************************************************************************)
EXTENDS KeyStore, FiniteSetTheorems, FunctionTheorems, TLAPS

-----------------------------------------------------------------------------
(* The inductive invariant *)

\* Row locks are exclusive.
LocksDisjoint == \A r, s \in Req : r # s => req[r].locks \cap req[s].locks = {}

\* Steps at which a handler has no open transaction that locks rows.
Unlocked == {"idle", "rot_lock", "rot_files", "inv_lock", "inv_local",
             "clean_select", "clean_lock", "clean_publish"}

\* What a rotation past its lock may rely on: the row it read is still the
\* active one, the new kid is still free, and the commit keeps the bound.
RotateOK(h) ==
    /\ h.step \in {"rot_write", "rot_overflow", "rot_commit"} =>
          h.prev \in h.locks /\ h.prev \in Kid /\ status[h.prev] = "active"
    /\ h.step \in {"rot_overflow", "rot_commit", "rot_files"} => h.kid \in Kid
    /\ h.step \in {"rot_overflow", "rot_commit"} => status[h.kid] = "absent"
    /\ h.step \in {"rot_lock", "rot_write", "rot_overflow"} => h.victims = {}
    /\ h.step = "rot_commit" =>
          \/ h.victims = {} /\ Cardinality(Valid) + 1 <= MaxValidKeys
          \/ \E v \in h.locks \cap Valid : h.victims = {v}

\* The rows an invalidation or a clean will expire are locked and rotated.
ExpireOK(h) ==
    /\ h.step \in InvalidateTxn \cup {"inv_local"} => h.kid \in Kid
    /\ h.step \in {"inv_files", "inv_commit", "clean_files", "clean_commit"} =>
          h.victims \subseteq h.locks \cap Rotated
    /\ h.step \in {"clean_commit", "clean_publish"} => h.prev \in Kid

HandlerOK(h) ==
    /\ h.step \in Unlocked => h.locks = {}
    /\ RotateOK(h)
    /\ ExpireOK(h)

HandlersOK == \A r \in Req : HandlerOK(req[r])

\* A booting master holds the lock; it inserts only into a table without an
\* active row; from then on it has a first row to take for the active one.
BootOK ==
    \A w \in Worker :
        /\ mode[w] \in MasterModes => boot_master = w
        /\ mode[w] \in {"insert", "commit"} => Active = {}
        /\ mode[w] \in {"commit", "sync", "purge", "publish", "finish"} => keydata[w] # <<>>

KeyInv ==
    /\ CoreTypeOK
    /\ OneActiveKey
    /\ ValidKeysBounded
    /\ LocksDisjoint
    /\ HandlersOK
    /\ BootOK

-----------------------------------------------------------------------------
(* Lemmas *)

\* The initial state satisfies the inductive invariant.
LEMMA InitKeyInv == Init => KeyInv
  <1> SUFFICES ASSUME Init PROVE KeyInv
    OBVIOUS
  <1>1. CoreTypeOK
    <2>1. Idle \in Handler
      BY DEF Idle, Fresh, Handler, Steps
    <2>2. NoRound \in Round
      BY DEF NoRound, Round
    <2>3. "absent" \in RowStatus /\ "down" \in Modes
      BY DEF RowStatus, Modes
    <2>4. abort \in BOOLEAN
      BY DEF Init
    <2>5. <<>> \in Seq(Kid)
      OBVIOUS
    <2>6. /\ keydata \in [Worker -> Seq(Kid)]
          /\ key_mapping \in [Worker -> SUBSET Kid]
          /\ poll \in [Worker -> Round]
          /\ req \in [Req -> Handler]
      BY <2>1, <2>2, <2>5, Zenon DEF Init
    <2>7. /\ status \in [Kid -> RowStatus]
          /\ epoch \in [Kid -> Nat] /\ rotated_out_at \in [Kid -> Nat] /\ now \in Nat
          /\ public_pem \subseteq Kid
          /\ valid_keys \subseteq Kid /\ boot_master \in Worker \cup {NoWorker}
          /\ mode \in [Worker -> Modes]
          /\ active_key \in [Worker -> Kid \cup {NoKid}]
      BY <2>3 DEF Init
    <2> QED
      BY <2>4, <2>6, <2>7 DEF CoreTypeOK
  <1>2. Active = {} /\ Valid = {}
    BY DEF Init, Active, Rotated, Valid
  <1>3. OneActiveKey
    BY <1>2 DEF Init, OneActiveKey
  <1>4. ValidKeysBounded
    BY <1>2, FS_EmptySet, CapAssumption DEF ValidKeysBounded
  <1>5. LocksDisjoint
    BY DEF Init, LocksDisjoint, Idle, Fresh
  <1>6. HandlersOK
    BY DEF Init, HandlersOK, HandlerOK, RotateOK, ExpireOK, Idle, Fresh, Unlocked,
           InvalidateTxn
  <1>7. BootOK
    BY DEF Init, BootOK, MasterModes
  <1> QED
    BY <1>1, <1>3, <1>4, <1>5, <1>6, <1>7 DEF KeyInv

\* The valid rows form a finite set, whose cardinality a subset does not exceed.
LEMMA ValidFinite ==
  ASSUME CoreTypeOK
  PROVE  /\ IsFiniteSet(Valid)
         /\ Cardinality(Valid) \in Nat
         /\ \A S \in SUBSET Valid : /\ IsFiniteSet(S)
                                    /\ Cardinality(S) \in Nat
                                    /\ Cardinality(S) <= Cardinality(Valid)
  <1>1. Valid \subseteq Kid
    BY DEF Valid, Active, Rotated
  <1>2. IsFiniteSet(Valid)
    BY <1>1, FS_Subset, KidAssumption
  <1> QED
    BY <1>2, FS_Subset, FS_CardinalityType

\* A step that leaves the table alone leaves what is read from it alone.
LEMMA TableUnchanged ==
  ASSUME status' = status
  PROVE  Active' = Active /\ Rotated' = Rotated /\ Expired' = Expired /\ Valid' = Valid
  BY DEF Active, Rotated, Expired, Valid

\* A step of one handler that changes neither the table nor a boot preserves the
\* invariant as soon as the new handler state is sound and its locks are free.
LEMMA HandlerStep ==
  ASSUME KeyInv, NEW r \in Req, NEW h \in Handler,
         req' = [req EXCEPT ![r] = h],
         HandlerOK(h),
         \A s \in Req \ {r} : h.locks \cap req[s].locks = {},
         UNCHANGED <<status, mode, boot_master, keydata>>
  PROVE  /\ (req \in [Req -> Handler])'
         /\ OneActiveKey'
         /\ ValidKeysBounded'
         /\ LocksDisjoint'
         /\ HandlersOK'
         /\ BootOK'
  <1>1. req \in [Req -> Handler]
    BY DEF KeyInv, CoreTypeOK
  <1>2. (req \in [Req -> Handler])'
    BY <1>1
  <1>3. Active' = Active /\ Rotated' = Rotated /\ Valid' = Valid
    BY TableUnchanged
  <1>4. OneActiveKey' /\ ValidKeysBounded'
    BY <1>3 DEF KeyInv, OneActiveKey, ValidKeysBounded
  <1>5. LocksDisjoint'
    BY <1>1 DEF KeyInv, LocksDisjoint
  <1>6. ASSUME NEW s \in Req PROVE HandlerOK(req[s])'
    <2>1. HandlerOK(req'[s])
      BY <1>1 DEF KeyInv, HandlersOK
    <2> QED
      BY <2>1, <1>3 DEF HandlerOK, RotateOK, ExpireOK
  <1>7. BootOK'
    BY <1>3 DEF KeyInv, BootOK
  <1> QED
    BY <1>2, <1>4, <1>5, <1>6, <1>7 DEF HandlersOK

\* A handler that begins, ends, or is ended by a crash, is sound.
LEMMA FreshOK ==
  ASSUME NEW step \in {"idle", "rot_lock", "inv_lock", "clean_select"},
         NEW w \in Worker \cup {NoWorker}, NEW k \in Kid \cup {NoKid}, NEW t \in Nat,
         NEW P \in SUBSET Kid, step = "inv_lock" => k \in Kid
  PROVE  /\ Fresh(step, w, k, t, P) \in Handler
         /\ HandlerOK(Fresh(step, w, k, t, P))
         /\ Fresh(step, w, k, t, P).locks = {}
  <1>1. step \in Steps
    BY DEF Steps, RotateTxn, InvalidateTxn, CleanTxn
  <1> QED
    BY <1>1 DEF Fresh, Handler, HandlerOK, RotateOK, ExpireOK, Unlocked, InvalidateTxn

LEMMA IdleOK == Idle \in Handler /\ HandlerOK(Idle) /\ Idle.locks = {}
  BY FreshOK DEF Idle

-----------------------------------------------------------------------------
(* Steps of the handlers *)

\* A handler step that leaves table and boots alone: what remains to be shown.
LEMMA HandlerStepInv ==
  ASSUME KeyInv, NEW r \in Req, NEW h \in Handler,
         req' = [req EXCEPT ![r] = h],
         HandlerOK(h),
         \A s \in Req \ {r} : h.locks \cap req[s].locks = {},
         UNCHANGED <<status, epoch, rotated_out_at, bootVars>>,
         now' \in Nat, public_pem' \subseteq Kid,
         valid_keys' \subseteq Kid, key_mapping' \in [Worker -> SUBSET Kid],
         UNCHANGED <<active_key, poll>>
  PROVE  KeyInv'
  <1>1. UNCHANGED <<status, mode, boot_master, keydata>>
    BY DEF bootVars
  <1>2. /\ (req \in [Req -> Handler])' /\ OneActiveKey' /\ ValidKeysBounded'
        /\ LocksDisjoint' /\ HandlersOK' /\ BootOK'
    BY <1>1, HandlerStep
  <1>3. CoreTypeOK'
    BY <1>2 DEF KeyInv, CoreTypeOK, bootVars
  <1> QED
    BY <1>2, <1>3 DEF KeyInv

\* A handler that ends without touching table or boots.
LEMMA EndInv ==
  ASSUME KeyInv, NEW r \in Req, End(r),
         UNCHANGED <<status, epoch, rotated_out_at, bootVars>>,
         now' \in Nat, public_pem' \subseteq Kid,
         valid_keys' \subseteq Kid, key_mapping' \in [Worker -> SUBSET Kid],
         UNCHANGED <<active_key, poll>>
  PROVE  KeyInv'
  <1>1. Idle \in Handler /\ HandlerOK(Idle) /\ Idle.locks = {}
    BY IdleOK
  <1>2. req' = [req EXCEPT ![r] = Idle]
    BY DEF End
  <1>3. \A s \in Req \ {r} : Idle.locks \cap req[s].locks = {}
    BY <1>1
  <1> QED
    BY <1>1, <1>2, <1>3, HandlerStepInv

\* The types a handler step starts from.
LEMMA TypesNow ==
  ASSUME KeyInv
  PROVE  /\ status \in [Kid -> RowStatus] /\ now \in Nat /\ public_pem \subseteq Kid
         /\ valid_keys \subseteq Kid
         /\ key_mapping \in [Worker -> SUBSET Kid]
         /\ req \in [Req -> Handler]
         /\ \A r \in Req : HandlerOK(req[r]) /\ req[r] \in Handler
  BY DEF KeyInv, CoreTypeOK, HandlersOK

\* A handler step with neither file nor manager effects.
LEMMA QuietStepInv ==
  ASSUME KeyInv, NEW r \in Req, NEW h \in Handler,
         req' = [req EXCEPT ![r] = h],
         HandlerOK(h),
         \A s \in Req \ {r} : h.locks \cap req[s].locks = {},
         UNCHANGED <<status, epoch, rotated_out_at, bootVars>>, now' \in Nat,
         public_pem' \subseteq Kid,
         UNCHANGED <<valid_keys, managerVars>>
  PROVE  KeyInv'
  BY HandlerStepInv, TypesNow DEF managerVars

\* Every step of rotate_keys but its commit preserves the invariant.
LEMMA RotateLocalInv ==
  ASSUME KeyInv, NEW r \in Req,
         \/ \E w \in Worker : RotateBegin(r, w)
         \/ RotateLock(r) \/ RotateWrite(r) \/ RotateOverflow(r) \/ RotateAbort(r)
         \/ RotateFiles(r)
  PROVE  KeyInv'
  <1>0. /\ status \in [Kid -> RowStatus] /\ now \in Nat /\ public_pem \subseteq Kid
        /\ req \in [Req -> Handler] /\ HandlerOK(req[r]) /\ req[r] \in Handler
    BY TypesNow
  <1>1. ASSUME NEW w \in Worker, RotateBegin(r, w) PROVE KeyInv'
    <2> DEFINE h == Fresh("rot_lock", w, NoKid, now + 1, {})
    <2>0. now + 1 \in Nat /\ NoKid \in Kid \cup {NoKid} /\ w \in Worker \cup {NoWorker}
      BY <1>0
    <2>1. h \in Handler /\ HandlerOK(h) /\ h.locks = {}
      BY <2>0, FreshOK, Zenon
    <2>2. /\ req' = [req EXCEPT ![r] = h]
          /\ UNCHANGED <<status, epoch, rotated_out_at, bootVars>> /\ now' \in Nat
          /\ UNCHANGED <<public_pem, valid_keys, managerVars>>
      BY <1>0, <1>1 DEF RotateBegin, fileVars
    <2> HIDE DEF h
    <2> QED
      BY <1>0, <2>1, <2>2, QuietStepInv
  <1>2. CASE RotateLock(r)
    <2>1. PICK p \in Active : /\ ~LockedByOther(r, p)
                              /\ req' = [req EXCEPT ![r].step = "rot_write",
                                          ![r].prev = p, ![r].locks = {p}]
      BY <1>2 DEF RotateLock
    <2> DEFINE h == [req[r] EXCEPT !.step = "rot_write", !.prev = p, !.locks = {p}]
    <2>2. p \in Kid /\ status[p] = "active" /\ req[r].victims \in SUBSET Kid
      BY <1>0 DEF Active, Handler
    <2>3. h \in Handler
      BY <1>0, <2>2 DEF Handler, Steps, RotateTxn
    <2>4. req' = [req EXCEPT ![r] = h]
      BY <1>0, <2>1
    <2>5. \A s \in Req \ {r} : h.locks \cap req[s].locks = {}
      BY <1>0, <2>1, <2>3 DEF LockedByOther, Handler
    <2>6. HandlerOK(h)
      BY <1>0, <2>2, <1>2 DEF HandlerOK, RotateOK, ExpireOK, Unlocked, InvalidateTxn, Handler,
            RotateLock
    <2> HIDE DEF h
    <2> QED
      BY <1>0, <1>2, <2>3, <2>4, <2>5, <2>6, QuietStepInv DEF RotateLock, fileVars, dbVars
  <1>3. CASE RotateWrite(r)
    <2>1. PICK k \in Kid : /\ status[k] = "absent"
                           /\ req' = [req EXCEPT ![r].kid = k,
                                ![r].step = IF Cardinality(Valid) + 1 > MaxValidKeys
                                            THEN "rot_overflow" ELSE "rot_commit"]
      BY <1>3 DEF RotateWrite
    <2> DEFINE h == [req[r] EXCEPT !.kid = k,
                       !.step = IF Cardinality(Valid) + 1 > MaxValidKeys
                                THEN "rot_overflow" ELSE "rot_commit"]
    <2>2. h \in Handler
      BY <1>0 DEF Handler, Steps, RotateTxn
    <2>3. req' = [req EXCEPT ![r] = h]
      BY <1>0, <2>1
    <2>4. \A s \in Req \ {r} : h.locks \cap req[s].locks = {}
      BY <1>0 DEF KeyInv, LocksDisjoint, Handler
    <2>5. Cardinality(Valid) \in Nat
      BY ValidFinite DEF KeyInv
    <2>6. HandlerOK(h)
      <3>1. /\ req[r].prev \in req[r].locks /\ req[r].prev \in Kid
            /\ status[req[r].prev] = "active" /\ req[r].victims = {}
        BY <1>0, <1>3 DEF RotateWrite, HandlerOK, RotateOK
      <3>2. /\ h.kid = k /\ h.prev = req[r].prev /\ h.locks = req[r].locks
            /\ h.victims = req[r].victims
            /\ h.step \in {"rot_overflow", "rot_commit"}
            /\ h.step = "rot_commit" => ~(Cardinality(Valid) + 1 > MaxValidKeys)
        BY <1>0 DEF Handler
      <3>3. h.step = "rot_commit" => Cardinality(Valid) + 1 <= MaxValidKeys
        BY <3>2, <2>5, CapAssumption
      <3> HIDE DEF h
      <3> QED
        BY <2>1, <3>1, <3>2, <3>3
           DEF HandlerOK, RotateOK, ExpireOK, Unlocked, InvalidateTxn
    <2> HIDE DEF h
    <2> QED
      BY <1>0, <1>3, <2>2, <2>3, <2>4, <2>6, QuietStepInv DEF RotateWrite, fileVars, dbVars
  <1>4. CASE RotateOverflow(r)
    <2>1. PICK v \in IF Rotated = {} THEN {req[r].prev} ELSE OldestRotated(Rotated) :
             /\ ~LockedByOther(r, v)
             /\ req' = [req EXCEPT ![r].victims = {v}, ![r].locks = @ \cup {v},
                                   ![r].step = "rot_commit"]
      BY <1>4 DEF RotateOverflow
    <2>2. v \in Valid /\ v \in Kid
      BY <1>0, <1>4, <2>1 DEF RotateOverflow, OldestRotated, Rotated, Active, Valid,
         HandlerOK, RotateOK
    <2> DEFINE h == [req[r] EXCEPT !.victims = {v}, !.locks = req[r].locks \cup {v},
                                   !.step = "rot_commit"]
    <2>3. h \in Handler
      BY <1>0, <2>2 DEF Handler, Steps, RotateTxn
    <2>4. req' = [req EXCEPT ![r] = h]
      BY <1>0, <2>1
    <2>5. \A s \in Req \ {r} : h.locks \cap req[s].locks = {}
      BY <1>0, <2>1 DEF KeyInv, LocksDisjoint, LockedByOther, Handler
    <2>6. HandlerOK(h)
      BY <1>0, <1>4, <2>2
         DEF RotateOverflow, HandlerOK, RotateOK, ExpireOK, Unlocked, InvalidateTxn, Handler
    <2> HIDE DEF h
    <2> QED
      BY <1>0, <1>4, <2>3, <2>4, <2>5, <2>6, QuietStepInv
         DEF RotateOverflow, fileVars, dbVars
  <1>5. CASE RotateAbort(r)
    BY <1>5, EndInv, TypesNow DEF RotateAbort, dbVars, fileVars, managerVars
  <1>6. CASE RotateFiles(r)
    <2>1. req[r].kid \in Kid
      BY <1>0, <1>6 DEF RotateFiles, HandlerOK, RotateOK
    <2> QED
      BY <1>6, <2>1, EndInv, TypesNow DEF RotateFiles, dbVars, managerVars
  <1> QED
    BY <1>1, <1>2, <1>3, <1>4, <1>5, <1>6

\* Every step of invalidate_key but its commit preserves the invariant.
LEMMA InvalidateLocalInv ==
  ASSUME KeyInv, NEW r \in Req,
         \/ \E w \in Worker, k \in Kid : InvalidateBegin(r, w, k)
         \/ InvalidateReject(r) \/ InvalidateLock(r) \/ InvalidateFiles(r)
         \/ InvalidateLocal(r) \/ InvalidateFail(r)
  PROVE  KeyInv'
  <1>0. /\ status \in [Kid -> RowStatus] /\ now \in Nat /\ public_pem \subseteq Kid
        /\ req \in [Req -> Handler] /\ HandlerOK(req[r]) /\ req[r] \in Handler
    BY TypesNow
  <1>1. ASSUME NEW w \in Worker, NEW k \in Kid, InvalidateBegin(r, w, k) PROVE KeyInv'
    <2> DEFINE h == Fresh("inv_lock", w, k, 0, {})
    <2>0. 0 \in Nat /\ k \in Kid \cup {NoKid} /\ w \in Worker \cup {NoWorker}
      OBVIOUS
    <2>1. h \in Handler /\ HandlerOK(h) /\ h.locks = {}
      BY <2>0, FreshOK, Zenon
    <2>2. /\ req' = [req EXCEPT ![r] = h]
          /\ UNCHANGED <<status, epoch, rotated_out_at, bootVars>> /\ now' \in Nat
          /\ UNCHANGED <<public_pem, valid_keys, managerVars>>
      BY <1>0, <1>1 DEF InvalidateBegin, fileVars, dbVars
    <2> HIDE DEF h
    <2> QED
      BY <1>0, <2>1, <2>2, QuietStepInv
  <1>2. CASE InvalidateReject(r)
    BY <1>2, EndInv, TypesNow DEF InvalidateReject, dbVars, fileVars, managerVars
  <1>3. CASE InvalidateLock(r)
    <2> DEFINE h == [req[r] EXCEPT !.step = "inv_files", !.victims = {req[r].kid},
                                   !.locks = {req[r].kid}]
    <2>1. req[r].kid \in Kid /\ req[r].kid \in Rotated /\ ~LockedByOther(r, req[r].kid)
      BY <1>0, <1>3 DEF InvalidateLock, HandlerOK, ExpireOK, InvalidateTxn, Rotated
    <2>2. h \in Handler
      BY <1>0, <2>1 DEF Handler, Steps, InvalidateTxn
    <2>3. req' = [req EXCEPT ![r] = h]
      BY <1>0, <1>3 DEF InvalidateLock
    <2>4. \A s \in Req \ {r} : h.locks \cap req[s].locks = {}
      BY <1>0, <2>1 DEF LockedByOther, Handler
    <2>5. HandlerOK(h)
      BY <1>0, <2>1 DEF HandlerOK, RotateOK, ExpireOK, Unlocked, InvalidateTxn, Handler
    <2> HIDE DEF h
    <2> QED
      BY <1>0, <1>3, <2>2, <2>3, <2>4, <2>5, QuietStepInv
         DEF InvalidateLock, fileVars, dbVars
  <1>4. CASE InvalidateFiles(r)
    <2> DEFINE h == [req[r] EXCEPT !.step = "inv_commit"]
    <2>2. h \in Handler
      BY <1>0 DEF Handler, Steps, InvalidateTxn
    <2>3. req' = [req EXCEPT ![r] = h]
      BY <1>0, <1>4 DEF InvalidateFiles
    <2>4. \A s \in Req \ {r} : h.locks \cap req[s].locks = {}
      BY <1>0 DEF KeyInv, LocksDisjoint, Handler
    <2>5. HandlerOK(h)
      BY <1>0, <1>4
         DEF InvalidateFiles, HandlerOK, RotateOK, ExpireOK, Unlocked, InvalidateTxn, Handler
    <2> HIDE DEF h
    <2> QED
      BY <1>0, <1>4, <2>2, <2>3, <2>4, <2>5, QuietStepInv DEF InvalidateFiles, dbVars
  <1>5. CASE InvalidateLocal(r)
    <2>1. key_mapping' \in [Worker -> SUBSET Kid]
      BY <1>5, TypesNow DEF InvalidateLocal, Invalidated
    <2> QED
      BY <1>5, <2>1, EndInv, TypesNow DEF InvalidateLocal, dbVars, fileVars
  <1>6. CASE InvalidateFail(r)
    <2>1. req[r].kid \in Kid
      BY <1>0, <1>6 DEF InvalidateFail, HandlerOK, ExpireOK
    <2>2. public_pem' \subseteq Kid
      BY <1>0, <1>6, <2>1 DEF InvalidateFail
    <2> QED
      BY <1>6, <2>2, EndInv, TypesNow DEF InvalidateFail, dbVars, managerVars
  <1> QED
    BY <1>1, <1>2, <1>3, <1>4, <1>5, <1>6

\* The kids of a sequence of kids are kids.
LEMMA KidsType == ASSUME NEW s \in Seq(Kid) PROVE Kids(s) \subseteq Kid
  BY DEF Kids

\* Every step of clean_keystore but its commit preserves the invariant.
LEMMA CleanLocalInv ==
  ASSUME KeyInv, NEW r \in Req,
         \/ \E w \in Worker : CleanBegin(r, w)
         \/ CleanSelect(r) \/ CleanLock(r) \/ CleanFiles(r)
         \/ CleanPublish(r) \/ CleanFail(r)
  PROVE  KeyInv'
  <1>0. /\ status \in [Kid -> RowStatus] /\ now \in Nat /\ public_pem \subseteq Kid
        /\ req \in [Req -> Handler] /\ HandlerOK(req[r]) /\ req[r] \in Handler
    BY TypesNow
  <1>1. ASSUME NEW w \in Worker, CleanBegin(r, w) PROVE KeyInv'
    <2> DEFINE h == Fresh("clean_select", w, NoKid, 0, Kids(jwks))
    <2>0. /\ 0 \in Nat /\ NoKid \in Kid \cup {NoKid} /\ w \in Worker \cup {NoWorker}
          /\ Kids(jwks) \in SUBSET Kid
      BY <1>0, <1>1 DEF CleanBegin
    <2>1. h \in Handler /\ HandlerOK(h) /\ h.locks = {}
      BY <2>0, FreshOK, Zenon
    <2>2. /\ req' = [req EXCEPT ![r] = h]
          /\ UNCHANGED <<status, epoch, rotated_out_at, bootVars>> /\ now' \in Nat
          /\ UNCHANGED <<public_pem, valid_keys, managerVars>>
      BY <1>0, <1>1 DEF CleanBegin, fileVars, dbVars
    <2> HIDE DEF h
    <2> QED
      BY <1>0, <2>1, <2>2, QuietStepInv
  <1>2. CASE CleanSelect(r)
    <2> DEFINE h == [req[r] EXCEPT !.step = "clean_lock", !.victims = Rotated]
    <2>1. h \in Handler
      BY <1>0 DEF Handler, Steps, CleanTxn, Rotated
    <2>2. req' = [req EXCEPT ![r] = h]
      BY <1>0, <1>2 DEF CleanSelect
    <2>3. req[r].locks = {}
      BY <1>0, <1>2 DEF CleanSelect, HandlerOK, Unlocked
    <2>4. \A s \in Req \ {r} : h.locks \cap req[s].locks = {}
      BY <1>0, <2>3 DEF Handler
    <2>5. HandlerOK(h)
      BY <1>0, <2>3 DEF HandlerOK, RotateOK, ExpireOK, Unlocked, InvalidateTxn, Handler
    <2> HIDE DEF h
    <2> QED
      BY <1>0, <1>2, <2>1, <2>2, <2>4, <2>5, QuietStepInv
         DEF CleanSelect, fileVars, dbVars
  <1>3. CASE CleanLock(r)
    <2> DEFINE V == req[r].victims \cap Rotated
               h == [req[r] EXCEPT !.step = "clean_files", !.victims = V, !.locks = V]
    <2>1. h \in Handler
      BY <1>0 DEF Handler, Steps, CleanTxn
    <2>2. req' = [req EXCEPT ![r] = h]
      BY <1>0, <1>3 DEF CleanLock
    <2>3. h.locks = V /\ h.victims = V /\ h.step = "clean_files"
      BY <1>0 DEF Handler
    <2>4. \A s \in Req \ {r} : V \cap req[s].locks = {}
      BY <1>3 DEF CleanLock, LockedByOther
    <2>5. HandlerOK(h)
      BY <1>0, <2>3 DEF HandlerOK, RotateOK, ExpireOK, Unlocked, InvalidateTxn
    <2>6. \A s \in Req \ {r} : h.locks \cap req[s].locks = {}
      BY <2>3, <2>4, Zenon
    <2>7. /\ UNCHANGED <<status, epoch, rotated_out_at, bootVars>> /\ now' = now
          /\ UNCHANGED <<public_pem, valid_keys, managerVars>>
      BY <1>3 DEF CleanLock, fileVars, dbVars
    <2> HIDE DEF h
    <2> QED
      BY <1>0, <2>1, <2>2, <2>5, <2>6, <2>7, QuietStepInv
  <1>4. CASE CleanFiles(r)
    <2>1. PICK a \in Active : req' = [req EXCEPT ![r].step = "clean_commit", ![r].prev = a]
      BY <1>4 DEF CleanFiles
    <2> DEFINE h == [req[r] EXCEPT !.step = "clean_commit", !.prev = a]
    <2>2. a \in Kid
      BY DEF Active
    <2>3. h \in Handler
      BY <1>0, <2>2 DEF Handler, Steps, CleanTxn
    <2>4. req' = [req EXCEPT ![r] = h]
      BY <1>0, <2>1
    <2>5. \A s \in Req \ {r} : h.locks \cap req[s].locks = {}
      BY <1>0 DEF KeyInv, LocksDisjoint, Handler
    <2>6. HandlerOK(h)
      BY <1>0, <1>4, <2>2
         DEF CleanFiles, HandlerOK, RotateOK, ExpireOK, Unlocked, InvalidateTxn, Handler
    <2> HIDE DEF h
    <2> QED
      BY <1>0, <1>4, <2>3, <2>4, <2>5, <2>6, QuietStepInv DEF CleanFiles, dbVars
  <1>5. CASE CleanPublish(r)
    <2>1. valid_keys' \subseteq Kid
      BY <1>0, <1>5, TypesNow DEF CleanPublish, HandlerOK, ExpireOK
    <2> QED
      BY <1>5, <2>1, EndInv, TypesNow DEF CleanPublish, dbVars, fileVars, managerVars
  <1>6. CASE CleanFail(r)
    <2>1. public_pem' \subseteq Kid
      BY <1>0, <1>6 DEF CleanFail, Handler
    <2> QED
      BY <1>6, <2>1, EndInv, TypesNow DEF CleanFail, dbVars, managerVars
  <1> QED
    BY <1>1, <1>2, <1>3, <1>4, <1>5, <1>6

-----------------------------------------------------------------------------
(* The commits *)

\* The commit of rotate_keys preserves the invariant: it swaps the active row,
\* and no other handler relies on a row it changes.
LEMMA RotateCommitInv ==
  ASSUME KeyInv, NEW r \in Req, RotateCommit(r)
  PROVE  KeyInv'
  <1> DEFINE g == req[r]
             p == g.prev
             k == g.kid
             V == g.victims
             h == [g EXCEPT !.step = "rot_files", !.locks = {}]
  <1>0. /\ status \in [Kid -> RowStatus] /\ req \in [Req -> Handler]
        /\ HandlerOK(g) /\ g \in Handler /\ g.step = "rot_commit"
    BY TypesNow DEF RotateCommit
  <1>1. /\ p \in g.locks /\ p \in Kid /\ status[p] = "active"
        /\ k \in Kid /\ status[k] = "absent"
        /\ \/ V = {} /\ Cardinality(Valid) + 1 <= MaxValidKeys
           \/ \E v \in g.locks \cap Valid : V = {v}
    BY <1>0 DEF HandlerOK, RotateOK
  <1>2. V \subseteq g.locks \cap Valid
    BY <1>1
  <1>3. /\ status' = RotatedTable(g) /\ req' = [req EXCEPT ![r] = h]
        /\ epoch' = [epoch EXCEPT ![k] = g.stamp]
        /\ rotated_out_at' = [rotated_out_at EXCEPT ![p] = Cardinality(Rotated \cup Expired) + 1]
        /\ UNCHANGED <<now, fileVars, valid_keys, bootVars, managerVars>>
    BY <1>0 DEF RotateCommit
  <1>4. Active = {p}
    BY <1>1 DEF KeyInv, OneActiveKey, Active
  <1>5. k \notin V /\ k # p
    BY <1>1, <1>2 DEF Valid, Active, Rotated
  <1>6. /\ Active' = {k}
        /\ Valid' = (Valid \ V) \cup {k}
    BY <1>0, <1>1, <1>2, <1>3, <1>4, <1>5 DEF Active, Rotated, Valid, RotatedTable
  <1>7. /\ h \in Handler /\ h.step = "rot_files" /\ h.locks = {} /\ h.kid = k
    BY <1>0 DEF Handler, Steps
  <1>8. CoreTypeOK'
    <2>1. (status \in [Kid -> RowStatus])'
      BY <1>0, <1>3 DEF RotatedTable, RowStatus
    <2>2. (req \in [Req -> Handler])'
      BY <1>0, <1>3, <1>7
    <2>3. IsFiniteSet(Rotated \cup Expired)
      BY KidAssumption, FS_Subset DEF Rotated, Expired
    <2>4. Cardinality(Rotated \cup Expired) + 1 \in Nat
      BY <2>3, FS_CardinalityType
    <2>5. g.stamp \in Nat
      BY <1>0 DEF Handler
    <2>6. (epoch \in [Kid -> Nat] /\ rotated_out_at \in [Kid -> Nat])'
      BY <1>3, <2>4, <2>5 DEF KeyInv, CoreTypeOK
    <2> QED
      BY <1>3, <2>1, <2>2, <2>6 DEF KeyInv, CoreTypeOK, fileVars, bootVars, managerVars
  <1>9. OneActiveKey'
    BY <1>6 DEF OneActiveKey
  <1>10. ValidKeysBounded'
    <2>1. IsFiniteSet(Valid) /\ Cardinality(Valid) \in Nat /\ Cardinality(Valid) <= MaxValidKeys
      BY ValidFinite DEF KeyInv, ValidKeysBounded
    <2>2. k \notin Valid
      BY <1>1 DEF Valid, Active, Rotated
    <2>3. CASE V = {} /\ Cardinality(Valid) + 1 <= MaxValidKeys
      <3>1. Valid' = Valid \cup {k}
        BY <1>6, <2>3
      <3>2. Cardinality(Valid') = Cardinality(Valid) + 1
        BY <2>1, <2>2, <3>1, FS_AddElement
      <3> QED
        BY <2>3, <3>2 DEF ValidKeysBounded
    <2>4. ASSUME NEW v \in Valid, V = {v} PROVE ValidKeysBounded'
      <3>1. IsFiniteSet(Valid \ {v}) /\ Cardinality(Valid \ {v}) = Cardinality(Valid) - 1
        BY <2>1, FS_RemoveElement
      <3>2. k \notin Valid \ {v}
        BY <2>2
      <3>3. Cardinality((Valid \ {v}) \cup {k}) = Cardinality(Valid \ {v}) + 1
        BY <3>1, <3>2, FS_AddElement
      <3>4. Valid' = (Valid \ {v}) \cup {k}
        BY <1>6, <2>4
      <3>5. Cardinality(Valid') = Cardinality(Valid)
        BY <2>1, <3>1, <3>3, <3>4
      <3> QED
        BY <2>1, <3>5 DEF ValidKeysBounded
    <2> QED
      BY <1>1, <2>3, <2>4
  <1>11. LocksDisjoint'
    BY <1>0, <1>3, <1>7 DEF KeyInv, LocksDisjoint
  <1>12. HandlersOK'
    <2>0. req'[r] = h
      BY <1>0, <1>3
    <2>1. HandlerOK(req[r])'
      <3> HIDE DEF h
      <3> QED
        BY <1>0, <1>1, <1>7, <2>0 DEF HandlerOK, RotateOK, ExpireOK, Unlocked, InvalidateTxn
    <2>2. ASSUME NEW s \in Req \ {r} PROVE HandlerOK(req[s])'
      <3> DEFINE o == req[s]
      <3>1. HandlerOK(o) /\ o \in Handler /\ req'[s] = o /\ o.locks \cap g.locks = {}
        BY <1>3, TypesNow DEF KeyInv, LocksDisjoint
      <3>2. o.step \notin {"rot_write", "rot_overflow", "rot_commit"}
        BY <1>1, <1>4, <3>1 DEF HandlerOK, RotateOK, Active
      <3>3. RotateOK(req[s])'
        BY <3>1, <3>2 DEF HandlerOK, RotateOK
      <3>4. ASSUME NEW j \in o.locks \cap Rotated PROVE j \in Rotated'
        BY <1>0, <1>1, <1>2, <1>3, <3>1, <3>4 DEF Rotated, RotatedTable
      <3>5. ExpireOK(req[s])'
        BY <3>1, <3>4 DEF HandlerOK, ExpireOK
      <3> QED
        BY <3>1, <3>3, <3>5 DEF HandlerOK
    <2> QED
      BY <2>1, <2>2 DEF HandlersOK
  <1>13. BootOK'
    BY <1>3, <1>4 DEF KeyInv, BootOK, bootVars
  <1> QED
    BY <1>8, <1>9, <1>10, <1>11, <1>12, <1>13 DEF KeyInv

\* The commits of invalidate_key and clean_keystore preserve the invariant: they
\* expire rotated rows only, and only rows no other handler has locked.
LEMMA ExpireCommitInv ==
  ASSUME KeyInv, NEW r \in Req, InvalidateCommit(r) \/ CleanCommit(r)
  PROVE  KeyInv'
  <1> DEFINE g == req[r]
             V == g.victims
             n == IF g.step = "inv_commit" THEN "inv_local" ELSE "clean_publish"
             h == [g EXCEPT !.step = n, !.locks = {}]
  <1>0. /\ status \in [Kid -> RowStatus] /\ req \in [Req -> Handler]
        /\ HandlerOK(g) /\ g \in Handler /\ g.step \in {"inv_commit", "clean_commit"}
    BY TypesNow DEF InvalidateCommit, CleanCommit
  <1>1. V \subseteq g.locks \cap Rotated
    BY <1>0 DEF HandlerOK, ExpireOK
  <1>2. /\ status' = ExpiredTable(g) /\ req' = [req EXCEPT ![r] = h]
        /\ UNCHANGED <<epoch, rotated_out_at, now, fileVars, valid_keys, bootVars, managerVars>>
    BY <1>0 DEF InvalidateCommit, CleanCommit
  <1>3. Active' = Active /\ Rotated' = Rotated \ V /\ Valid' = Valid \ V
    BY <1>0, <1>1, <1>2 DEF Active, Rotated, Valid, ExpiredTable
  <1>4. /\ h \in Handler /\ h.step = n /\ h.locks = {} /\ h.kid = g.kid /\ h.prev = g.prev
    BY <1>0 DEF Handler, Steps
  <1>5. CoreTypeOK'
    <2>1. (status \in [Kid -> RowStatus])'
      BY <1>0, <1>2 DEF ExpiredTable, RowStatus
    <2>2. (req \in [Req -> Handler])'
      BY <1>0, <1>2, <1>4
    <2> QED
      BY <1>2, <2>1, <2>2 DEF KeyInv, CoreTypeOK, fileVars, bootVars, managerVars
  <1>6. OneActiveKey'
    <2>1. (\E k \in Kid : status'[k] # "absent") => (\E k \in Kid : status[k] # "absent")
      BY <1>0, <1>1, <1>2 DEF ExpiredTable, Rotated
    <2> QED
      BY <1>3, <2>1 DEF KeyInv, OneActiveKey
  <1>7. /\ Cardinality(Valid) \in Nat /\ Cardinality(Valid') \in Nat
        /\ Cardinality(Valid') <= Cardinality(Valid)
    BY <1>3, ValidFinite DEF KeyInv
  <1>8. ValidKeysBounded'
    BY <1>7, CapAssumption DEF KeyInv, ValidKeysBounded
  <1>9. LocksDisjoint'
    BY <1>0, <1>2, <1>4 DEF KeyInv, LocksDisjoint
  <1>10. HandlersOK'
    <2>0. req'[r] = h
      BY <1>0, <1>2
    <2>1. HandlerOK(req[r])'
      <3> HIDE DEF h
      <3> QED
        BY <1>0, <1>0, <1>4, <2>0 DEF HandlerOK, RotateOK, ExpireOK, Unlocked, InvalidateTxn
    <2>2. ASSUME NEW s \in Req \ {r} PROVE HandlerOK(req[s])'
      <3> DEFINE o == req[s]
      <3>1. HandlerOK(o) /\ o \in Handler /\ req'[s] = o /\ o.locks \cap g.locks = {}
        BY <1>2, TypesNow DEF KeyInv, LocksDisjoint
      <3>2. ASSUME NEW j \in Kid, j \notin V PROVE status'[j] = status[j]
        BY <1>2, <3>2 DEF ExpiredTable
      <3>3. \A j \in Kid : status[j] # "rotated" => status'[j] = status[j]
        BY <1>1, <3>2 DEF Rotated
      <3>4. \A j \in o.locks : j \notin V
        BY <1>1, <3>1
      <3>5. RotateOK(req[s])'
        <4>1. Cardinality(Valid) + 1 <= MaxValidKeys => Cardinality(Valid') + 1 <= MaxValidKeys
          BY <1>7, CapAssumption
        <4>2. \A v \in o.locks \cap Valid : v \in o.locks \cap Valid'
          BY <1>3, <3>4
        <4> QED
          BY <3>1, <3>3, <4>1, <4>2 DEF HandlerOK, RotateOK
      <3>6. ExpireOK(req[s])'
        BY <1>3, <3>1, <3>4 DEF HandlerOK, ExpireOK
      <3> QED
        BY <3>1, <3>5, <3>6 DEF HandlerOK
    <2> QED
      BY <2>1, <2>2 DEF HandlersOK
  <1>11. BootOK'
    BY <1>2, <1>3 DEF KeyInv, BootOK, bootVars
  <1> QED
    BY <1>5, <1>6, <1>8, <1>9, <1>10, <1>11 DEF KeyInv

-----------------------------------------------------------------------------
(* Polling, booting, crashing *)

\* A step that touches neither table nor handlers only has to keep the types and
\* what is known of boots.
LEMMA WorkerStepInv ==
  ASSUME KeyInv, UNCHANGED <<status, req>>, CoreTypeOK', BootOK'
  PROVE  KeyInv'
  <1>1. Active' = Active /\ Rotated' = Rotated /\ Valid' = Valid
    BY TableUnchanged
  <1>2. OneActiveKey' /\ ValidKeysBounded'
    BY <1>1 DEF KeyInv, OneActiveKey, ValidKeysBounded
  <1>3. LocksDisjoint'
    BY DEF KeyInv, LocksDisjoint
  <1>4. HandlersOK'
    BY <1>1 DEF KeyInv, HandlersOK, HandlerOK, RotateOK, ExpireOK
  <1> QED
    BY <1>2, <1>3, <1>4 DEF KeyInv

\* A poller round preserves the invariant: it changes key_mapping and poll only.
LEMMA PollInv ==
  ASSUME KeyInv, NEW w \in Worker, Poll(w)
  PROVE  KeyInv'
  <1>0. CoreTypeOK /\ BootOK
    BY DEF KeyInv
  <1>1. /\ key_mapping \in [Worker -> SUBSET Kid] /\ poll \in [Worker -> Round]
        /\ valid_keys \subseteq Kid
    BY <1>0 DEF CoreTypeOK
  <1>2. /\ UNCHANGED <<dbVars, fileVars, valid_keys, bootVars, active_key, reqVars>>
        /\ (key_mapping \in [Worker -> SUBSET Kid])'
        /\ (poll \in [Worker -> Round])'
    <2>0. NoRound \in Round
      BY DEF NoRound, Round
    <2>1. CASE PollRead(w)
      BY <1>1, <2>1 DEF PollRead, Round
    <2>2. CASE PollEvict(w)
      BY <1>1, <2>0, <2>2 DEF PollEvict, Invalidated
    <2>3. CASE PollFail(w)
      BY <1>1, <2>0, <2>3 DEF PollFail
    <2>4. ASSUME NEW k \in Kid, PollFetch(w, k)
          PROVE  /\ UNCHANGED <<dbVars, fileVars, valid_keys, bootVars, active_key, reqVars>>
                 /\ (key_mapping \in [Worker -> SUBSET Kid])'
                 /\ (poll \in [Worker -> Round])'
      <3>1. [poll[w] EXCEPT !.fetch = poll[w].fetch \ {k}] \in Round
        BY <1>1 DEF Round
      <3> DEFINE e == IF status[k] = "active" THEN NoRound
                      ELSE [poll[w] EXCEPT !.fetch = poll[w].fetch \ {k}]
      <3>4. e \in Round
        BY <2>0, <3>1
      <3>5. poll' = [poll EXCEPT ![w] = e]
        BY <1>1, <2>4 DEF PollFetch
      <3> HIDE DEF e
      <3>2. (poll \in [Worker -> Round])'
        BY <1>1, <3>4, <3>5
      <3>3. (key_mapping \in [Worker -> SUBSET Kid])'
        BY <1>1, <2>4 DEF PollFetch
      <3> QED
        BY <2>4, <3>2, <3>3 DEF PollFetch
    <2> QED
      BY <2>1, <2>2, <2>3, <2>4 DEF Poll
  <1>3. CoreTypeOK'
    BY <1>0, <1>2 DEF CoreTypeOK, dbVars, fileVars, bootVars, reqVars
  <1>4. BootOK'
    BY <1>0, <1>2, TableUnchanged DEF BootOK, dbVars, bootVars
  <1> QED
    BY <1>2, <1>3, <1>4, WorkerStepInv DEF dbVars, reqVars

\* What the query of a boot returns, cut to JWKS_CAP, is a sequence of kids, and
\* not an empty one when there is an active row.
LEMMA LoadedRows ==
  ASSUME KeyInv, NEW s \in [1 .. Cardinality(Valid) -> Valid], NewestFirst(s, Valid)
  PROVE  /\ FirstN(s, JwksCap) \in Seq(Kid)
         /\ Active # {} => FirstN(s, JwksCap) # <<>>
  <1>1. Cardinality(Valid) \in Nat
    BY ValidFinite DEF KeyInv
  <1>2. Valid \subseteq Kid
    BY DEF Valid, Active, Rotated
  <1>3. s \in Seq(Kid) /\ Len(s) = Cardinality(Valid)
    BY <1>1, <1>2
  <1>4. Active # {} => Cardinality(Valid) >= 1
    <2> SUFFICES ASSUME NEW a \in Active PROVE Cardinality(Valid) >= 1
      OBVIOUS
    <2>1. DOMAIN s = 1 .. Cardinality(Valid) /\ a \in Valid
      BY DEF Valid
    <2>2. PICK i \in DOMAIN s : a = s[i]
      BY <2>1 DEF NewestFirst
    <2> QED
      BY <1>1, <2>1, <2>2
  <1> HIDE DEF Valid, NewestFirst
  <1>5. CASE Len(s) > JwksCap
    <2>1. /\ SubSeq(s, 1, JwksCap) \in Seq(Kid)
          /\ Len(SubSeq(s, 1, JwksCap)) = JwksCap
      BY <1>3, <1>5, CapAssumption
    <2>2. SubSeq(s, 1, JwksCap) # <<>>
      BY <2>1, CapAssumption
    <2> QED
      BY <1>5, <2>1, <2>2 DEF FirstN
  <1>6. CASE ~(Len(s) > JwksCap)
    <2>1. FirstN(s, JwksCap) = s
      BY <1>6 DEF FirstN
    <2>2. Active # {} => s # <<>>
      BY <1>1, <1>3, <1>4
    <2> QED
      BY <1>3, <2>1, <2>2
  <1> QED
    BY <1>5, <1>6

\* Inserting the first key preserves the invariant: without an active row the
\* table is empty, so no handler has anything locked.
LEMMA BootInsertInv ==
  ASSUME KeyInv, NEW w \in Worker, BootInsert(w)
  PROVE  KeyInv'
  <1>0. CoreTypeOK /\ BootOK /\ OneActiveKey /\ mode[w] = "commit"
    BY DEF KeyInv, BootInsert
  <1>1. Active = {} /\ \A k \in Kid : status[k] = "absent"
    BY <1>0 DEF BootOK, OneActiveKey
  <1>4. keydata[w] \in Seq(Kid) /\ keydata[w] # <<>>
    BY <1>0 DEF CoreTypeOK, BootOK
  <1>5. PICK k \in Kid : k = Head(keydata[w])
    BY <1>4
  <1>2. /\ status' = [status EXCEPT ![k] = "active"]
        /\ epoch' = [epoch EXCEPT ![k] = now + 1]
    BY <1>5 DEF BootInsert
  <1>3. /\ now' = now + 1 /\ mode' = [mode EXCEPT ![w] = "sync"]
        /\ UNCHANGED <<rotated_out_at, public_pem, valid_keys, boot_master,
                       abort, keydata, active_key, key_mapping, poll, req>>
    BY DEF BootInsert, managerVars, reqVars, fileVars
  <1>6. CoreTypeOK'
    <2>1. (status \in [Kid -> RowStatus] /\ epoch \in [Kid -> Nat] /\ now \in Nat)'
      BY <1>0, <1>2, <1>3, <1>4 DEF CoreTypeOK, RowStatus
    <2>2. (mode \in [Worker -> Modes])'
      BY <1>0, <1>3 DEF CoreTypeOK, Modes, MasterModes
    <2> QED
      BY <1>0, <1>3, <2>1, <2>2 DEF CoreTypeOK
  <1>7. Active' = {k} /\ Rotated' = {} /\ Rotated = {} /\ Valid' = {k} /\ Valid = {}
    BY <1>0, <1>1, <1>2, <1>4 DEF CoreTypeOK, Active, Rotated, Valid
  <1>8. OneActiveKey'
    BY <1>7 DEF OneActiveKey
  <1>9. ValidKeysBounded'
    BY <1>7, FS_Singleton, CapAssumption DEF ValidKeysBounded
  <1>10. LocksDisjoint'
    BY <1>3 DEF KeyInv, LocksDisjoint
  <1>11. ASSUME NEW s \in Req PROVE HandlerOK(req[s])'
    <2>1. HandlerOK(req[s]) /\ req'[s] = req[s]
      BY <1>3, TypesNow
    <2>2. req[s].step \notin {"rot_write", "rot_overflow", "rot_commit"}
      BY <1>1, <2>1 DEF HandlerOK, RotateOK
    <2>3. RotateOK(req[s])'
      BY <2>1, <2>2 DEF HandlerOK, RotateOK
    <2>4. ExpireOK(req[s])'
      BY <1>7, <2>1 DEF HandlerOK, ExpireOK
    <2> QED
      BY <2>1, <2>3, <2>4 DEF HandlerOK
  <1>12. BootOK'
    <2>1. ASSUME NEW u \in Worker, u # w PROVE mode'[u] \notin MasterModes
      BY <1>0, <1>3, <2>1 DEF BootOK, CoreTypeOK, MasterModes
    <2>2. mode'[w] = "sync" /\ keydata'[w] # <<>> /\ boot_master' = w
      BY <1>0, <1>3, <1>4 DEF BootOK, CoreTypeOK, MasterModes
    <2> QED
      BY <2>1, <2>2 DEF BootOK, MasterModes
  <1> QED
    BY <1>6, <1>8, <1>9, <1>10, <1>11, <1>12 DEF KeyInv, HandlersOK

\* Every other step of a boot, and the expiry of the two Redis keys, preserve the
\* invariant.
LEMMA BootLocalInv ==
  ASSUME KeyInv,
         \/ \E w \in Worker : \/ BootElect(w) \/ BootRead(w) \/ BootPair(w) \/ BootSync(w)
                              \/ BootPurge(w) \/ BootPublish(w) \/ BootFinish(w) \/ BootFail(w)
                              \/ SlaveLoad(w) \/ SlaveAbort(w)
         \/ AbortExpire \/ BootLockExpire
  PROVE  KeyInv'
  <1>0. /\ CoreTypeOK /\ BootOK
        /\ mode \in [Worker -> Modes] /\ keydata \in [Worker -> Seq(Kid)]
        /\ boot_master \in Worker \cup {NoWorker} /\ public_pem \subseteq Kid
        /\ key_mapping \in [Worker -> SUBSET Kid]
        /\ active_key \in [Worker -> Kid \cup {NoKid}]
    BY DEF KeyInv, CoreTypeOK
  <1>a. <<>> \in Seq(Kid)
    OBVIOUS
  <1>1. ASSUME NEW w \in Worker, BootElect(w) PROVE KeyInv'
    <2>1. UNCHANGED <<dbVars, fileVars, valid_keys, abort, keydata, managerVars, reqVars>>
      BY <1>1 DEF BootElect
    <2>2. CoreTypeOK'
      BY <1>0, <1>1, <2>1 DEF BootElect, CoreTypeOK, Modes, MasterModes, dbVars, fileVars,
         managerVars, reqVars
    <2>3. BootOK'
      BY <1>0, <1>1, <2>1, TableUnchanged, WorkerAssumption
         DEF BootElect, BootOK, MasterModes, dbVars
    <2> QED
      BY <2>1, <2>2, <2>3, WorkerStepInv DEF dbVars, reqVars
  <1>2. ASSUME NEW w \in Worker, BootRead(w) PROVE KeyInv'
    <2>1. PICK s \in [1 .. Cardinality(Valid) -> Valid] :
             NewestFirst(s, Valid) /\ keydata' = [keydata EXCEPT ![w] = FirstN(s, JwksCap)]
      BY <1>2 DEF BootRead
    <2> DEFINE q == FirstN(s, JwksCap)
    <2>2. q \in Seq(Kid) /\ (Active # {} => q # <<>>)
      BY <2>1, LoadedRows
    <2>3. keydata' = [keydata EXCEPT ![w] = q]
      BY <2>1
    <2> HIDE DEF q
    <2>4. /\ mode' = [mode EXCEPT ![w] = IF Active = {} THEN "insert" ELSE "sync"]
          /\ mode[w] = "read"
          /\ UNCHANGED <<dbVars, fileVars, valid_keys, boot_master, abort, managerVars, reqVars>>
      BY <1>2 DEF BootRead
    <2>5. CoreTypeOK'
      BY <1>0, <2>2, <2>3, <2>4 DEF CoreTypeOK, Modes, MasterModes, dbVars, fileVars,
         managerVars, reqVars
    <2>6. BootOK'
      BY <1>0, <2>2, <2>3, <2>4, TableUnchanged DEF BootOK, MasterModes, dbVars
    <2> QED
      BY <2>4, <2>5, <2>6, WorkerStepInv DEF dbVars, reqVars
  <1>3. ASSUME NEW w \in Worker, BootSync(w) \/ BootPurge(w) \/ BootPublish(w) PROVE KeyInv'
    <2>1. mode[w] \in {"sync", "purge", "publish"}
      BY <1>3 DEF BootSync, BootPurge, BootPublish
    <2>2. /\ keydata[w] \in Seq(Kid) /\ keydata[w] # <<>>
          /\ Kids(keydata[w]) \subseteq Kid /\ Head(keydata[w]) \in Kid
      <3>1. keydata[w] \in Seq(Kid) /\ keydata[w] # <<>>
        BY <1>0, <2>1 DEF BootOK
      <3> QED
        BY <3>1, KidsType
    <2>3. /\ UNCHANGED <<dbVars, boot_master, abort, keydata, managerVars, reqVars>>
          /\ mode' = [mode EXCEPT ![w] = CASE mode[w] = "sync" -> "purge"
                                           [] mode[w] = "purge" -> "publish"
                                           [] OTHER -> "finish"]
          /\ (public_pem \subseteq Kid)'
          /\ (valid_keys \subseteq Kid)'
      <3>1. valid_keys \subseteq Kid
        BY <1>0 DEF CoreTypeOK
      <3>2. CASE BootSync(w)
        BY <1>0, <2>2, <3>1, <3>2 DEF BootSync
      <3>3. CASE BootPurge(w)
        BY <1>0, <3>1, <3>3 DEF BootPurge
      <3>4. CASE BootPublish(w)
        BY <1>0, <2>2, <3>4 DEF BootPublish, fileVars
      <3> QED
        BY <1>3, <3>2, <3>3, <3>4
    <2>4. CoreTypeOK'
      BY <1>0, <2>3 DEF CoreTypeOK, Modes, MasterModes, dbVars, managerVars, reqVars
    <2>5. BootOK'
      BY <1>0, <2>1, <2>3, TableUnchanged DEF BootOK, MasterModes, dbVars
    <2> QED
      BY <2>3, <2>4, <2>5, WorkerStepInv DEF dbVars, reqVars
  <1>4. ASSUME NEW w \in Worker, BootFinish(w) PROVE KeyInv'
    <2>1. /\ keydata[w] \in Seq(Kid) /\ keydata[w] # <<>> /\ mode[w] = "finish"
          /\ boot_master = w
      BY <1>0, <1>4 DEF BootOK, BootFinish, MasterModes
    <2>2. Kids(keydata[w]) \subseteq Kid /\ Head(keydata[w]) \in Kid
      BY <2>1, KidsType
    <2>3. /\ UNCHANGED <<dbVars, fileVars, valid_keys, abort, poll, reqVars>>
          /\ mode' = [mode EXCEPT ![w] = "up"]
          /\ boot_master' = NoWorker
          /\ keydata' = [keydata EXCEPT ![w] = <<>>]
      BY <1>4 DEF BootFinish
    <2>4. (active_key \in [Worker -> Kid \cup {NoKid}] /\ key_mapping \in [Worker -> SUBSET Kid])'
      BY <1>0, <1>4, <2>2 DEF BootFinish
    <2>5. (keydata \in [Worker -> Seq(Kid)])'
      BY <1>0, <1>a, <2>3, Zenon
    <2>6. CoreTypeOK'
      BY <1>0, <2>3, <2>4, <2>5 DEF CoreTypeOK, Modes, dbVars, fileVars, reqVars
    <2>7. BootOK'
      BY <1>0, <2>1, <2>3 DEF BootOK, MasterModes
    <2> QED
      BY <2>3, <2>6, <2>7, WorkerStepInv DEF dbVars, reqVars
  <1>5. ASSUME NEW w \in Worker, BootFail(w) PROVE KeyInv'
    <2>1. /\ UNCHANGED <<dbVars, fileVars, valid_keys, managerVars, reqVars>>
          /\ mode' = [mode EXCEPT ![w] = "down"] /\ mode[w] \in MasterModes
          /\ boot_master' = NoWorker /\ boot_master = w
          /\ keydata' = [keydata EXCEPT ![w] = <<>>]
      BY <1>0, <1>5 DEF BootFail, BootOK
    <2>2. abort' \in BOOLEAN
      BY <1>5 DEF BootFail
    <2>3. (keydata \in [Worker -> Seq(Kid)])'
      BY <1>0, <1>a, <2>1, Zenon
    <2>4. CoreTypeOK'
      BY <1>0, <2>1, <2>2, <2>3 DEF CoreTypeOK, Modes, dbVars, fileVars, managerVars, reqVars
    <2>5. BootOK'
      BY <1>0, <2>1 DEF BootOK, MasterModes
    <2> QED
      BY <2>1, <2>4, <2>5, WorkerStepInv DEF dbVars, reqVars
  <1>6. ASSUME NEW w \in Worker, SlaveLoad(w) PROVE KeyInv'
    <2>1. /\ UNCHANGED <<dbVars, fileVars, valid_keys, boot_master, abort, keydata, poll, reqVars>>
          /\ mode' = [mode EXCEPT ![w] = "up"]
      BY <1>6 DEF SlaveLoad
    <2>2. PICK s \in [1 .. Cardinality(Valid) -> Valid] :
            /\ NewestFirst(s, Valid)
            /\ \E a \in Active : active_key' = [active_key EXCEPT ![w] = a]
            /\ key_mapping' = [key_mapping EXCEPT ![w] = Kids(FirstN(s, JwksCap))]
      BY <1>6 DEF SlaveLoad
    <2> DEFINE K == Kids(FirstN(s, JwksCap))
    <2>3. K \subseteq Kid
      BY <2>2, LoadedRows, KidsType
    <2>4. key_mapping' = [key_mapping EXCEPT ![w] = K]
      BY <2>2
    <2> HIDE DEF K
    <2>5. (active_key \in [Worker -> Kid \cup {NoKid}] /\ key_mapping \in [Worker -> SUBSET Kid])'
      BY <1>0, <2>2, <2>3, <2>4 DEF Active
    <2>6. CoreTypeOK'
      BY <1>0, <2>1, <2>5 DEF CoreTypeOK, Modes, dbVars, fileVars, reqVars
    <2>7. BootOK'
      BY <1>0, <2>1, TableUnchanged DEF BootOK, MasterModes, dbVars
    <2> QED
      BY <2>1, <2>6, <2>7, WorkerStepInv DEF dbVars, reqVars
  <1>7. ASSUME NEW w \in Worker, SlaveAbort(w) PROVE KeyInv'
    <2>1. /\ UNCHANGED <<dbVars, fileVars, valid_keys, boot_master, abort, keydata,
                         managerVars, reqVars>>
          /\ mode' = [mode EXCEPT ![w] = "down"]
      BY <1>7 DEF SlaveAbort
    <2>2. CoreTypeOK'
      BY <1>0, <2>1 DEF CoreTypeOK, Modes, dbVars, fileVars, managerVars, reqVars
    <2>3. BootOK'
      BY <1>0, <2>1, TableUnchanged DEF BootOK, MasterModes, dbVars
    <2> QED
      BY <2>1, <2>2, <2>3, WorkerStepInv DEF dbVars, reqVars
  <1>10. ASSUME NEW w \in Worker, BootPair(w) PROVE KeyInv'
    <2>1. /\ UNCHANGED <<dbVars, jwks, valid_keys, boot_master, abort, managerVars, reqVars>>
          /\ mode' = [mode EXCEPT ![w] = "commit"] /\ mode[w] = "insert"
      BY <1>10 DEF BootPair
    <2>2. PICK k \in Kid : /\ public_pem' = public_pem \cup {k}
                           /\ keydata' = [keydata EXCEPT ![w] = <<k>> \o @]
      BY <1>10 DEF BootPair
    <2>3. keydata[w] \in Seq(Kid)
      BY <1>0
    <2> DEFINE q == <<k>> \o keydata[w]
    <2>4. q \in Seq(Kid) /\ q # <<>>
      BY <2>3
    <2>5. keydata' = [keydata EXCEPT ![w] = q]
      BY <2>2
    <2> HIDE DEF q
    <2>6. CoreTypeOK'
      BY <1>0, <2>1, <2>2, <2>4, <2>5 DEF CoreTypeOK, Modes, MasterModes, dbVars,
         managerVars, reqVars
    <2>7. BootOK'
      BY <1>0, <2>1, <2>4, <2>5, TableUnchanged DEF BootOK, MasterModes, dbVars
    <2> QED
      BY <2>1, <2>6, <2>7, WorkerStepInv DEF dbVars, reqVars
  <1>8. CASE AbortExpire
    <2>1. UNCHANGED <<dbVars, fileVars, valid_keys, boot_master, mode, keydata, managerVars, reqVars>>
      BY <1>8 DEF AbortExpire
    <2>2. abort' \in BOOLEAN
      BY <1>8 DEF AbortExpire
    <2>3. CoreTypeOK'
      BY <1>0, <2>1, <2>2 DEF CoreTypeOK, dbVars, fileVars, managerVars, reqVars
    <2>4. BootOK'
      BY <1>0, <2>1, TableUnchanged DEF BootOK, dbVars
    <2> QED
      BY <2>1, <2>3, <2>4, WorkerStepInv DEF dbVars, reqVars
  <1>9. CASE BootLockExpire
    <2>1. /\ UNCHANGED <<dbVars, fileVars, valid_keys, abort, mode, keydata, managerVars, reqVars>>
          /\ boot_master' = NoWorker /\ mode[boot_master] \notin MasterModes
      BY <1>9 DEF BootLockExpire
    <2>2. CoreTypeOK'
      BY <1>0, <2>1 DEF CoreTypeOK, dbVars, fileVars, managerVars, reqVars
    <2>3. BootOK'
      BY <1>0, <2>1, TableUnchanged DEF BootOK, MasterModes, dbVars
    <2> QED
      BY <2>1, <2>2, <2>3, WorkerStepInv DEF dbVars, reqVars
  <1> QED
    BY <1>1, <1>2, <1>3, <1>4, <1>5, <1>6, <1>7, <1>8, <1>9, <1>10

\* The death of a process preserves the invariant: its transactions roll back.
LEMMA CrashInv ==
  ASSUME KeyInv, NEW w \in Worker, Crash(w)
  PROVE  KeyInv'
  <1>0. CoreTypeOK /\ BootOK
    BY DEF KeyInv
  <1>1. /\ UNCHANGED <<status, epoch, rotated_out_at, now, fileVars, valid_keys,
                       boot_master, abort>>
        /\ mode' = [mode EXCEPT ![w] = "down"]
        /\ keydata' = [keydata EXCEPT ![w] = <<>>]
        /\ active_key' = [active_key EXCEPT ![w] = NoKid]
        /\ key_mapping' = [key_mapping EXCEPT ![w] = {}]
        /\ poll' = [poll EXCEPT ![w] = NoRound]
        /\ req' = [r \in Req |-> IF req[r].at = w THEN Idle ELSE req[r]]
    BY DEF Crash, dbVars
  <1>2. Active' = Active /\ Rotated' = Rotated /\ Valid' = Valid
    BY <1>1, TableUnchanged
  <1>3. Idle \in Handler /\ HandlerOK(Idle) /\ Idle.locks = {}
    BY IdleOK
  <1>4. ASSUME NEW r \in Req
        PROVE  /\ req'[r] \in Handler /\ HandlerOK(req'[r])
               /\ req'[r].locks \subseteq req[r].locks
    BY <1>1, <1>3, TypesNow
  <1>5. CoreTypeOK'
    <2>1. <<>> \in Seq(Kid) /\ NoRound \in Round
      BY DEF NoRound, Round
    <2>2. (keydata \in [Worker -> Seq(Kid)] /\ poll \in [Worker -> Round])'
      BY <1>0, <1>1, <2>1, Zenon DEF CoreTypeOK
    <2>3. (req \in [Req -> Handler])'
      BY <1>1, <1>3, TypesNow
    <2> QED
      BY <1>0, <1>1, <2>2, <2>3 DEF CoreTypeOK, Modes, fileVars
  <1>6. OneActiveKey' /\ ValidKeysBounded'
    BY <1>1, <1>2 DEF KeyInv, OneActiveKey, ValidKeysBounded
  <1>7. LocksDisjoint'
    BY <1>4 DEF KeyInv, LocksDisjoint
  <1>8. HandlersOK'
    BY <1>1, <1>2, <1>4 DEF HandlersOK, HandlerOK, RotateOK, ExpireOK
  <1>9. BootOK'
    BY <1>0, <1>1, <1>2 DEF BootOK, CoreTypeOK, MasterModes
  <1> QED
    BY <1>5, <1>6, <1>7, <1>8, <1>9 DEF KeyInv

\* A step that changes nothing preserves the invariant.
LEMMA StutterInv ==
  ASSUME KeyInv, UNCHANGED vars
  PROVE  KeyInv'
  <1>1. UNCHANGED <<status, epoch, rotated_out_at, now, public_pem,
                    valid_keys, boot_master, abort, mode, keydata, active_key,
                    key_mapping, poll, req>>
    BY DEF vars, dbVars, fileVars, bootVars, managerVars, reqVars
  <1>2. CoreTypeOK'
    BY <1>1 DEF KeyInv, CoreTypeOK
  <1>3. BootOK'
    BY <1>1, TableUnchanged DEF KeyInv, BootOK
  <1> QED
    BY <1>1, <1>2, <1>3, WorkerStepInv

-----------------------------------------------------------------------------
(* Theorems *)

\* KeyInv is inductive, and so holds in every state of every behaviour of the
\* key store.
THEOREM KeyInvariant == Spec => []KeyInv
  <1>1. Init => KeyInv
    BY InitKeyInv
  <1>2. KeyInv /\ [Next]_vars => KeyInv'
    <2> SUFFICES ASSUME KeyInv, [Next]_vars PROVE KeyInv'
      OBVIOUS
    <2>1. ASSUME NEW r \in Req, Rotate(r) PROVE KeyInv'
      BY <2>1, RotateLocalInv, RotateCommitInv DEF Rotate
    <2>2. ASSUME NEW r \in Req, Invalidate(r) PROVE KeyInv'
      BY <2>2, InvalidateLocalInv, ExpireCommitInv DEF Invalidate
    <2>3. ASSUME NEW r \in Req, Clean(r) PROVE KeyInv'
      BY <2>3, CleanLocalInv, ExpireCommitInv DEF Clean
    <2>4. ASSUME NEW w \in Worker, Poll(w) PROVE KeyInv'
      BY <2>4, PollInv
    <2>5. ASSUME NEW w \in Worker, Boot(w) PROVE KeyInv'
      BY <2>5, BootInsertInv, BootLocalInv DEF Boot
    <2>6. ASSUME NEW w \in Worker, Crash(w) PROVE KeyInv'
      BY <2>6, CrashInv
    <2>7. CASE AbortExpire \/ BootLockExpire
      BY <2>7, BootLocalInv
    <2>8. CASE UNCHANGED vars
      BY <2>8, StutterInv
    <2> QED
      BY <2>1, <2>2, <2>3, <2>4, <2>5, <2>6, <2>7, <2>8 DEF Next
  <1> QED
    BY <1>1, <1>2, PTL DEF Spec

\* Whatever rotations, invalidations, boots and crashes interleave, the table has
\* exactly one signing key from the creation of the first one on.
THEOREM AlwaysOneActiveKey == Spec => []OneActiveKey
  <1>1. KeyInv => OneActiveKey
    BY DEF KeyInv
  <1> QED
    BY <1>1, KeyInvariant, PTL

\* rotate_keys never lets the number of unexpired keys exceed MAX_VALID_KEYS.
THEOREM AlwaysBounded == Spec => []ValidKeysBounded
  <1>1. KeyInv => ValidKeysBounded
    BY DEF KeyInv
  <1> QED
    BY <1>1, KeyInvariant, PTL

\* Two rotations are never both past their row lock, on any number of workers.
THEOREM RotationsExclude == Spec => []RotationExclusive
  <1>1. KeyInv => RotationExclusive
    <2> SUFFICES ASSUME KeyInv, NEW r \in Req, NEW s \in Req,
                        req[r].step \in RotateTxn \ {"rot_lock"},
                        req[s].step \in RotateTxn \ {"rot_lock"}
                 PROVE  r = s
      BY DEF RotationExclusive
    <2>1. HandlerOK(req[r]) /\ HandlerOK(req[s])
      BY TypesNow
    <2>2. /\ req[r].prev \in req[r].locks /\ req[r].prev \in Active
          /\ req[s].prev \in req[s].locks /\ req[s].prev \in Active
      BY <2>1 DEF HandlerOK, RotateOK, RotateTxn, Active
    <2>3. req[r].prev = req[s].prev
      BY <2>2 DEF KeyInv, OneActiveKey
    <2> QED
      BY <2>2, <2>3 DEF KeyInv, LocksDisjoint
  <1> QED
    BY <1>1, KeyInvariant, PTL

\* No transaction writes a row it has not locked, or decides on a row that has
\* changed since it was read.
THEOREM WritesAlwaysLocked == Spec => []WritesAreLocked
  <1>1. KeyInv => WritesAreLocked
    <2> SUFFICES ASSUME KeyInv, NEW r \in Req
                 PROVE  /\ req[r].step \in {"rot_commit", "inv_commit", "clean_commit"} =>
                              \A v \in req[r].victims : v \in req[r].locks /\ v \in Valid
                        /\ req[r].step \in {"rot_write", "rot_overflow", "rot_commit"} =>
                              req[r].prev \in req[r].locks /\ Active = {req[r].prev}
      BY DEF WritesAreLocked
    <2>1. HandlerOK(req[r])
      BY TypesNow
    <2>2. req[r].step \in {"rot_commit", "inv_commit", "clean_commit"} =>
            \A v \in req[r].victims : v \in req[r].locks /\ v \in Valid
      BY <2>1 DEF HandlerOK, RotateOK, ExpireOK, Valid
    <2>3. req[r].step \in {"rot_write", "rot_overflow", "rot_commit"} =>
            req[r].prev \in req[r].locks /\ Active = {req[r].prev}
      BY <2>1 DEF HandlerOK, RotateOK, KeyInv, OneActiveKey, Active
    <2> QED
      BY <2>2, <2>3
  <1> QED
    BY <1>1, KeyInvariant, PTL

\* Only the three commits and the bootstrap write the table.
LEMMA TableWriters ==
  ASSUME [Next]_vars
  PROVE  \/ status' = status
         \/ \E r \in Req : RotateCommit(r) \/ InvalidateCommit(r) \/ CleanCommit(r)
         \/ \E w \in Worker : BootInsert(w)
  <1>1. ASSUME NEW r \in Req, Rotate(r), ~RotateCommit(r) PROVE status' = status
    BY <1>1 DEF Rotate, RotateBegin, RotateLock, RotateWrite, RotateOverflow, RotateAbort,
       RotateFiles, dbVars
  <1>2. ASSUME NEW r \in Req, Invalidate(r), ~InvalidateCommit(r) PROVE status' = status
    BY <1>2 DEF Invalidate, InvalidateBegin, InvalidateReject, InvalidateLock,
       InvalidateFiles, InvalidateLocal, InvalidateFail, dbVars
  <1>3. ASSUME NEW r \in Req, Clean(r), ~CleanCommit(r) PROVE status' = status
    BY <1>3 DEF Clean, CleanBegin, CleanSelect, CleanLock, CleanFiles, CleanPublish,
       CleanFail, dbVars
  <1>4. ASSUME NEW w \in Worker, Poll(w) \/ Crash(w) PROVE status' = status
    BY <1>4 DEF Poll, PollRead, PollFail, PollFetch, PollEvict, Crash, dbVars
  <1>5. ASSUME NEW w \in Worker, Boot(w), ~BootInsert(w) PROVE status' = status
    BY <1>5 DEF Boot, BootElect, BootRead, BootPair, BootSync, BootPurge, BootPublish, BootFinish,
       BootFail, SlaveLoad, SlaveAbort, dbVars
  <1>6. CASE AbortExpire \/ BootLockExpire
    BY <1>6 DEF AbortExpire, BootLockExpire, dbVars
  <1>7. CASE UNCHANGED vars
    BY <1>7 DEF vars, dbVars
  <1> QED
    BY <1>1, <1>2, <1>3, <1>4, <1>5, <1>6, <1>7 DEF Next

\* The keydata table, with handlers, boots, pollers and crashes around it,
\* implements the abstract key ring: keys are created active, handed over one to
\* the next, retired once, and never return.
THEOREM KeyStoreImplementsKeyRing == Spec => ImplementsKeyRing
  <1>1. Init => KR!RingInit
    BY DEF Init, KR!RingInit
  <1>2. KeyInv /\ KeyInv' /\ [Next]_vars => [KR!RingNext]_status
    <2> SUFFICES ASSUME KeyInv, KeyInv', [Next]_vars PROVE KR!RingNext \/ status' = status
      OBVIOUS
    <2>1. ASSUME NEW r \in Req, RotateCommit(r) PROVE KR!RingNext
      <3> DEFINE g == req[r]
      <3>1. g.step = "rot_commit" /\ status' = RotatedTable(g) /\ HandlerOK(g)
        BY <2>1, TypesNow DEF RotateCommit
      <3>2. /\ g.prev \in Kid /\ status[g.prev] = "active"
            /\ g.kid \in Kid /\ status[g.kid] = "absent"
            /\ g.victims \subseteq Valid
        BY <3>1 DEF HandlerOK, RotateOK
      <3>3. KR!Cardinality(KR!Verifying') <= MaxValidKeys
        <4>1. KR!Verifying' = Valid'
          BY DEF KR!Verifying, Valid, Active, Rotated
        <4>2. \A S : KR!Cardinality(S) = Cardinality(S)
          BY DEF KR!Cardinality, Cardinality, KR!IsFiniteSet, IsFiniteSet
        <4> QED
          BY <4>1, <4>2 DEF KeyInv, ValidKeysBounded
      <3>4. g.victims \in SUBSET Kid /\ \A v \in g.victims : status[v] \in {"active", "rotated"}
        BY <3>2 DEF Valid, Active, Rotated
      <3>5. KR!TakeOver(g.prev, g.kid, g.victims)
        <4>1. status' = [j \in Kid |-> IF j \in g.victims THEN "expired"
                                       ELSE IF j = g.kid THEN "active"
                                       ELSE IF j = g.prev THEN "rotated" ELSE status[j]]
          BY <3>1 DEF RotatedTable
        <4> QED
          BY <3>2, <3>3, <3>4, <4>1, Zenon DEF KR!TakeOver
      <3> QED
        BY <3>2, <3>4, <3>5 DEF KR!RingNext
    <2>2. ASSUME NEW r \in Req, InvalidateCommit(r) \/ CleanCommit(r) PROVE KR!RingNext
      <3>1. /\ req[r].step \in {"inv_commit", "clean_commit"}
            /\ status' = ExpiredTable(req[r]) /\ HandlerOK(req[r])
        BY <2>2, TypesNow DEF InvalidateCommit, CleanCommit
      <3>2. req[r].victims \in SUBSET Kid /\ \A v \in req[r].victims : status[v] = "rotated"
        BY <3>1 DEF HandlerOK, ExpireOK, Rotated
      <3>3. KR!Retire(req[r].victims)
        BY <3>1, <3>2 DEF KR!Retire, ExpiredTable
      <3> QED
        BY <3>2, <3>3 DEF KR!RingNext
    <2>3. ASSUME NEW w \in Worker, BootInsert(w) PROVE KR!RingNext
      <3>1. \A j \in Kid : status[j] = "absent"
        BY <2>3 DEF KeyInv, BootOK, OneActiveKey, BootInsert
      <3>2. PICK k \in Kid : status' = [status EXCEPT ![k] = "active"]
        <4>1. keydata[w] \in Seq(Kid) /\ keydata[w] # <<>>
          BY <2>3 DEF KeyInv, CoreTypeOK, BootOK, BootInsert
        <4>2. Head(keydata[w]) \in Kid
          BY <4>1
        <4> QED
          BY <2>3, <4>2 DEF BootInsert
      <3>3. KR!Create(k)
        BY <3>1, <3>2 DEF KR!Create
      <3> QED
        BY <3>3 DEF KR!RingNext
    <2> QED
      BY <2>1, <2>2, <2>3, TableWriters
  <1> QED
    BY <1>1, <1>2, KeyInvariant, PTL DEF Spec, ImplementsKeyRing, KR!RingSpec

-----------------------------------------------------------------------------
(* The content of the JWKS file *)

\* Different members of a finite set of naturals have different ranks, all between
\* 1 and the number of members.
LEMMA RankInjective ==
  ASSUME NEW S \in SUBSET Nat, IsFiniteSet(S)
  PROVE  /\ Cardinality(S) \in Nat
         /\ \A i \in S : Rank(S, i) \in 1 .. Cardinality(S)
         /\ \A g, i \in S : g # i => Rank(S, g) # Rank(S, i)
  <1> DEFINE n == Cardinality(S)
             Upto(i) == {h \in S : h <= i}
  <1>1. n \in Nat
    BY FS_CardinalityType
  <1>2. \A i \in S : /\ IsFiniteSet(Upto(i)) /\ Cardinality(Upto(i)) \in Nat
                     /\ Cardinality(Upto(i)) <= n
    BY FS_Subset, FS_CardinalityType
  <1>3. \A i \in S : Cardinality(Upto(i)) # 0
    <2> SUFFICES ASSUME NEW i \in S PROVE Cardinality(Upto(i)) # 0
      OBVIOUS
    <2>1. i \in Upto(i)
      OBVIOUS
    <2> QED
      BY <1>2, <2>1, FS_EmptySet
  <1>4. ASSUME NEW g \in S, NEW i \in S, g < i
        PROVE  Cardinality(Upto(g)) # Cardinality(Upto(i))
    <2>1. \A h \in S : h <= g => h <= i
      BY <1>4
    <2>2. Upto(g) \subseteq Upto(i)
      BY <2>1
    <2>3. i <= i /\ ~(i <= g)
      BY <1>4
    <2>4. Upto(g) \subseteq Upto(i) /\ i \in Upto(i) /\ i \notin Upto(g)
      BY <2>2, <2>3
    <2> HIDE DEF Upto
    <2>5. Cardinality(Upto(g)) = Cardinality(Upto(i)) => Upto(g) = Upto(i)
      BY <1>2, <2>4, FS_Subset
    <2> QED
      BY <2>4, <2>5
  <1>5. \A i \in S : Rank(S, i) = Cardinality(Upto(i))
    BY DEF Rank
  <1> HIDE DEF Upto
  <1>6. \A i \in S : Rank(S, i) \in 1 .. n
    BY <1>1, <1>2, <1>3, <1>5
  <1>7. ASSUME NEW g \in S, NEW i \in S, g # i PROVE Rank(S, g) # Rank(S, i)
    <2>1. g < i \/ i < g
      BY <1>7
    <2> QED
      BY <1>4, <1>5, <2>1
  <1> QED
    BY <1>1, <1>6, <1>7

\* So every number up to that is a rank.
LEMMA RankOnto ==
  ASSUME NEW S \in SUBSET Nat, IsFiniteSet(S), NEW j \in 1 .. Cardinality(S)
  PROVE  \E i \in S : Rank(S, i) = j
  <1> DEFINE n == Cardinality(S)
             f == [i \in S |-> Rank(S, i)]
  <1>1. /\ n \in Nat /\ f \in [S -> 1 .. n]
        /\ \A g, i \in S : g # i => f[g] # f[i]
    BY RankInjective
  <1>2. j \in 1 .. n
    OBVIOUS
  <1> HIDE DEF f, n
  <1>3. f \in Injection(S, 1 .. n)
    BY <1>1 DEF Injection, IsInjective
  <1>4. IsFiniteSet(1 .. n) /\ Cardinality(1 .. n) = n
    BY <1>1, FS_Interval
  <1>5. f \in Surjection(S, 1 .. n)
    BY <1>3, <1>4, FS_Injection DEF n
  <1> QED
    BY <1>2, <1>5 DEF Surjection, f

\* Removing a key leaves a sequence of kids that is not longer, with exactly the
\* other kids in it.
LEMMA WithoutType ==
  ASSUME NEW s \in Seq(Kid), NEW k
  PROVE  /\ Without(s, k) \in Seq(Kid) /\ Len(Without(s, k)) <= Len(s)
         /\ Kids(Without(s, k)) = Kids(s) \ {k}
  <1> DEFINE kept == {i \in DOMAIN s : s[i] # k}
             n == Cardinality(kept)
             At(j) == CHOOSE i \in kept : Rank(kept, i) = j
  <1>1. IsFiniteSet(1 .. Len(s)) /\ Cardinality(1 .. Len(s)) = Len(s)
    <2>1. PICK m \in Nat : m = Len(s)
      OBVIOUS
    <2>2. IsFiniteSet(1 .. m) /\ Cardinality(1 .. m) = IF 1 > m THEN 0 ELSE m - 1 + 1
      BY FS_Interval
    <2> QED
      BY <2>1, <2>2
  <1>2. /\ kept \in SUBSET (1 .. Len(s)) /\ kept \in SUBSET Nat /\ DOMAIN s = 1 .. Len(s)
    OBVIOUS
  <1>3. Without(s, k) = [j \in 1 .. n |-> s[At(j)]]
    BY DEF Without
  <1> HIDE DEF kept
  <1>4. IsFiniteSet(kept) /\ Cardinality(kept) <= Len(s)
    <2>1. IsFiniteSet(kept) /\ Cardinality(kept) <= Cardinality(1 .. Len(s))
      BY <1>1, <1>2, FS_Subset
    <2> QED
      BY <1>1, <2>1
  <1>5. n \in Nat /\ n <= Len(s)
    BY <1>4, FS_CardinalityType
  <1>6. ASSUME NEW j \in 1 .. n PROVE At(j) \in kept
    <2>1. \E i \in kept : Rank(kept, i) = j
      BY <1>2, <1>4, RankOnto
    <2> QED
      BY <2>1
  <1>7. ASSUME NEW i \in kept PROVE \E j \in 1 .. n : At(j) = i
    <2>1. /\ Rank(kept, i) \in 1 .. n
          /\ \A g \in kept : Rank(kept, g) = Rank(kept, i) => g = i
      BY <1>2, <1>4, RankInjective
    <2>2. At(Rank(kept, i)) = i
      BY <2>1
    <2> QED
      BY <2>1, <2>2
  <1> HIDE DEF n, At
  <1>8. \A j \in 1 .. n : s[At(j)] \in Kid
    <2> SUFFICES ASSUME NEW j \in 1 .. n PROVE s[At(j)] \in Kid
      OBVIOUS
    <2>1. At(j) \in 1 .. Len(s)
      BY <1>2, <1>6
    <2> QED
      BY <2>1
  <1>9. [j \in 1 .. n |-> s[At(j)]] \in [1 .. n -> Kid]
    BY <1>8
  <1>10. Kids(Without(s, k)) = {s[At(j)] : j \in 1 .. n}
    BY <1>3 DEF Kids
  <1>12. Kids(s) \ {k} = {s[i] : i \in kept}
    BY DEF Kids, kept
  <1>11. {s[At(j)] : j \in 1 .. n} = {s[i] : i \in kept}
    BY <1>6, <1>7
  <1> QED
    <2>1. Without(s, k) \in Seq(Kid) /\ Len(Without(s, k)) <= Len(s)
      BY <1>3, <1>5, <1>9
    <2>2. Kids(Without(s, k)) = Kids(s) \ {k}
      BY <1>10, <1>11, <1>12
    <2> QED
      BY <2>1, <2>2

\* The larger of the two capacities, and the sequences of kids within it.
Capacity == IF MaxValidKeys > JwksCap THEN MaxValidKeys ELSE JwksCap
Short == {s \in Seq(Kid) : Len(s) <= Capacity}

\* Every sequence that may end up in the JWKS file is within the capacity: the
\* file, the content a handler would write back, the rows a master has read.  A
\* master that has to insert the first key has read none.
FilesOK ==
    /\ jwks \in Short
    /\ saved \in [Req -> Short]
    /\ keydata \in [Worker -> Short]
    /\ \A w \in Worker : mode[w] = "insert" => keydata[w] = <<>>

LEMMA CapacityType ==
  /\ Capacity \in Nat /\ Capacity >= 1
  /\ MaxValidKeys <= Capacity /\ JwksCap <= Capacity
  BY CapAssumption DEF Capacity

LEMMA OneKeyShort ==
  /\ <<>> \in Short
  /\ \A k \in Kid : <<k>> \in Short
  BY CapacityType DEF Short

\* Cutting a sequence from either end leaves at most n entries.
LEMMA LastNType ==
  ASSUME NEW s \in Seq(Kid), NEW n \in Nat \ {0}
  PROVE  LastN(s, n) \in Seq(Kid) /\ Len(LastN(s, n)) <= n
  <1>1. CASE Len(s) > n
    <2>1. PICK m \in Nat : m = Len(s)
      OBVIOUS
    <2>2. m - n + 1 \in 1 .. m /\ m \in 1 .. m + 1 /\ m - (m - n + 1) + 1 = n
      BY <1>1, <2>1
    <2>3. /\ SubSeq(s, m - n + 1, m) \in Seq(Kid)
          /\ Len(SubSeq(s, m - n + 1, m)) = m - (m - n + 1) + 1
      BY <2>1, <2>2
    <2> QED
      BY <1>1, <2>1, <2>2, <2>3 DEF LastN
  <1>2. CASE ~(Len(s) > n)
    BY <1>2 DEF LastN
  <1> QED
    BY <1>1, <1>2

LEMMA FirstNType ==
  ASSUME NEW s \in Seq(Kid), NEW n \in Nat \ {0}
  PROVE  FirstN(s, n) \in Seq(Kid) /\ Len(FirstN(s, n)) <= n
  <1>1. CASE Len(s) > n
    <2>1. SubSeq(s, 1, n) \in Seq(Kid) /\ Len(SubSeq(s, 1, n)) = n
      BY <1>1
    <2> QED
      BY <1>1, <2>1 DEF FirstN
  <1>2. CASE ~(Len(s) > n)
    BY <1>2 DEF FirstN
  <1> QED
    BY <1>1, <1>2

\* The handlers keep the file and the saved contents within the capacity.
LEMMA RequestFiles ==
  ASSUME KeyInv, FilesOK, NEW r \in Req, Rotate(r) \/ Invalidate(r) \/ Clean(r)
  PROVE  FilesOK'
  <1>0. /\ jwks \in Short /\ saved \in [Req -> Short] /\ saved[r] \in Short
        /\ <<>> \in Short
    BY OneKeyShort DEF FilesOK
  <1>1. CASE Rotate(r)
    <2>1. ASSUME RotateFiles(r) PROVE jwks' \in Short
      <3>1. req[r].kid \in Kid
        BY <2>1 DEF KeyInv, HandlersOK, HandlerOK, RotateOK, RotateFiles
      <3> DEFINE q == Append(jwks, req[r].kid)
      <3>2. q \in Seq(Kid) /\ jwks' = LastN(q, MaxValidKeys)
        BY <1>0, <2>1, <3>1 DEF Short, RotateFiles
      <3> HIDE DEF q
      <3>3. LastN(q, MaxValidKeys) \in Seq(Kid) /\ Len(LastN(q, MaxValidKeys)) <= MaxValidKeys
        BY <3>2, LastNType, CapAssumption
      <3> QED
        BY <3>2, <3>3, CapacityType, CapAssumption DEF Short
    <2>2. jwks' \in Short
      BY <1>0, <1>1, <2>1 DEF Rotate, RotateBegin, RotateLock, RotateWrite, RotateOverflow,
         RotateCommit, RotateAbort, fileVars
    <2>3. /\ UNCHANGED <<mode, keydata>>
          /\ saved' = saved \/ saved' = [saved EXCEPT ![r] = <<>>]
      BY <1>1 DEF Rotate, RotateBegin, RotateLock, RotateWrite, RotateOverflow,
         RotateCommit, RotateAbort, RotateFiles, End, bootVars
    <2>4. saved' \in [Req -> Short]
      BY <1>0, <2>3
    <2> QED
      BY <2>2, <2>3, <2>4 DEF FilesOK
  <1>2. CASE Invalidate(r)
    <2>1. ASSUME InvalidateFiles(r) PROVE jwks' \in Short
      <3>1. saved[r] \in Seq(Kid) /\ Len(saved[r]) <= Capacity
        BY <1>0 DEF Short
      <3>2. PICK q : q = Without(saved[r], req[r].kid)
        OBVIOUS
      <3>3. q \in Seq(Kid) /\ Len(q) <= Len(saved[r])
        BY <3>1, <3>2, WithoutType
      <3>4. Len(q) <= Capacity
        BY <3>1, <3>3, CapacityType
      <3> QED
        BY <2>1, <3>2, <3>3, <3>4 DEF Short, InvalidateFiles
    <2>2. jwks' \in Short
      BY <1>0, <1>2, <2>1 DEF Invalidate, InvalidateBegin, InvalidateReject, InvalidateLock,
         InvalidateCommit, InvalidateLocal, InvalidateFail, fileVars
    <2>3. /\ UNCHANGED <<mode, keydata>>
          /\ \E q \in Short : saved' = saved \/ saved' = [saved EXCEPT ![r] = q]
      BY <1>0, <1>2 DEF Invalidate, InvalidateBegin, InvalidateReject, InvalidateLock,
         InvalidateFiles, InvalidateCommit, InvalidateLocal, InvalidateFail, End, bootVars
    <2>4. saved' \in [Req -> Short]
      BY <1>0, <2>3
    <2> QED
      BY <2>2, <2>3, <2>4 DEF FilesOK
  <1>3. CASE Clean(r)
    <2>1. ASSUME CleanFiles(r) PROVE jwks' \in Short
      BY <2>1, OneKeyShort DEF CleanFiles, Active
    <2>2. jwks' \in Short
      BY <1>0, <1>3, <2>1 DEF Clean, CleanBegin, CleanSelect, CleanLock,
         CleanCommit, CleanPublish, CleanFail, fileVars
    <2>3. /\ UNCHANGED <<mode, keydata>>
          /\ \E q \in Short : saved' = saved \/ saved' = [saved EXCEPT ![r] = q]
      BY <1>0, <1>3 DEF Clean, CleanBegin, CleanSelect, CleanLock, CleanFiles,
         CleanCommit, CleanPublish, CleanFail, End, bootVars
    <2>4. saved' \in [Req -> Short]
      BY <1>0, <2>3
    <2> QED
      BY <2>2, <2>3, <2>4 DEF FilesOK
  <1> QED
    BY <1>1, <1>2, <1>3

\* What a booting master reads is within the capacity, and nothing at all when
\* there is no active row: the table is empty then.
LEMMA RowsRead ==
  ASSUME KeyInv, NEW s \in [1 .. Cardinality(Valid) -> Valid], NewestFirst(s, Valid)
  PROVE  /\ FirstN(s, JwksCap) \in Short
         /\ Active = {} => FirstN(s, JwksCap) = <<>>
  <1>1. Cardinality(Valid) \in Nat /\ Valid \subseteq Kid
    BY ValidFinite DEF KeyInv, Valid, Active, Rotated
  <1>2. s \in Seq(Kid) /\ Len(s) = Cardinality(Valid)
    BY <1>1
  <1>3. FirstN(s, JwksCap) \in Short
    BY <1>2, FirstNType, CapacityType, CapAssumption DEF Short
  <1>4. ASSUME Active = {} PROVE FirstN(s, JwksCap) = <<>>
    <2>1. Valid = {}
      BY <1>4 DEF KeyInv, CoreTypeOK, OneActiveKey, Valid, Active, Rotated, RowStatus
    <2>2. Cardinality(Valid) = 0
      BY <2>1, FS_EmptySet
    <2>3. Len(s) = 0 /\ s = <<>>
      BY <1>2, <2>2
    <2> QED
      BY <2>3, CapAssumption DEF FirstN
  <1> QED
    BY <1>3, <1>4

\* Pollers, boots, crashes and expiries keep them within the capacity as well.
LEMMA WorkerFiles ==
  ASSUME KeyInv, FilesOK,
         \/ \E w \in Worker : Poll(w) \/ Boot(w) \/ Crash(w)
         \/ AbortExpire \/ BootLockExpire
  PROVE  FilesOK'
  <1>0. /\ jwks \in Short /\ saved \in [Req -> Short] /\ keydata \in [Worker -> Short]
        /\ \A w \in Worker : mode[w] = "insert" => keydata[w] = <<>>
        /\ <<>> \in Short /\ mode \in [Worker -> Modes]
    BY OneKeyShort DEF FilesOK, KeyInv, CoreTypeOK
  <1>1. ASSUME UNCHANGED <<jwks, saved, mode, keydata>> PROVE FilesOK'
    BY <1>1 DEF FilesOK
  <1>2. ASSUME NEW w \in Worker, Poll(w) PROVE FilesOK'
    BY <1>1, <1>2 DEF Poll, PollRead, PollFail, PollFetch, PollEvict, fileVars, bootVars, reqVars
  <1>3. CASE AbortExpire \/ BootLockExpire
    BY <1>1, <1>3 DEF AbortExpire, BootLockExpire, fileVars, reqVars
  <1>4. ASSUME NEW w \in Worker, Crash(w) PROVE FilesOK'
    <2>1. /\ jwks' = jwks
          /\ mode' = [mode EXCEPT ![w] = "down"] /\ keydata' = [keydata EXCEPT ![w] = <<>>]
          /\ saved' = [r \in Req |-> IF req[r].at = w THEN <<>> ELSE saved[r]]
      BY <1>4 DEF Crash, fileVars
    <2>2. keydata' \in [Worker -> Short] /\ saved' \in [Req -> Short]
      BY <1>0, <2>1
    <2>3. \A v \in Worker : mode'[v] = "insert" => keydata'[v] = <<>>
      BY <1>0, <2>1
    <2> QED
      BY <1>0, <2>1, <2>2, <2>3 DEF FilesOK
  <1>5. ASSUME NEW w \in Worker, BootElect(w) \/ BootInsert(w) \/ BootSync(w) \/ BootPublish(w)
                                   \/ SlaveLoad(w) \/ SlaveAbort(w)
        PROVE  FilesOK'
    <2>1. /\ UNCHANGED <<jwks, saved, keydata>>
          /\ \E m \in Modes \ {"insert"} : mode' = [mode EXCEPT ![w] = m]
      BY <1>5 DEF BootElect, BootInsert, BootSync, BootPublish, SlaveLoad, SlaveAbort,
         Modes, MasterModes, fileVars, reqVars
    <2> QED
      BY <1>0, <2>1 DEF FilesOK
  <1>6. ASSUME NEW w \in Worker, BootRead(w) PROVE FilesOK'
    <2>1. PICK s \in [1 .. Cardinality(Valid) -> Valid] :
             NewestFirst(s, Valid) /\ keydata' = [keydata EXCEPT ![w] = FirstN(s, JwksCap)]
      BY <1>6 DEF BootRead
    <2>2. PICK q : q = FirstN(s, JwksCap)
      OBVIOUS
    <2>3. q \in Short /\ (Active = {} => q = <<>>)
      BY <2>1, <2>2, RowsRead
    <2>4. /\ UNCHANGED <<jwks, saved>> /\ keydata' = [keydata EXCEPT ![w] = q]
          /\ mode' = [mode EXCEPT ![w] = IF Active = {} THEN "insert" ELSE "sync"]
      BY <1>6, <2>1, <2>2 DEF BootRead, fileVars, reqVars
    <2> QED
      BY <1>0, <2>3, <2>4 DEF FilesOK
  <1>7. ASSUME NEW w \in Worker, BootPair(w) PROVE FilesOK'
    <2>1. PICK k \in Kid : keydata' = [keydata EXCEPT ![w] = <<k>> \o @]
      BY <1>7 DEF BootPair
    <2>2. mode[w] = "insert" /\ keydata[w] = <<>>
      BY <1>0, <1>7 DEF BootPair
    <2>3. keydata' = [keydata EXCEPT ![w] = <<k>>]
      BY <1>0, <2>1, <2>2
    <2>4. UNCHANGED <<jwks, saved>> /\ mode' = [mode EXCEPT ![w] = "commit"]
      BY <1>7 DEF BootPair, reqVars
    <2> QED
      BY <1>0, <2>3, <2>4, OneKeyShort DEF FilesOK
  <1>8. ASSUME NEW w \in Worker, BootPurge(w) PROVE FilesOK'
    <2>1. /\ UNCHANGED <<keydata, saved>> /\ mode' = [mode EXCEPT ![w] = "publish"]
          /\ jwks' = keydata[w]
      BY <1>8 DEF BootPurge, reqVars
    <2> QED
      BY <1>0, <2>1 DEF FilesOK
  <1>9. ASSUME NEW w \in Worker, BootFinish(w) \/ BootFail(w) PROVE FilesOK'
    <2>1. /\ UNCHANGED <<jwks, saved>> /\ keydata' = [keydata EXCEPT ![w] = <<>>]
          /\ \E m \in Modes \ {"insert"} : mode' = [mode EXCEPT ![w] = m]
      BY <1>9 DEF BootFinish, BootFail, Modes, MasterModes, fileVars, reqVars
    <2> QED
      BY <1>0, <2>1 DEF FilesOK
  <1> QED
    BY <1>2, <1>3, <1>4, <1>5, <1>6, <1>7, <1>8, <1>9 DEF Boot

\* FilesOK is inductive relative to KeyInv.
THEOREM FilesInvariant == Spec => []FilesOK
  <1>1. Init => FilesOK
    BY OneKeyShort DEF Init, FilesOK
  <1>2. KeyInv /\ FilesOK /\ [Next]_vars => FilesOK'
    <2> SUFFICES ASSUME KeyInv, FilesOK, [Next]_vars PROVE FilesOK'
      OBVIOUS
    <2>1. CASE UNCHANGED vars
      BY <2>1 DEF FilesOK, vars, fileVars, bootVars, reqVars
    <2> QED
      BY <2>1, RequestFiles, WorkerFiles DEF Next
  <1> QED
    BY <1>1, <1>2, KeyInvariant, PTL DEF Spec

\* Every variable of the key store holds a value of its type, the JWKS file and the
\* contents handlers would write back to it included.
THEOREM TypeCorrect == Spec => []TypeOK
  <1>1. KeyInv /\ FilesOK => TypeOK
    <2> SUFFICES ASSUME KeyInv, FilesOK PROVE TypeOK
      OBVIOUS
    <2>1. jwks \in Seq(Kid) /\ saved \in [Req -> Seq(Kid)]
      BY DEF FilesOK, Short
    <2> QED
      BY <2>1 DEF KeyInv, TypeOK
  <1> QED
    BY <1>1, KeyInvariant, FilesInvariant, PTL

\* However stale the content a failing handler writes back, and whatever rotations
\* append, the JWKS file stays within the larger of the two capacities.
THEOREM JwksAlwaysBounded == Spec => []JwksBounded
  <1>1. FilesOK => JwksBounded
    BY DEF FilesOK, Short, Capacity, JwksBounded
  <1> QED
    BY <1>1, FilesInvariant, PTL

-----------------------------------------------------------------------------
(* The key a worker signs with *)

\* The handlers and the poller never drop the active key of a serving worker, and
\* a worker starts to serve with its active key among the keys it loaded.
LEMMA SignerStep ==
  ASSUME KeyInv, SignerCanVerify, Next
  PROVE  SignerCanVerify'
  <1>0. /\ mode \in [Worker -> Modes] /\ active_key \in [Worker -> Kid \cup {NoKid}]
        /\ key_mapping \in [Worker -> SUBSET Kid]
        /\ \A w \in Worker : mode[w] = "up" => active_key[w] \in key_mapping[w]
    BY DEF KeyInv, CoreTypeOK, SignerCanVerify
  <1>1. ASSUME UNCHANGED <<mode, active_key, key_mapping>> PROVE SignerCanVerify'
    BY <1>1 DEF SignerCanVerify
  <1>2. ASSUME NEW w, NEW S, UNCHANGED <<mode, active_key>>,
               key_mapping' = [key_mapping EXCEPT ![w] = Invalidated(w, S)]
        PROVE  SignerCanVerify'
    BY <1>0, <1>2 DEF SignerCanVerify, Invalidated
  <1>3. ASSUME NEW w \in Worker, NEW m \in Modes \ {"up"}, mode' = [mode EXCEPT ![w] = m],
               \A v \in Worker \ {w} : /\ active_key'[v] = active_key[v]
                                       /\ key_mapping'[v] = key_mapping[v]
        PROVE  SignerCanVerify'
    BY <1>0, <1>3 DEF SignerCanVerify
  <1>4. ASSUME NEW r \in Req, Rotate(r) PROVE SignerCanVerify'
    BY <1>1, <1>4 DEF Rotate, RotateBegin, RotateLock, RotateWrite, RotateOverflow,
       RotateCommit, RotateAbort, RotateFiles, bootVars, managerVars
  <1>5. ASSUME NEW r \in Req, Invalidate(r) PROVE SignerCanVerify'
    <2>1. CASE InvalidateLocal(r)
      BY <1>2, <2>1 DEF InvalidateLocal, bootVars
    <2> QED
      BY <1>1, <1>5, <2>1 DEF Invalidate, InvalidateBegin, InvalidateReject, InvalidateLock,
         InvalidateFiles, InvalidateCommit, InvalidateFail, bootVars, managerVars
  <1>6. ASSUME NEW r \in Req, Clean(r) PROVE SignerCanVerify'
    BY <1>1, <1>6 DEF Clean, CleanBegin, CleanSelect, CleanLock, CleanFiles,
       CleanCommit, CleanPublish, CleanFail, bootVars, managerVars
  <1>7. ASSUME NEW w \in Worker, Poll(w) PROVE SignerCanVerify'
    <2>1. CASE PollRead(w)
      BY <1>1, <2>1 DEF PollRead, bootVars
    <2>2. CASE PollEvict(w)
      BY <1>2, <2>2 DEF PollEvict, bootVars
    <2>3. CASE PollFail(w)
      BY <1>1, <2>3 DEF PollFail, bootVars
    <2>4. ASSUME NEW k \in Kid, PollFetch(w, k) PROVE SignerCanVerify'
      BY <1>0, <2>4 DEF PollFetch, SignerCanVerify, bootVars
    <2> QED
      BY <1>7, <2>1, <2>2, <2>3, <2>4 DEF Poll
  <1>8. ASSUME NEW w \in Worker, Boot(w) PROVE SignerCanVerify'
    <2>1. CASE BootFinish(w)
      <3>1. keydata[w] \in Seq(Kid) /\ keydata[w] # <<>>
        BY <2>1 DEF KeyInv, CoreTypeOK, BootOK, BootFinish
      <3>2. Head(keydata[w]) \in Kids(keydata[w])
        BY <3>1 DEF Kids
      <3> QED
        BY <1>0, <2>1, <3>2 DEF BootFinish, SignerCanVerify
    <2>2. CASE SlaveLoad(w)
      <3>1. PICK s \in [1 .. Cardinality(Valid) -> Valid], a \in Active :
               /\ a \in Kids(FirstN(s, JwksCap))
               /\ active_key' = [active_key EXCEPT ![w] = a]
               /\ key_mapping' = [key_mapping EXCEPT ![w] = Kids(FirstN(s, JwksCap))]
        BY <2>2 DEF SlaveLoad
      <3>2. mode' = [mode EXCEPT ![w] = "up"]
        BY <2>2 DEF SlaveLoad
      <3> QED
        BY <1>0, <3>1, <3>2 DEF SignerCanVerify
    <2>3. CASE BootElect(w) \/ BootRead(w) \/ BootPair(w) \/ BootInsert(w) \/ BootSync(w)
                 \/ BootPurge(w) \/ BootPublish(w) \/ BootFail(w) \/ SlaveAbort(w)
      <3>1. /\ \E m \in Modes \ {"up"} : mode' = [mode EXCEPT ![w] = m]
            /\ UNCHANGED <<active_key, key_mapping>>
        BY <2>3 DEF BootElect, BootRead, BootPair, BootInsert, BootSync, BootPurge,
           BootPublish, BootFail, SlaveAbort, Modes, MasterModes, managerVars
      <3> QED
        BY <1>3, <3>1
    <2> QED
      BY <1>8, <2>1, <2>2, <2>3 DEF Boot
  <1>9. ASSUME NEW w \in Worker, Crash(w) PROVE SignerCanVerify'
    BY <1>0, <1>9 DEF Crash, SignerCanVerify
  <1>10. CASE AbortExpire \/ BootLockExpire
    BY <1>1, <1>10 DEF AbortExpire, BootLockExpire, managerVars
  <1> QED
    BY <1>4, <1>5, <1>6, <1>7, <1>8, <1>9, <1>10 DEF Next

\* In every state a serving worker has, among the keys it verifies with, the key it
\* signs with: invalidate_key and poll_store may run against each other, against
\* rotations, boots and crashes, and never drop it.
THEOREM SignerAlwaysVerifies == Spec => []SignerCanVerify
  <1>1. Init => SignerCanVerify
    BY DEF Init, SignerCanVerify
  <1>2. KeyInv /\ SignerCanVerify /\ [Next]_vars => SignerCanVerify'
    <2>1. KeyInv /\ SignerCanVerify /\ Next => SignerCanVerify'
      BY SignerStep
    <2>2. SignerCanVerify /\ UNCHANGED vars => SignerCanVerify'
      BY DEF SignerCanVerify, vars, bootVars, managerVars
    <2> QED
      BY <2>1, <2>2
  <1> QED
    BY <1>1, <1>2, KeyInvariant, PTL DEF Spec

=============================================================================
