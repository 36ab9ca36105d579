------------------------------ MODULE KeyRing ------------------------------
(***************************************************************************)
(* What the key store promises about the life of signing keys, whatever    *)
(* handlers, workers and crashes do: a ring of keys, of which exactly one  *)
(* signs once the first was created, and no more than MaxValidKeys verify. *)
(* A key is created active, is rotated out by the creation of the next     *)
(* one, expires once, and never comes back.                                *)
(***************************************************************************)
EXTENDS Naturals, FiniteSets

CONSTANTS Kid, MaxValidKeys

VARIABLE ring    \* ring[k]: "absent", "active", "rotated" or "expired"

RingStatus == {"absent", "active", "rotated", "expired"}
Signing == {k \in Kid : ring[k] = "active"}
Verifying == {k \in Kid : ring[k] \in {"active", "rotated"}}

RingInit == ring = [k \in Kid |-> "absent"]

\* The first key of an empty ring.
Create(k) ==
    /\ \A j \in Kid : ring[j] = "absent"
    /\ ring' = [ring EXCEPT ![k] = "active"]

\* New key k takes over from p; the keys V leave at the same instant.
TakeOver(p, k, V) ==
    /\ ring[p] = "active" /\ ring[k] = "absent"
    /\ \A v \in V : ring[v] \in {"active", "rotated"}
    /\ ring' = [j \in Kid |-> IF j \in V THEN "expired"
                              ELSE IF j = k THEN "active"
                              ELSE IF j = p THEN "rotated" ELSE ring[j]]
    /\ Cardinality(Verifying') <= MaxValidKeys

\* Rotated keys V stop verifying.
Retire(V) ==
    /\ \A v \in V : ring[v] = "rotated"
    /\ ring' = [j \in Kid |-> IF j \in V THEN "expired" ELSE ring[j]]

RingNext ==
    \/ \E k \in Kid : Create(k)
    \/ \E p, k \in Kid, V \in SUBSET Kid : TakeOver(p, k, V)
    \/ \E V \in SUBSET Kid : Retire(V)

RingSpec == RingInit /\ [][RingNext]_ring
=============================================================================
