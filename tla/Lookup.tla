------------------------------- MODULE Lookup -------------------------------
(***************************************************************************)
(* What a lookup of a resource promises, however it is cached and shared:  *)
(* it reads the row at one instant between its call and its return and     *)
(* returns what it read, or it fails and returns no row at all.  An answer *)
(* once given stands until the caller has it, and a lookup that dies       *)
(* leaves nothing behind.                                                  *)
(***************************************************************************)
CONSTANTS Request, Row, Failure   \* Failure: what a lookup returns instead of a row

VARIABLES row,     \* the row there is
          call     \* call[r]: <<"idle">>, <<"open">>, <<"saw", v>> or <<"done", a>>

LookupInit == row \in Row /\ call = [r \in Request |-> <<"idle">>]

Turn(r, c) == call' = [call EXCEPT ![r] = c] /\ UNCHANGED row

Begin(r) == call[r] = <<"idle">> /\ Turn(r, <<"open">>)
See(r) == call[r] = <<"open">> /\ Turn(r, <<"saw", row>>)
Tell(r) == \E v \in Row : call[r] = <<"saw", v>> /\ Turn(r, <<"done", v>>)
Fail(r) == /\ \A a \in Row \cup Failure : call[r] # <<"done", a>>
           /\ \E a \in Failure : Turn(r, <<"done", a>>)
End(r) == Turn(r, <<"idle">>)
Write == row' \in Row /\ UNCHANGED call

LookupNext == \/ \E r \in Request : Begin(r) \/ See(r) \/ Tell(r) \/ Fail(r) \/ End(r)
              \/ Write

LookupSpec == LookupInit /\ [][LookupNext]_<<row, call>>
=============================================================================
