----------------------------- MODULE EntryLife -----------------------------
(***************************************************************************)
(* What the consumers of an event stream promise about each entry, however *)
(* often it is delivered and whatever fails: it is recorded as processed   *)
(* once, and when it is, it is finished (worked on, or in the dead letter  *)
(* queue) or claimed by one consumer, which finishes it or dies with it.   *)
(* Its work is committed once, in the step that finds it finished, unless  *)
(* an attempt had lost its record: such work is loose and may be repeated. *)
(***************************************************************************)
EXTENDS Naturals

CONSTANT Entry

VARIABLES recordFirst,  \* the record is committed before the work, not with it
          life,         \* where each entry is
          count,        \* how often the work of each entry was committed
          loose         \* entries whose work was committed without their record

Stage == {"open", "claimed", "finished", "lost"}

LifeInit ==
    /\ recordFirst \in BOOLEAN
    /\ life = [e \in Entry |-> "open"]
    /\ count = [e \in Entry |-> 0]
    /\ loose = {}

\* Only a consumer that records first can claim an entry, and lose it.
Moves == {<<"open", "finished">>} \cup
         (IF recordFirst THEN {<<"open", "claimed">>, <<"claimed", "finished">>,
                               <<"claimed", "lost">>} ELSE {})
Moved(e) == life'[e] = life[e] \/ <<life[e], life'[e]>> \in Moves

Unworked(e) == count'[e] = count[e] /\ (e \in loose' <=> e \in loose)
WorkedOnce(e) == /\ count[e] = 0 /\ count'[e] = 1 /\ life'[e] = "finished"
                 /\ (e \in loose' <=> e \in loose)
WorkedLoose(e) == count'[e] = count[e] + 1 /\ e \in loose'

\* A transaction or a dead letter concerns a batch: any set of entries moves together.
LifeNext ==
    /\ UNCHANGED recordFirst
    /\ \A e \in Entry : /\ Moved(e)
                        /\ Unworked(e) \/ WorkedOnce(e) \/ WorkedLoose(e)

LifeSpec == LifeInit /\ [][LifeNext]_<<recordFirst, life, count, loose>>
=============================================================================
