--------------------------- MODULE ConsumerGroup ---------------------------
(***************************************************************************)
(* What a consumer group promises for one queue, whoever of its clients    *)
(* works on it: messages get finished in any order, and the offset the     *)
(* broker keeps for the group never passes a message that nobody finished. *)
(* It may fall back; then messages are consumed once more.                 *)
(***************************************************************************)
EXTENDS Integers

CONSTANT MaxOffset   \* bound: messages in the queue

VARIABLES maxOffset,  \* the queue holds the offsets below it
          finished,   \* offsets nobody has to work on any more
          committed   \* the group's offset on the broker, -1 when it has none

vars == <<maxOffset, finished, committed>>

Safe(v) == \A m \in 0 .. v - 1 : m \in finished

Init ==
    /\ maxOffset \in 0 .. MaxOffset
    /\ finished \subseteq 0 .. MaxOffset
    /\ committed = -1

Arrive ==
    /\ maxOffset < MaxOffset
    /\ maxOffset' = maxOffset + 1
    /\ UNCHANGED <<finished, committed>>

Finish ==
    /\ \E some \in SUBSET (0 .. maxOffset - 1) : finished' = finished \cup some
    /\ UNCHANGED <<maxOffset, committed>>

Commit ==
    /\ committed' \in -1 .. maxOffset
    /\ Safe(committed')
    /\ UNCHANGED <<maxOffset, finished>>

Next == Arrive \/ Finish \/ Commit

Spec == Init /\ [][Next]_vars

=============================================================================
