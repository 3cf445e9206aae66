------------------------------- MODULE Fanout -------------------------------
(***************************************************************************)
(* What the shared buffer is for: a first-in first-out queue that hands    *)
(* every item to every reader.  Items are numbered in the order in which   *)
(* they are published; retired ones have left the queue.                   *)
(*                                                                         *)
(* The oldest item may be retired at any time: that is all the linked list *)
(* of sensor_buffer.c provides in every interleaving.  That it was first   *)
(* taken by all readers is the promise of the comments in sbuffer_remove;  *)
(* NoLossUnlessOvertaken of module SensorBuffer says when it is kept.      *)
(***************************************************************************)
EXTENDS Integers

CONSTANTS Readers, MaxPublished

VARIABLES published, retired, taken

vars == <<published, retired, taken>>

Init ==
    /\ published = 0
    /\ retired = 0
    /\ taken = [r \in Readers |-> {}]

Publish ==
    /\ published < MaxPublished
    /\ published' = published + 1
    /\ UNCHANGED <<retired, taken>>

\* Reader r takes the oldest item of the queue that it has not taken yet.
Take(r) ==
    /\ \E n \in (retired + 1)..published :
         /\ n \notin taken[r]
         /\ \A m \in (retired + 1)..(n - 1) : m \in taken[r]
         /\ taken' = [taken EXCEPT ![r] = @ \cup {n}]
    /\ UNCHANGED <<published, retired>>

Retire ==
    /\ retired < published
    /\ retired' = retired + 1
    /\ UNCHANGED <<published, taken>>

Next == Publish \/ (\E r \in Readers : Take(r)) \/ Retire

Spec == Init /\ [][Next]_vars
=============================================================================
