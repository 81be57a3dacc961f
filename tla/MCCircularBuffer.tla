-------------------------- MODULE MCCircularBuffer --------------------------
(* Instances of CircularBuffer for TLC.                                    *)
EXTENDS CircularBuffer, TLC

CONSTANTS r1, r2, s1, s2

TwoReaders == {r1, r2}
TwoServants == {s1, s2}

(* Each call on a servant of its own: the two interfaces, or one client.   *)
OwnServant == r1 :> s1 @@ r2 :> s2

OneReader == {r1}
OneServant == {s1}
ItsServant == r1 :> s1
=============================================================================
