---------------------------- MODULE MCBookingRace ----------------------------
(***************************************************************************)
(* Instances of BookingRace for TLC.                                       *)
(***************************************************************************)
EXTENDS BookingRace, TLC

CONSTANTS s1, g1, g2, u1, u2, p1, p2

OneGpu == [g \in {g1} |-> s1]
SameServer == [g \in {g1, g2} |-> s1]

(* The threads of a pool are interchangeable.                              *)
ThreadsAlike == Permutations({p1, p2})

(* Grid of one unit; a student may hold one, two or three reservations.    *)
Grid == [slot |-> 1, maxDuration |-> 2, horizon |-> 2, maxRam |-> 2,
         maxActive |-> 2, delay |-> 1]
OneRegulation == {Grid}
TightRegulation == {[Grid EXCEPT !.maxActive = 1]}
TwoRegulations == OneRegulation \cup TightRegulation
==============================================================================
