------------------------------ MODULE MCBooking ------------------------------
(***************************************************************************)
(* Instances of Booking for TLC: the shapes of fleet and the regulations   *)
(* the configurations choose from.                                         *)
(***************************************************************************)
EXTENDS Booking, TLC

CONSTANTS s1, g1, g2, u1, u2

OneGpu == [g \in {g1} |-> s1]
SameServer == [g \in {g1, g2} |-> s1]

(* Students are interchangeable.                                          *)
StudentsAlike == Permutations({u1, u2})
(* So are the GPUs of one server.                                         *)
GpusAlike == Permutations({g1, g2})
AllAlike == StudentsAlike \cup GpusAlike

(* Grid of one unit, no limit in the way but the GPU's size.               *)
Roomy == [slot |-> 1, maxDuration |-> 3, horizon |-> 3, maxRam |-> 2,
          maxActive |-> 3, delay |-> 1]
(* A coarser grid, so that a resume lands off it, and short bookings.      *)
Coarse == [slot |-> 2, maxDuration |-> 2, horizon |-> 1, maxRam |-> 1,
           maxActive |-> 2, delay |-> 1]

OneRegulation == {Roomy}
TwoRegulations == {Roomy, Coarse}
(* A limit that three rows can exceed.                                     *)
PairRegulation == {[Roomy EXCEPT !.maxActive = 2]}
==============================================================================
