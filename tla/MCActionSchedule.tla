--------------------------- MODULE MCActionSchedule ---------------------------
(* Instances of ActionSchedule for TLC: an expression with a slot at every        *)
(* moment, and one that has a single slot.                                       *)
EXTENDS ActionSchedule

MCCrons == {"always", "once"}
MCCronNext == [always |-> [t \in 0..MaxTime |-> t + 1],
               once |-> [t \in 0..MaxTime |-> IF t < 2 THEN 2 ELSE Never]]
===============================================================================
