-------------------------- MODULE EvidenceDelivery --------------------------
(***************************************************************************)
(* What a producer's outbox and the ledger promise together, with no       *)
(* worker, no lease, no epoch and no request in sight.  The ledger takes   *)
(* each event once, and the events of a stream in the order in which they  *)
(* were produced: an event has its turn when all before it are settled.    *)
(* The outbox reports the truth: an event counts as delivered when the     *)
(* ledger has it, and waits for an operator, or is given up, only when the *)
(* ledger does not have it and will not get it.                            *)
(***************************************************************************)
EXTENDS Integers, Sequences

CONSTANTS
  Events,
  StreamOf    \* the stream each event is produced in

VARIABLES
  fate,       \* "absent", "open", "parked", "delivered", "abandoned" or "removed"
  earlier,    \* the events of its stream produced before an event
  ledger      \* the events taken, in this order

vars == <<fate, earlier, ledger>>

Settled == {"delivered", "abandoned", "removed"}
Taken == {ledger[i] : i \in DOMAIN ledger}

Init ==
  /\ fate = [e \in Events |-> "absent"]
  /\ earlier = [e \in Events |-> {}]
  /\ ledger = <<>>

\* An event is written down with the change it tells of, behind those of its stream.
Produce(e) ==
  /\ fate[e] = "absent"
  /\ fate' = [fate EXCEPT ![e] = "open"]
  /\ earlier' = [earlier EXCEPT ![e] =
                   {f \in Events : StreamOf[f] = StreamOf[e] /\ fate[f] # "absent"}]
  /\ UNCHANGED ledger

HasTurn(e) == fate[e] = "open" /\ \A f \in earlier[e] : fate[f] \in Settled

Take(e) ==
  /\ HasTurn(e) /\ e \notin Taken
  /\ ledger' = Append(ledger, e)
  /\ UNCHANGED <<fate, earlier>>

\* An event's report changes, from one of the fates to another.
Report(e, from, to) ==
  /\ fate[e] \in from
  /\ fate' = [fate EXCEPT ![e] = to]
  /\ UNCHANGED <<earlier, ledger>>

Acknowledge(e) == e \in Taken /\ Report(e, {"open"}, "delivered")
Park(e) == HasTurn(e) /\ e \notin Taken /\ Report(e, {"open"}, "parked")
Reopen(e) == Report(e, {"parked"}, "open")
GiveUp(e) == Report(e, {"parked"}, "abandoned")
Forget(e) == Report(e, {"delivered", "abandoned"}, "removed")

Next == \E e \in Events :
  \/ Produce(e) \/ Take(e) \/ Acknowledge(e)
  \/ Park(e) \/ Reopen(e) \/ GiveUp(e) \/ Forget(e)

Spec == Init /\ [][Next]_vars
=============================================================================
