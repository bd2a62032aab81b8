-------------------------- MODULE ProjectionDelivery --------------------------
(***************************************************************************)
(* What the projection pipeline promises its readers, with no worker, no   *)
(* lease and no retry in sight.  Every committed outbox row is due until   *)
(* it is delivered or buried in the dead letter queue; a row counts as     *)
(* delivered only when the read index shows its version of the aggregate,  *)
(* or a newer one; a document never goes back to an older version; and     *)
(* only an operator brings a dead row back.                                *)
(***************************************************************************)
EXTENDS Integers

CONSTANTS
    Rows,           \* outbox rows
    Aggregates,     \* projected documents
    AggregateOf,    \* the document a row projects
    VersionOf       \* the version of the document a row carries

VARIABLES
    phase,          \* "absent", "due", "delivered" or "dead", per row
    document        \* version the index shows per aggregate, 0 when it has none

vars == <<phase, document>>

\* v is a version of a that was committed, or none.
Known(a, v) ==
    \/ v = 0
    \/ \E row \in Rows : phase[row] # "absent" /\ AggregateOf[row] = a /\ VersionOf[row] = v

\* The system may have been in use.
Init ==
    /\ phase \in [Rows -> {"absent", "due", "delivered", "dead"}]
    /\ document \in [Aggregates -> Nat]
    /\ \A a \in Aggregates : Known(a, document[a])
    /\ \A row \in Rows :
          phase[row] = "delivered" => document[AggregateOf[row]] >= VersionOf[row]

\* A row is committed together with the state change it describes.
Commit(row) ==
    /\ phase[row] = "absent"
    /\ phase' = [phase EXCEPT ![row] = "due"]
    /\ UNCHANGED document

\* The index takes newer versions of the documents than it shows.  Duplicates and
\* late arrivals are allowed: a version may be applied at any time once its row is
\* committed, and those of several documents at once, when another index takes the
\* place of the one that is read.
Apply ==
    /\ document' \in [Aggregates -> Nat]
    /\ \A a \in Aggregates :
          \/ document'[a] = document[a]
          \/ document'[a] > document[a] /\ Known(a, document'[a])
    /\ UNCHANGED phase

Deliver(row) ==
    /\ phase[row] = "due"
    /\ document[AggregateOf[row]] >= VersionOf[row]
    /\ phase' = [phase EXCEPT ![row] = "delivered"]
    /\ UNCHANGED document

Bury(row) ==
    /\ phase[row] = "due"
    /\ phase' = [phase EXCEPT ![row] = "dead"]
    /\ UNCHANGED document

Replay(row) ==
    /\ phase[row] = "dead"
    /\ phase' = [phase EXCEPT ![row] = "due"]
    /\ UNCHANGED document

Next ==
    \/ Apply
    \/ \E row \in Rows : Commit(row) \/ Deliver(row) \/ Bury(row) \/ Replay(row)

Spec == Init /\ [][Next]_vars
===============================================================================
