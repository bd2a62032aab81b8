-------------------------- MODULE MCProjectionOutbox --------------------------
(* Instances of ProjectionOutbox for TLC.                                   *)
EXTENDS ProjectionOutbox, TLC

\* The rows are the successive versions of one document.
MCAggregateOf == [row \in Rows |-> "interaction"]
MCVersionOf == [row \in Rows |-> row]

\* Workers run the same code and no property tells them apart.
WorkerSymmetry == Permutations(Workers)
===============================================================================
