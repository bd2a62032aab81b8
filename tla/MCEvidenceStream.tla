-------------------------- MODULE MCEvidenceStream --------------------------
(* Small instances of EvidenceStream: a stream with two replicas and a     *)
(* stream with one.                                                        *)
EXTENDS EvidenceStream

CONSTANTS a1, a2, b1, wa1, wa2, wb

MCStreamOf == [x \in Events \union Workers |-> IF x \in {b1, wb} THEN "b" ELSE "a"]

\* The first events of the two streams name each other as cause.
OneInteraction == [e \in Events |-> "i1"]
Mutual == [e \in Events |->
             IF e = a1 THEN {b1} ELSE IF e = b1 THEN {a1} ELSE {}]

\* The event of the other stream names a cause of another interaction.
TwoInteractions == [e \in Events |-> IF e = b1 THEN "i2" ELSE "i1"]
Crossing == [e \in Events |-> IF e = b1 THEN {a1} ELSE {}]
=============================================================================
