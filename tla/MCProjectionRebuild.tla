------------------------- MODULE MCProjectionRebuild -------------------------
(* Small instances of ProjectionRebuild: two versions of one document with  *)
(* a change of another between them.                                        *)
EXTENDS ProjectionRebuild

MCDocumentOf == [row \in Rows |-> IF row = 2 THEN 2 ELSE 1]
MCVersionOf == [row \in Rows |-> IF row = 3 THEN 2 ELSE 1]
=============================================================================
