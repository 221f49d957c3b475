------------------------------ MODULE MCUploads ------------------------------
(* Instances of IngestionUploads: files f1 and f2 belong to one request id    *)
(* (the same request sent again with other bytes), f3 to another.             *)
EXTENDS IngestionUploads, TLC

CONSTANTS f1, f2, f3, r1, r2

MCRequestOf == [f \in Files |-> IF f = f3 THEN r2 ELSE r1]
=============================================================================
