-------------------------------- MODULE MCLock --------------------------------
(* The ingest lock alone: three calls of one process, whose pool is smaller,  *)
(* and one of another process.                                                *)
EXTENDS PgAdvisoryLock

CONSTANTS s1, s2, s3

SomePool == [c \in Clients |-> IF c = 4 THEN {s3} ELSE {s1, s2}]
===============================================================================
