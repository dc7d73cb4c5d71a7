---------------------------- MODULE MCDBPostgres ----------------------------
(* Model-checking instance of DBPostgres and its ConnectionPool.           *)
EXTENDS DBPostgres

CONSTANTS t1, t2, c1, c2, n1

(* The constructor may have opened two connections, so that two            *)
(* transactions overlap, or one or none, so that a thread has to wait.     *)
MCThreads == {t1, t2}
MCConnections == {c1, c2}
MCNames == {n1}

=============================================================================
