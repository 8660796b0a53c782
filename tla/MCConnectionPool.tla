-------------------------- MODULE MCConnectionPool --------------------------
(* Three worker threads share a pool of two (the limit of an SVC or XIV    *)
(* array): one thread too many, so that somebody waits.                    *)
EXTENDS ConnectionPool
=============================================================================
