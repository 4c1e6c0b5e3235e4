-------------------------- MODULE MCConnectionPool --------------------------
(* A pool of two connections and four requests, about one execution. *)
EXTENDS ConnectionPool
CONSTANTS w1, w2, w3, w4, e1
=============================================================================
