-------------------------- MODULE MCRedisProducer --------------------------
(* Two sends: one may hold the client's connect() while the other calls it. *)
EXTENDS RedisProducer, TLC

CONSTANTS s1, s2

MCSends == {s1, s2}
Interchangeable == Permutations(MCSends)
=============================================================================
