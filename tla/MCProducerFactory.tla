-------------------------- MODULE MCProducerFactory --------------------------
(* Two callers, whose probes can overlap with each other's and with those   *)
(* of several rounds of the monitor.                                        *)
EXTENDS ProducerFactory, TLC

CONSTANTS c1, c2

MCCallers == {c1, c2}
Interchangeable == Permutations(MCCallers)
=============================================================================
