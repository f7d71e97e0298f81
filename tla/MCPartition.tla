---------------------------- MODULE MCPartition ----------------------------
(* Integers of 7 bits and ids of up to 5 characters, enough to wrap several *)
(* times and to reach the least integer.                                    *)
EXTENDS Partition

\* Codes of both parities, as `wal_`, digits and a-f have.
MCCharCodes == {48, 53, 97, 102}
=============================================================================
