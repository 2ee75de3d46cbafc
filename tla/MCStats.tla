-------------------------------- MODULE MCStats -------------------------------
(***************************************************************************)
(* Stats on a small instance: latencies below, within and above what the   *)
(* ring can hold, and interchangeable exchanges.                           *)
(***************************************************************************)
EXTENDS Stats

MCLatency == {1, 5}
MCSymmetry == Permutations(Exchange)
===============================================================================
