----------------------------- MODULE MCBackfill -----------------------------
(***************************************************************************)
(* Instance of Backfill: days of two hours, one closed and one late hour,  *)
(* windows that start and end anywhere, half hours included.               *)
(***************************************************************************)
EXTENDS Backfill

MCHours == 0 .. 2
MCWorkers == {1, 2}
MCClosed == {}
MCLate == {1}
=============================================================================
