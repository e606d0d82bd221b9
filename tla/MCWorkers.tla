----------------------------- MODULE MCWorkers -----------------------------
(***************************************************************************)
(* A small instance of Workers: two workers, two signals.                  *)
(***************************************************************************)
EXTENDS Workers

MCSignals == {"SIGINT", "SIGTERM"}
=============================================================================
