----------------------------- MODULE MCBacklog -----------------------------
(***************************************************************************)
(* Small instances of Backlog: two workers and the main thread.            *)
(***************************************************************************)
EXTENDS Backlog, TLC

CONSTANTS w1, w2, m

MCWorkers == {w1, w2}

(* The workers race with each other; the main thread feeds once.           *)
MCMaxFeeds == (w1 :> 2) @@ (w2 :> 1) @@ (m :> 1)

(* Once each: enough for the liveness of one batch, and for the races.     *)
MCOneFeed == (w1 :> 1) @@ (w2 :> 1) @@ (m :> 1)
=============================================================================
