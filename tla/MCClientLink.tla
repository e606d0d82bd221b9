---------------------------- MODULE MCClientLink ----------------------------
(***************************************************************************)
(* Two clients; HSET, PONG, and a type without a command; bodies that are  *)
(* empty, shorter than the head, and longer than one read.                 *)
(***************************************************************************)
EXTENDS ClientLink, TLC

CONSTANTS l1, l2

HSET == [type |-> 5, body |-> <<6, 1, 2>>]
PONG == [type |-> 4, body |-> <<>>]
MEET == [type |-> 1, body |-> <<3>>]

MCRequests == (l1 :> {HSET, PONG} @@ l2 :> {MEET})
MCMaxAsks == (l1 :> 2 @@ l2 :> 1)

=============================================================================
